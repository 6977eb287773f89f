# BDEv: a verification project

BDEv (the Big Data Evaluator, `src/`) is a set of shell scripts that measures
big-data frameworks on a cluster: it deploys Hadoop, Spark or Flink, generates
input data, runs workloads, and writes a report.  One evaluation takes hours,
runs unattended, and deletes and formats file systems on the way.  The scripts
have no tests.  What can go wrong is seldom in one script: it is what one visit
leaves behind for the next one (a service, an application, a file system of
another version, half an input), and which of several flags decided that.  This
directory models that, checks it with TLC and proves the main results with
TLAPS.

## 1. The system

### 1.1 Components

| component | code | state it keeps | operations |
|---|---|---|---|
| driver | `bin/run.sh`, `init.sh`, `finish.sh` | position in `CLUSTER_SIZES` and `SOLUTIONS`, `LAST_/CURRENT_HADOOP_VERSION`, `FORCE_DELETE_HDFS`, `FORCE_FORMAT_HDFS` | start, next cluster size, next framework, finish, `m_exit` |
| visit | `bin/run-framework.sh`, `run-command.sh`, `set_framework`, `bench-env.sh` | position in `BENCHMARKS`, execution `i`, `FINISH` | boot, start, configure, prepare, the two loops, finish, `m_exit` |
| execution | `run_benchmark`, `save_elapsed_time` and the `run.sh` of each workload | `ELAPSED_TIMES`, `TIMEOUT` | run with or without timeout, save the result |
| report | `begin_report`, `write_report` | `REPORT_FILE` | begin, one line per workload |
| input data | `benchmarks/common/conf/configure.sh`, `benchmarks/common/bin/prepare.sh` | `GEN_*`, `INPUT_*`, the directories on the storage | choose, reuse, generate |
| storage | `storage_backend.sh`, the HDFS directories, the NFS mount point | version the NameNode was formatted for, contents | format, exists, delete |
| life cycle | `frameworks/src/*/bin/start.sh`, `finish.sh` and the common scripts | daemons on the nodes, pid files | start, stop |
| cleanup | `bin/cleanup/*.sh`, `bin/kill.sh` | none; acts on daemons, applications, directories | data, processes, YARN applications |
| monitoring | `bin/stat`, `bin/rapl`, `bin/oprofile`, `bin/ilo`, `bin/bdwatchdog`, `start_benchmark`, `end_benchmark` | monitors on the nodes, `START_TIME`, `END_TIME` | start, stop, plot |
| power monitor | `bin/rapl/rapl_plot/rapl_plot.c`, on every node | events, ten files and their buffers, the clock, the counters | find the events, write the headers, sample, write a row, flush |
| configuration | `bdev-env.sh`, `conf-params.sh`, `gen-config.sh` | none (arithmetic and templates) | derive, substitute |
| hosts and network | `load-hostfile.sh`, `configure_nodes`, `configure_network` | host file, interfaces, names | load, resolve |
| plots and statistics | `bin/plot`, `bin/stat` | none | read runtime files, draw |
| programs | Scala and Java workloads, PAPI, dool, Pegasus | — | vendored, or pure computation |

### 1.2 How they interact

Everything is a shell process calling another one:

- The driver launches one child shell per visit (`bash run-framework.sh`) and
  waits for it.  It never reads the child's exit status, so an `m_exit` in the
  child ends that visit and no more, while an `m_exit` in the driver ends the
  evaluation.  Both run the process cleanup; neither runs the data cleanup.
- The child's variables die with it; those of the driver are inherited through
  `export`.  So `FINISH` is per visit, the decision to format is the driver's,
  and what passes from one visit to the next is the cluster: the storage, the
  daemons, the applications.
- Services are started over ssh and answer (or do not) later: HDFS leaves its
  safe mode when its DataNodes have reported.
- `timeout` kills the client of a workload.  The application the client
  submitted to YARN, or to the master of a standalone cluster, is another process
  and may go on.
- A power monitor is started on every node at the beginning of a call, and in
  the normal case killed (`killall -9`) at its end, whatever it is doing; the
  plots add up the k-th rows of the nodes.
- Generators run as YARN jobs for every framework, standalone ones included,
  which therefore start YARN only to kill it before their workloads.

### 1.3 The hard behaviours, and what makes each component correct

- *Partial failure.*  Any visit may stop at several places; its successors must
  not depend on its having been completed.
- *Stale comparisons.*  `run.sh` decides on a format by comparing the version of
  this visit with that of the previous visit, not with the disk.
- *Existence taken for completeness.*  An input directory that exists is used,
  whoever made it and however it ended.
- *Orphans.*  An application that outlives its client competes with the next
  execution.
- *Three places that delete or format* (`run.sh`, `finish.sh`, `start_hadoop*`)
  from four flags, with a user's data at stake.
- *Measuring while writing.*  A power monitor measures, writes and sleeps in one
  loop; what it writes delays what it measures, it is killed at any moment, and
  its numbers have fixed widths: the counters of the processor 32 bits, the
  argument of `usleep` 32 bits without sign, the arrays 16 events.
- *Liveness.*  Unattended, with waits that have no timeout of their own.

Driver and visit are correct when each visit starts on a clean cluster and a
disk of its own version; execution, when a workload runs alone and its results
account for whole executions; the report, when a reader can tell which
workloads ran; input data, when a workload reads a whole input of the size
asked for; storage, when what is to be kept is kept; a power monitor, when it
samples on time, leaves out no energy but that of its own work, divides it by
the time it was used in, and leaves whole rows wherever it is killed; the whole,
when it ends.

The hazards are listed one by one, at their lines, in `PROJECT.json`.

## 2. The modules

| module | what it is |
|---|---|
| `Inputs` | the choice of an input directory for each workload: constants and operators only |
| `Evaluation` | the core: driver, visit, execution, report, storage, services and cleanup |
| `Campaign` | the abstract specification: what an evaluation promises to the reader of its report |
| `Monitoring` | the measurement of a workload: monitors on the nodes, delays and clocks |
| `Rapl` | the power monitor of a node, `rapl_plot.c`, whole |
| `Processors` | the events that PAPI has for a processor: constants of `Rapl` |
| `Sampler` | the abstract specification: what a power monitor promises to the reader of its files |
| `MCEvaluation`, `MCMonitoring`, `MCRapl` | instances for TLC |
| `Evaluation_proofs`, `EvaluationSafety_proofs`, `Campaign_proofs`, `EvaluationRefinement_proofs`, `Monitoring_proofs`, `Sampler_proofs`, `Rapl_proofs`, `RaplRows_proofs` | the theorems |

`Evaluation` extends `Inputs` and instantiates `Campaign` under the name
`Promise` with a refinement mapping; `Rapl` instantiates `Sampler` under the
name `Reader` in the same way.  The two abstract specifications have no runs of
their own: a run checks that the detailed one implements each of them, and their
properties are theorems.  `PROJECT.json` maps every definition to the lines it
stands for.

### 2.1 `Evaluation` and the code

Two control points, `main` (run.sh) and `child` (run-framework.sh or
run-command.sh), move in turn.  `main` is `"init"`, `"loop"`, `"child"` while it
waits, `"finished"`, or `"aborted"` after `m_exit`.  `child` is `"none"` or the
part of the script it is in.

| action | code |
|---|---|
| `InitBDEv` | `init.sh`; fails without a host file |
| `NextCluster` | `run.sh:14-29`: the next cluster size, `FORCE_DELETE_HDFS`, data cleanup; in the mode without frameworks it launches `run-command.sh` |
| `NextSolution` | `run.sh:32-60`: `set_framework`, `FORCE_FORMAT_HDFS`, launch; `m_exit` when the framework is not installed |
| `FinishBDEv` | `finish.sh` |
| `Boot` | `run-framework.sh:3-16`: loading and configuring the network, which may `m_exit` |
| `Start` | `start_hadoop_yarn*.sh`: HDFS and YARN after a format that is made, is refused before it touches the disk, or fails once the directory is cleared (nobody reads its exit status), or the early `exit 1` when the files cannot be copied |
| `LeaveSafeMode` | `hdfs dfsadmin -safemode wait` |
| `Deploy` | the rest of `start.sh`: the standalone cluster, the Flink checks that `m_exit` |
| `Configure` | `configure.sh` of the suite, which may `m_exit` |
| `Prepare` | `prepare.sh`: generators that may fail, then the end of a YARN that is not needed |
| `NextBenchmark`, `NextExecution`, `RunBenchmark`, `EndExecution`, `EndExecutions`, `WriteReport` | the two loops of `run-framework.sh:35-77`, `run_benchmark`, `save_elapsed_time` and `write_report` |
| `FinishChild` | `cleanup_phase`, `finish.sh` of the framework |

The abstractions:

- The cluster is one thing.  `daemons` is the set of services that run and
  `orphan` whether some application outlives its client, which takes YARN or a
  standalone cluster to run on; nodes and processes are not told apart.
- The storage is the version the NameNode is formatted with (or `Null`) and a
  state per input directory: `absent`, `partial`, `complete`, or `stale` for one
  that an earlier evaluation left and whose size nobody knows.  The NameNode
  accepts a disk of its own version only (external, `NameNodeAccepts`).
- A directory is named after its workload; sizes are one number per workload
  (for aggregation, join and scan, the pages and user visits together).  Inputs
  outside the `GEN_*` flags are not tracked.
- A result is `OK`, `FAILED` or `TIMEOUT`, never a time.  `Saved` is what
  `save_elapsed_time` makes of the results before it.
- `formatOwed` and `genFailed` are history variables: a format that was decided
  on and skipped (the visit ended before it) or failed, a generator that failed.  No guard
  reads them; they state what a property is conditional on.
- The framework kinds are one for each life cycle and suite the scripts tell
  apart; names that share both are not repeated.

### 2.2 `Campaign`

Visits are made in order, each at most once; the lines of a visit name the
workloads in order from the first; a visit reports nothing, or every workload up
to the first that goes bad, or all of them.  `WellFormed` says what a reader can
tell from the lines alone.  The mapping counts visits (`Launched`), abstracts a
line to its position and to good or bad (`Seen`), and an evaluation to complete
or given up (`Over`).

### 2.3 `Monitoring`

One step of `RunBenchmark` in `Evaluation`, looked at from nearer: what
`start_benchmark`, the command and `end_benchmark` do to the clocks and to the
monitors.

| action | code |
|---|---|
| `Cleanup` | the process cleanup of `init.sh`, which kills dool and, since their switches are not passed to the nodes, neither RAPL nor Oprofile |
| `StartBenchmark` | `start_benchmark`: the total clock, the launch of every monitor, the delay, the clock |
| `EndBenchmark` | the command and `end_benchmark`: the clock, the delay, the kills, the total clock, the result |
| `NextExecution` | the loop of `run-framework.sh:41-70`, which sets the clocks to zero |

A monitor is launched by an ssh in the background and comes up later; a kill
finds only what is up.  Time is a number that the delays and the command move
forward, and `Latency` bounds the time between launch and coming up: a monitor
comes up at any moment before, and is up after.  The steps of start and stop are
not split by tool or node, because no time passes between them in the model and a
monitor that comes up during a stop behaves like one that came up just before or
just after it.  A monitor is a record of its tool, host, node, call and launch
time; a monitor that an interrupted evaluation left has number 0.  The daemons of
BDWatchdog are started in the foreground; what they do is external.  Each has a
switch besides `ENABLE_BDWATCHDOG`, and `Wait` is the delay with all of them off,
too: `start_benchmark` sets `WAIT_SECONDS` wherever that variable is true.

### 2.4 `Rapl`, `Processors` and `Sampler`

`pc` is where `main` is.  One action stands for one stretch of `rapl_plot.c`
between two calls that can fail or take time; each of them can also end the
program as the code does (`Fail`), and `Kill` can happen between any two.

| action | code |
|---|---|
| `ReadArguments`, `InitLibrary`, `FindComponent` | the usage message, `PAPI_library_init`, the search for the component: the first that is RAPL's, or that cannot be read, ends it |
| `FindEvent`, `AddEvents` | the enumeration of the native events, of which the energies are kept up to `MAX_EVENTS`; the event set |
| `OpenFiles`, `WriteHeader` | ten `fopen`s, then the header of each file, event by event |
| `Flush` | one `fflush`, ten times after the headers and after every row |
| `BeginLoop`, `StartCounting`, `Sample`, `WriteRow`, `NextTurn`, `Finish` | the loop: `before_time` and `PAPI_start`; `usleep` and `PAPI_stop`; the cells of a row; the test of the maximum time |

- Time is a number of ticks that `PAPI_start`, `usleep`, `PAPI_stop` and the
  flushes of a row move forward; the other statements take none, and neither do
  the flushes of the headers, since the program reads no clock before its loop.
  `Overhead` is the 50 microseconds the code adds to the time it has used.
- The counters are read inside `PAPI_start` and inside `PAPI_stop`
  (`linux-rapl.c:1066-1116`), at any moment of the call.  `counting` is the first
  of these moments, which comes after `before_time`; the second comes after
  `after_time`.  The energies are those between the two (`Covered`), and
  `measured` adds these times up, while the program divides by the time between
  `before_time` and `after_time`.
- `SleepTime` is the argument of `usleep` with its type: a difference of signed
  numbers, taken modulo `Span` = 2^32.  `Counted` is what the counters of the
  processor make of an energy, modulo `CounterSpan`.
- An event is a record of what it measures, of which package, in which unit;
  the `strstr` ladders on its name are `HasFile` and `Mentions` (package 12 is
  taken for package 1, because its name begins like that of package 1).  An
  energy file and the power file of the same events get the same columns and are
  written next to each other, so that a stream has one header and one row.
- `written` counts the lines in the buffers, `disk` those of each file on disk,
  and `tail` says whether a part of a line comes after them.  `exit` writes the
  buffers (`Exit`), with the line that was begun: an event without a file ends the
  program in the middle of the headers, and ten files with a part of a header are
  left.  The same test stands in the row (`CutRow`), where no event gets to, for
  the headers have seen them all.  A kill writes nothing.
- `Remember` keeps the last reading of a package when a row has no other, as the
  variables `energy_pkg0`, `energy_pp0_pkg1` do.
- A loop over the events that writes some of them to a file is `InOrder`: the
  numbers of a finite set in increasing order, applied to the places of those
  events.  `SelectSeq` would say the same, but is recursive and nothing can be
  proved about it here.
- `Powers` is the energy an event counts in a tick: zero, or more than zero.
- `MaxSamples` bounds the samples of a behaviour; it stands in `StartCounting`.

`Processors` has the events that `linux-rapl.c` makes for several families of
processors.  `ProcessorAssumption` says what all of these have in common
(`Regular`): a meter has an energy for every package or for none, and the
packages come in order, from 0 on.  TLC evaluates it for the processors of the
runs.  It also says that `MAX_EVENTS` is at most 22: with larger arrays there
would be room for package 10, whose name is taken for that of package 1.

`Sampler` is the promise: samples whose times lie between two bounds, a row of
each in every file, file after file before the next sample, and an end at any
time.

## 3. What is checked

| run | instance | shows |
|---|---|---|
| `evaluation_versions` | two sizes, three frameworks of versions v1 v2 v1, one of every life cycle | `CleanSlate`, `FormattedForVersion`, `SafetyInv` (the inductive invariant of the proofs) |
| `evaluation_inputs` | three frameworks of one version; wordcount, sort and grep, where sort reuses and grep, of another size, may not | `InputsReady`, `FormattedUnlessSkipped`, `DataKept` |
| `evaluation_report` | an unsupported workload, a framework that is missing, two executions of a workload with two calls, with fairness | `TypeOK`, `WorkloadAlone`, `GoodAlone`, `TimesAccounted`, `ReportWellFormed`, `PromiseKept` (the refinement of `Campaign`), `Progress`, `EvaluationEnds` |
| `evaluation_command` | no framework, two sizes, a directory of two executables | `TimesAccounted` |
| `evaluation_format` | three frameworks of one version | expected to fail: see 3.3 |
| `monitoring_prompt` | three nodes, four tools, latency within the delay, two executions of two calls | `Sampled`, `TimesMeasured` |
| `monitoring_slow` | one node, which is its own slave; latency of two delays | `NoSurvivor`, `MonitoringInv` (inductive) |
| `monitoring_ilo` | `run.sh` on a host that is not the master | expected to fail: see 3.3 |
| `rapl_rows` | six lists of components, eight processors of up to four packages, one of them with PSYS, events that count or stand still, two samples | `TypeOK`, `EventsComplete`, `RowsReadable`, `WholeRows` (exits in the headers included), `RowsInv` (inductive) |
| `rapl_time` | one processor, three samples, flushes, starts, stops and sleeps that take longer or not, a maximum time, with fairness | `NoDrift`, `EnergyExact`, `PowerRight`, `MaxTimeKept`, `WholeRows` (kills between flushes), `LittleUnmeasured`, `RaplInv` (inductive), `IsSampler` (the refinement of `Sampler`), `StepsBounded`, `RaplEnds` |
| `rapl_interval` | flushes that take longer than the interval | expected to fail: see 3.3 |
| `rapl_processor` | four Intel processors | expected to fail: see 3.3 |

Every run of `Evaluation` starts from every combination of `STORAGE_BACKEND`, `FORMAT_HDFS` and
`DELETE_HDFS`, every set of services and every storage an earlier evaluation may
have left; every run of `Monitoring` from any set of monitors an interrupted
evaluation may have left.  Every run of `Rapl` lets each call of the program
fail and a kill come at any moment.

### 3.1 Bounds, and why they are enough

`Evaluation` and `Monitoring` have no bound in their guards: the program's own
lists make them finite, and the bounds are the lengths of those lists.  Two
versions tell *changed*, *same* and *changed back* apart, which is all the
comparison can see; the frameworks of `evaluation_versions` change and change
back, those of `evaluation_inputs` keep the version.  Two cluster
sizes are enough for *another size follows* and *this is the last*; the code
asks only whether there is more than one.  Two executions have a first, a last
and, with a failure in the first, one that must not start.  Two workloads have
an earlier and a later; the inputs need three, because a redirection can go
through two donors.  In `Monitoring` only the order of the
delay, twice the delay and the latency matters: the runs have a latency of one
delay, at which the monitors are up in time, and of two, at which a stop has to
find the last of them; commands take no time, or more than a delay.

In `Rapl` a second has 16 ticks and `Span` is 256, so that an argument that
wraps is far longer than any interval.  In `rapl_time` the work of a turn
(`Work`: the stop and the start of the counters and ten flushes) and the overhead
fit in the interval and a counter does not go round in
it; the premises `Prompt` and `Capacity` hold, the refinement needs them, and
three samples have a first, one after a sample with a row and one at which the
maximum time of two seconds is up.  `rapl_rows` has readings that are zero and
counters that have gone round, but takes no other time than the sleep; two
samples are enough for a cell to be left from the one before.  `MaxEvents`
is that of the code, 16, which the processor of four packages reaches.  The assumption
`RaplAssumption` leaves out an interval whose microseconds do not fit in the
type of `usleep`'s argument, and arguments that are not numbers.  The theorems
have no bounds but `MaxSamples`, whatever its value.

### 3.2 Fairness

`EvaluationEnds` is checked under `FairSpec`: weak fairness of the shells' own
steps (a script goes on by itself), of leaving the safe mode, and of a running
workload *only if it has a timeout*, since then `timeout` kills it.  The second
is an assumption about the cluster and not about the code: `dfsadmin -safemode
wait` has no timeout, and without DataNodes the evaluation hangs.  The property
is conditional on every workload having a timeout, its own or the default one.

`RaplEnds` is checked under weak fairness of the power monitor as a whole: a
process that is not blocked goes on, and `usleep` and `fflush` return.  The kill
has no fairness, since an evaluation may be interrupted before it sends one, and
the property is conditional on a maximum time, the only end the program has of
its own.  The bound on the samples is never reached in that run: the maximum
time comes first.

### 3.3 Divergences

`etc/hdfs.sh:26` says that `FORMAT_HDFS` formats HDFS whenever there is a
single cluster size.  The driver formats in the visit of the *first* framework.
If that visit ends while it boots, nothing is formatted, and since the driver
compares versions of visits, the second framework of the same version does not
format either.  Its NameNode refuses the deleted disk, and the framework goes on
without HDFS.  `evaluation_format` finds that behaviour; `FormattedForVersion`
is the part that does hold (`formatOwed = "no"`), and `FormattedUnlessSkipped`
says that there is no other way to it: a theorem, like the three below that
delimit the other divergences.

`etc/bdev-conf.sh:42` says that `ILO_MASTER=localhost` means the master node.
The script that starts the monitors replaces the value in its own shell; the one
that stops them does not.  When `run.sh` runs on another host, the monitors on
the master are never stopped, and every later call starts more of them
(`monitoring_ilo`).  Where a host is named, or `run.sh` runs on the master, they
are stopped (`IloStoppedThere`).

`etc/bdev-conf.sh:31` says that `RAPL_SECONDS_INTERVAL` is the interval of the
samples.  When flushing the ten files, which lie in the shared directory of the
report, takes longer than the interval, the time left is negative and `usleep`
takes it as a number without sign: the next sample is more than an hour away
(`rapl_interval`).  `NoDrift`, `EnergyExact`, `PowerRight` and the refinement hold under
`Prompt`, which says that there is time left, and so does the interval
(`IntervalKeptWhenPrompt`).

`bin/rapl/rapl_plot/README:1` says that the tool works on Intel processors from
Sandy Bridge on.  Desktop Skylake and Kaby Lake processors have PSYS events, for
which there is no file, and the program ends in the middle of the headers
(`rapl_processor`).  PSYS is all it fails for (`SupportedWithoutPsys`).

Two remarks without a run.  A package that has no PP0 domain, as those of the
server processors, gets an uncore column in the headers
(`rapl_plot.c:237-244`) and no cell in the rows (`rapl_plot.c:360-368`), and a
reading of PP0 that is zero moves the cell of the next package one column to the
left.  `RowsReadable` says of the uncore what the code does, therefore: its cells
are those of the packages with a reading, and under their own columns exactly
when package 0 has one.  And the exit status of `namenode -format` is not read, so that after a
format that failed, later visits of the same version do not format either;
`FormattedForVersion` and `FormattedIfAsked` set that case apart
(`formatOwed = "failed"`).

## 4. What is proved

All the theorems hold for every list of frameworks, sizes and workloads and
every other value of the constants allowed by `EvaluationAssumption`,
`DataSizeAssumption`, `MonitoringAssumption`, `RaplAssumption` and
`ProcessorAssumption`, which give the constants their types, keep the interval
within the type of `usleep`'s argument and say how PAPI lays out the events of a
processor.  Only the theorems of `RaplRows_proofs` use the last one, and of these
only `RowsReadableHolds` needs it.  The theorems about `Campaign` and `Sampler` have their
assumptions as hypotheses.

- `ReuseSound` (`Evaluation_proofs`): a redirected workload reads a directory
  that is generated for its owner and has the size asked for.  The owner's own
  redirection has been followed, so that two donors are enough.
- `TypeCorrect` (`Evaluation_proofs`).
- `SafetyInvariant` (`EvaluationSafety_proofs`): `SafetyInv` is inductive.  It is
  - `ControlInv`: which pairs of control points there are, and where the loops
    of the driver are then;
  - `CleanInv`: nothing runs on the cluster between visits.  `CleanSlate`
    follows at once, but is not inductive without `ControlInv`;
  - `AloneInv`: an orphan has set `FINISH`, which keeps `exec` from being
    reached; that is why `WorkloadAlone` holds, and why `run_benchmark`'s callers
    may go on in the same execution without breaking it;
  - `FormatInv`: on a renewed disk, either the disk has the version of the visit
    or the visit is before its start and will format it.  The case of
    `NeedsFormat` that compares versions needs the invariant of the *previous*
    visit, hence its two disjuncts;
  - `HdfsInv`: where `start.sh` has started YARN it has started HDFS, if the disk
    is of its version;
  - `InputsInv`: without a failed generator nothing is partial, after
    `prepare.sh` nothing is absent, and on a renewed disk nothing is stale.
- `CleanSlateHolds`, `WorkloadAloneHolds`, `FormattedForVersionHolds`,
  `FormattedUnlessSkippedHolds` and `InputsReadyHolds` follow from it (the last
  with `ReuseSound`), and `DataKeptHolds`, an action property, from it and one step.
- `PromiseHolds` (`EvaluationRefinement_proofs`): `Evaluation` implements
  `Campaign`.  The refinement needs two more inductive facts: `TimesInv` (FINISH
  is set exactly by a bad result of the workload under way) and `ReportInv` (the
  last line agrees with the positions of the loops).
- `TimesAccountedHolds` (same module): every line accounts for whole executions.
  It rests on `LengthInv`, which says how many results there are at each control
  point: between executions a multiple of the calls of the workload, within one
  the whole executions before it, all of them good, and the calls made so far.
  The multiples of an unknown number of calls are the lemma `Multiples`.
- `GoodAloneHolds` (same module), from `AloneInv` and `TimesInv`.  Within an
  execution the calls do go on beside an orphan: the read test of `testdfsio`
  after a write test that timed out, or the next executable of `command`.  What
  holds is that a reader sees it: an orphan has set `FINISH`, and `FINISH` is set
  by a result that is in the line.
- `ProgressHolds` (same module), an action property: every step lowers `Left`, nine
  numbers in lexicographic order, one for each of the loops and stages that are
  nested in each other.  The difficult steps are those that end something early
  (`m_exit`, FINISH) and those that begin an inner loop again: the first component
  that changes is another one for each action, and that none below it counts is
  the point.  `NoEndlessDescent` closes the argument: the order is well founded
  (`WFLexProductOrdering` of the library), so no evaluation takes steps for ever.
  What this leaves to fairness is that the steps are taken.
- `CampaignReport` (`Campaign_proofs`), and `ReportHolds`, which carries it over
  to the evaluation through the refinement.
- `MonitoringInvariant` (`Monitoring_proofs`): `MonitoringInv` is inductive.  Its
  heart is `LateInv`: after a stop only monitors are left that are not up yet and
  were launched at least two delays ago; so with a latency of at most two delays
  there are none (`NoSurvivorHolds`), and the monitors under a command are those
  of its call (`SampledHolds`), each of them up if one delay covers the latency.
  `ClocksInv` says what the sums in the four clocks amount to
  (`TimesMeasuredHolds`).  `IloStoppedThere` is `NoSurvivorHolds` for the iLO
  monitors, with the hypothesis that the two scripts mean the same host.
- `RaplInvariant` (`Rapl_proofs`): `RaplInv` is inductive.  It is
  - `ControlOK`, the types the arithmetic needs, and `EventsInv`: the arrays are
    never full in a program that goes on;
  - `FilesInv`: how many lines were written and which files have the last one.
    `WholeRows` is part of it, but needs to know where the flushes are;
  - `TailInv`: a part of a line is left by an exit in the headers only, since a
    program that has come through them has a file for every event;
  - `ClockInv`: how far the clock has come since the last sample, from the number
    of flushes made, and that the counters were read between `before_time` and the
    end of `PAPI_start`.  With `Prompt` it shows that the argument of `usleep` does
    not wrap, so that the next sample comes a period after the last;
  - `ScheduleInv`: these steps added up, which gives `NoDriftHolds` and
    `LittleUnmeasuredHolds`: n samples leave out at most `LeftOut(n)`, one
    `PAPI_start` and n - 1 times the work of a turn.  What the second reading of
    the counters covers of `PAPI_stop` is in the time before the next row, so that
    nothing is covered twice (`measured <= now - start`).  The products of samples
    and periods are lemmas;
  - `TimeLeftInv`: the loop is only entered with time left
    (`MaxTimeKeptHolds`);
  - `EnergyExact`: a counter that is read as a number of fixed width gives the
    energy of a sample that is not longer than `NoDrift` allows and a `PAPI_stop`;
  - `PowerRight`: the time a power is taken by and the time its energy was used in
    begin in the same `PAPI_start` and end at the same `PAPI_stop`, so that each
    is at most one delay longer than the other.

  `IntervalKeptWhenPrompt` has `Prompt` as its hypothesis and follows from
  `ClockInv`.
- `RowsInvHolds` (`RaplRows_proofs`): `RowsInv`, what the rows rest on, is
  inductive beside `RaplInv`.  It is `TypeOK`; `FoundInv`, which says that the
  events are the energies among those enumerated so far; and `ReadingInv`, which
  says that the header is that of these events, that a row is made of the last
  readings, and that a package without a PP0 event has never remembered one.
  One more turn of the enumeration adds the number of the event to the end of
  `InOrder`, or leaves it as it is: `Rank` counts the numbers of a set up to one
  of them, and `InOrder` is the inverse of `Rank`, by an argument with finite
  cardinalities that takes the place of an induction over the events.
- `TypeOKHolds` and `EventsCompleteHolds` follow at once.  `RowsReadableHolds` does
  for the streams of the events.  For the uncore it needs the layout of the
  events: the energies fit in the arrays, so there are at most ten packages with
  PP0, every name of a package means one package, and the columns of the uncore
  are package 0 and package 1 in this order, or the first alone.  Then the cells
  are one for each of these that has a reading, and a case for each set of readings
  shows where they are.
- `SupportedWithoutPsys` (same module): a processor whose energies are of the four
  meters with a file (`KnownMeters`) is never unexpected.
- `StepsBoundedHolds` (same module), an action property: with a maximum time
  every step lowers `StepsLeft`, a number.  A turn of the loop has `NumFiles + 4` steps and takes a
  tick or more, because the counters run while it sleeps for what is left of
  the interval or, if nothing is left, after some time has passed anyway; hence the
  condition that the overhead is less than the interval.
- `SamplerHolds`: a prompt monitor implements `Sampler`; a row is shown by the
  flush of its file, and everything between is a stutter.  `RowsAgreeHolds` and
  `ScheduledHolds` (`Sampler_proofs`) say what a reader may conclude.

Only model-checked:

- `EvaluationEnds` and `RaplEnds`: liveness under fairness is out of the prover's
  reach.  What is proved of them is that the steps run out (`ProgressHolds` with
  `NoEndlessDescent`, and `StepsBoundedHolds`); that a step is taken as long as
  one is left is what the two runs check;
- the four properties that are expected to fail.  Each is a theorem under the
  condition that its divergence violates.

## 5. The plan

Done: `Inputs`, `Evaluation`, `Campaign`, `Monitoring`, `Rapl`, `Sampler` and their
proofs; every invariant, action property and refinement that a run finds to hold
is a theorem.  What could follow:

1. `Daemons`: pid files and the locks of the Flink, Spark and YARN daemon
   scripts, per node, with a start and a stop that fail; composed with
2. `Cleanup`: what each script kills and deletes on which nodes, and with which
   variables; to show that `CleanupProcesses` of `Evaluation` is what it does.
3. `Report`: the files of several monitors and the plots that add up their rows,
   on top of `Sampler`.

## 6. What is not modelled

- *Single daemons, pid files and history servers*: the life cycle is modelled at
  the level of services, the cleanup for the cluster as a whole.
- *Cleanup of YARN applications* (`cleanup-yarn.sh`), which reads the exit status
  of `awk` for that of `yarn`: the kill of the processes follows it in any case,
  and does not depend on it.
- *Names*: `run-framework.sh:51` counts the execution before the test of
  BDWatchdog is named after it.
- *Wording and layout* of logs, report header and plots, and the statistics of
  the plots, which are figures made after the fact.
- *Configuration*: text substitution and straight-line arithmetic of memory and
  cores, without state.
- *Host file and network*: they either succeed or end in `m_exit`, and only that
  appears (`InitBDEv`, `Boot`).
- In the power monitor, *writes that fail* (no result of `fprintf` or `fflush` is
  read), watts and the rounding of the figures, and names that do not fit their
  arrays.
- *Workloads, dool and the other vendored programs*: external; of PAPI only the
  events of a processor and the width of its counters.
- *Hadoop itself*, but for the version its NameNode accepts and its safe mode.
