----------------------------- MODULE Evaluation -----------------------------
(***************************************************************************)
(* An evaluation: what bin/run.sh does from its first line to its last.    *)
(*                                                                         *)
(* The driver (run.sh) visits every cluster size and, for each size, every *)
(* framework of the list.  Each visit runs in a child shell                *)
(* (run-framework.sh, or run-command.sh when the list of frameworks is     *)
(* empty) whose exit status nobody reads.  The child configures the        *)
(* framework, starts the Hadoop services, generates the inputs, runs the   *)
(* workloads, writes one report line per workload and stops everything.    *)
(* m_exit may end the child early, and then ends the child only.           *)
(*                                                                         *)
(* main and child are the control points of the two shells.  The driver    *)
(* waits for the child, so that only one of them moves at a time; what     *)
(* outlives them is the storage, the daemons and the applications they     *)
(* leave on the cluster, and the report.                                   *)
(***************************************************************************)
EXTENDS Inputs, FiniteSets

CONSTANTS
  ClusterSizes,    \* CLUSTER_SIZES, a sequence
  Solutions,       \* SOLUTIONS, a sequence of records of the set Framework
  Benchmarks,      \* BENCHMARKS, a sequence of names
  NumExecutions,   \* NUM_EXECUTIONS
  TimeoutOf,       \* <workload>_TIMEOUT, or Unset
  DefaultTimeout,  \* DEFAULT_TIMEOUT
  Unset,           \* the empty value of a shell variable
  CommandCalls,    \* executables found by the command workload
  Versions,        \* Hadoop versions
  Null             \* no version: LAST_HADOOP_VERSION="null", unformatted disk

Kinds == {"Hadoop-YARN", "RDMA-Hadoop-3", "Spark", "Spark-YARN",
          "Flink", "Flink-YARN"}

Framework ==
  [name : Kinds, hadoop : Versions, installed : BOOLEAN]

ASSUME EvaluationAssumption ==
  /\ ClusterSizes \in Seq(Nat)
  /\ Solutions \in Seq(Framework)
  /\ Benchmarks \in Seq(BenchmarkNames)
  /\ NumExecutions \in Nat \ {0}
  /\ CommandCalls \in Nat
  /\ DefaultTimeout \in Nat
  /\ TimeoutOf \in [BenchmarkNames -> Nat \union {Unset}]
  /\ Unset \notin Nat
  /\ Null \notin Versions

NumClusters  == Len(ClusterSizes)
NumSolutions == Len(Solutions)

\* No framework: set_no_framework.  No workload: command mode.
NoFramework == NumSolutions = 0
BenchmarkList ==
  IF NoFramework \/ Benchmarks = <<>> THEN <<"command">> ELSE Benchmarks
Executions == IF NoFramework THEN 1 ELSE NumExecutions

GenFlags == Gen(BenchmarkList)

\* SOL_BENCH_DIR of a framework, and the workloads it has a run.sh for.
Suite(f) ==
  CASE f.name \in {"Hadoop-YARN", "RDMA-Hadoop-3"} -> "Hadoop"
    [] f.name \in {"Spark", "Spark-YARN"}          -> "Spark"
    [] OTHER                                       -> "Flink"

Supported(f, b) ==
  \/ Suite(f) = "Hadoop"
  \/ b \notin {"testdfsio", "bayes"}
  \/ Suite(f) = "Spark" /\ b = "bayes"

\* Frameworks deployed without YARN (FINISH_YARN="true").
Standalone(f) == f.name \in {"Spark", "Flink"}

\* run_benchmark calls made by one execution of run.sh.
Calls(b) ==
  CASE b = "testdfsio" -> 2
    [] b = "command"   -> CommandCalls
    [] OTHER           -> 1

\* Fault: DEFAULT_TIMEOUT is not applied to a workload without a timeout.
TimeoutWithoutDefault(b) == IF TimeoutOf[b] = Unset THEN 0 ELSE TimeoutOf[b]

\* TIMEOUT once bench-env.sh has been read; 0 is no timeout.
Timeout(b) == IF TimeoutOf[b] = Unset THEN DefaultTimeout ELSE TimeoutOf[b]

-----------------------------------------------------------------------------
VARIABLES
  config,          \* STORAGE_BACKEND, FORMAT_HDFS and DELETE_HDFS
  main,            \* control point of run.sh
  cluster,         \* cluster sizes visited so far
  solution,        \* SOLUTION_NUMBER
  lastVersion,     \* LAST_HADOOP_VERSION
  currentVersion,  \* CURRENT_HADOOP_VERSION
  forceDelete,     \* FORCE_DELETE_HDFS
  forceFormat,     \* FORCE_FORMAT_HDFS
  child,           \* control point of run-framework.sh / run-command.sh
  bench,           \* position of BENCHMARK in BENCHMARKS
  exec,            \* i, the next execution
  call,            \* run_benchmark calls made by this execution
  finish,          \* FINISH="true"
  times,           \* ELAPSED_TIMES
  daemons,         \* services running on the cluster
  orphan,          \* an application outlives the client that submitted it
  storage,         \* version HDFS is formatted with, and the input dirs
  report,          \* the lines of REPORT_FILE
  formatOwed,      \* history: a requested format that was skipped, or failed
  genFailed        \* history: an input generator failed

mainVars    == <<main, cluster, solution, lastVersion, currentVersion,
                 forceDelete, forceFormat>>
loopVars    == <<bench, exec, call, finish, times>>
clusterVars == <<daemons, orphan, storage>>
historyVars == <<formatOwed, genFailed>>
vars == <<config, mainVars, child, loopVars, clusterVars, report, historyVars>>

MainStates == {"init", "loop", "child", "finished", "aborted"}
ChildStates ==
  {"none", "boot", "start", "safemode", "deploy", "configure", "prepare",
   "next", "exec", "calls", "report"}
Daemons == {"hdfs", "yarn", "standalone"}
InputStates == {"absent", "partial", "complete", "stale"}
Configs == [STORAGE_BACKEND : {"hdfs", "nfs"},
            FORMAT_HDFS : BOOLEAN, DELETE_HDFS : BOOLEAN]
Storages == [version : Versions \union {Null},
             inputs : [InputBenchmarks -> InputStates]]
Outcomes == {"OK", "FAILED", "TIMEOUT"}
StartWays == {"made", "refused", "broken", "uncopied"}
Visit == (0 .. NumClusters) \X (0 .. NumSolutions)
Line == [visit : Visit, bench : Nat, times : Seq(Outcomes)]

Hdfs == config.STORAGE_BACKEND = "hdfs"
ThisVisit == <<cluster, solution>>
ThisFramework == Solutions[solution]
ThisBenchmark == BenchmarkList[bench]

-----------------------------------------------------------------------------
(***************************************************************************)
(* Decisions of run.sh and finish.sh, and the effect of the cleanup.       *)
(***************************************************************************)
\* FORCE_DELETE_HDFS before the frameworks of a cluster size are visited.
DeleteBeforeVisits ==
  config.DELETE_HDFS \/ NumClusters > 1 \/ config.FORMAT_HDFS

\* FORCE_DELETE_HDFS in finish.sh.
DeleteAtEnd == config.DELETE_HDFS \/ NumClusters > 1

\* Fault: a change of Hadoop version is not looked at.
FormatFirstOnly(number, last, current) ==
  number = 1 /\ (config.FORMAT_HDFS \/ forceDelete)

\* Fault: a change of Hadoop version is seen where there is none.
FormatAlways(number, last, current) == TRUE

\* Fault: nothing but a change of Hadoop version is looked at.
FormatChangesOnly(number, last, current) == last # Null /\ current # last

\* FORCE_FORMAT_HDFS for the framework that is number-th in the list.
NeedsFormat(number, last, current) ==
  IF number = 1
    THEN config.FORMAT_HDFS \/ forceDelete
    ELSE NumSolutions > 1 /\ last # Null /\ current # last

\* HDFS once it is formatted for a version, or its directories are removed.
EmptyStorage(version) ==
  [version |-> version, inputs |-> [b \in InputBenchmarks |-> "absent"]]

\* data.sh on every node: the NameNode and DataNode directories go when the
\* deletion is forced and are spared ("dfs") otherwise.  It never looks at
\* the NFS mount point.
CleanupData(delete) ==
  storage' = IF Hdfs /\ delete THEN EmptyStorage(Null) ELSE storage

\* Fault: the containers of an application survive.
CleanupServices == daemons' = {} /\ UNCHANGED orphan

\* cleanup-yarn.sh and cleanup-process.sh on every node of the host file.
CleanupProcesses ==
  /\ daemons' = {}
  /\ orphan'  = FALSE

\* The child shell is launched; its variables start afresh.
LaunchChild ==
  /\ main' = "child" /\ child' = "boot"
  /\ bench' = 0 /\ exec' = 1 /\ call' = 0 /\ finish' = FALSE /\ times' = <<>>

\* m_exit in the driver.
Exit ==
  /\ main' = "aborted"
  /\ CleanupProcesses

\* Fault: the visit is begun again.
ExitChildRetries ==
  /\ main'  = main
  /\ child' = "boot"
  /\ CleanupProcesses

\* m_exit in the child: the driver goes on with the next visit.
ExitChild ==
  /\ main'  = "loop"
  /\ child' = "none"
  /\ CleanupProcesses

-----------------------------------------------------------------------------
(***************************************************************************)
(* The driver, bin/run.sh.                                                 *)
(***************************************************************************)
\* What earlier evaluations left: services, an HDFS of some version, inputs
\* of some other size.  Without a format HDFS holds nothing.
Init ==
  /\ config \in Configs
  /\ main = "init" /\ child = "none"
  /\ cluster = 0 /\ solution = NumSolutions
  /\ lastVersion = Null /\ currentVersion = Null
  /\ forceDelete = FALSE /\ forceFormat = FALSE
  /\ bench = 0 /\ exec = 1 /\ call = 0 /\ finish = FALSE /\ times = <<>>
  /\ daemons \in SUBSET Daemons
  /\ orphan \in BOOLEAN
  /\ \E version \in Versions \union {Null}, left \in SUBSET GenFlags :
       /\ Hdfs /\ version = Null => left = {}
       /\ storage = [version |-> version,
                     inputs  |-> [b \in InputBenchmarks |->
                                    IF b \in left THEN "stale" ELSE "absent"]]
  /\ report = <<>>
  /\ formatOwed = "no" /\ genFailed = FALSE

\* init.sh: read the host file, end the processes of earlier evaluations and
\* begin the report.  Without a host file m_exit has no node to clean.
InitBDEv ==
  /\ main = "init"
  /\ \/ /\ main' = "loop"
        /\ CleanupProcesses
        /\ report' = <<>>
     \/ /\ main' = "aborted"
        /\ UNCHANGED <<daemons, orphan, report>>
  /\ UNCHANGED <<config, cluster, solution, lastVersion, currentVersion,
                 forceDelete, forceFormat, child, loopVars, storage,
                 historyVars>>

\* The next cluster size.  Without frameworks, run-command.sh is launched.
NextCluster ==
  /\ main = "loop" /\ solution = NumSolutions /\ cluster < NumClusters
  /\ cluster' = cluster + 1
  /\ IF NoFramework
       THEN /\ LaunchChild
            /\ UNCHANGED <<solution, forceDelete, storage, formatOwed, genFailed>>
       ELSE /\ solution' = 0
            /\ forceDelete' = DeleteBeforeVisits
            /\ CleanupData(forceDelete')
            /\ formatOwed' = "no"
            /\ genFailed' = (genFailed /\ ~(Hdfs /\ forceDelete'))
            /\ UNCHANGED <<main, child, loopVars>>
  /\ UNCHANGED <<config, lastVersion, currentVersion, forceFormat,
                 daemons, orphan, report>>

\* LAST_HADOOP_VERSION in set_framework.
LastVersion(number) ==
  IF NumSolutions > 1
    THEN IF number > 1 THEN currentVersion ELSE Null
    ELSE lastVersion

\* The next framework of the list: set_framework, then the child is launched.
\* A framework that is not installed ends the evaluation.
NextSolution ==
  /\ main = "loop" /\ solution < NumSolutions
  /\ solution' = solution + 1
  /\ IF Solutions[solution'].installed
       THEN /\ lastVersion' = LastVersion(solution')
            /\ currentVersion' = Solutions[solution'].hadoop
            /\ forceFormat' = NeedsFormat(solution', lastVersion', currentVersion')
            /\ LaunchChild
            /\ UNCHANGED <<daemons, orphan>>
       ELSE /\ Exit
            /\ UNCHANGED <<lastVersion, currentVersion, forceFormat, child,
                           loopVars>>
  /\ UNCHANGED <<config, cluster, forceDelete, storage, report, historyVars>>

\* finish.sh: the last cleanup of the data.
FinishBDEv ==
  /\ main = "loop" /\ solution = NumSolutions /\ cluster = NumClusters
  /\ main' = "finished"
  /\ forceDelete' = DeleteAtEnd
  /\ CleanupData(forceDelete')
  /\ UNCHANGED <<config, cluster, solution, lastVersion, currentVersion,
                 forceFormat, child, loopVars, daemons, orphan, report,
                 historyVars>>

-----------------------------------------------------------------------------
(***************************************************************************)
(* A visit, bin/run-framework.sh.  Without frameworks, bin/run-command.sh: *)
(* no service is started or stopped and the command is run once.           *)
(***************************************************************************)
\* configure_network, conf-params.sh, env.sh, init-framework.sh and the
\* common configure.sh may call m_exit; without frameworks none of them does.
Boot ==
  /\ child = "boot"
  /\ \/ /\ child' = IF NoFramework THEN "next" ELSE "start"
        /\ UNCHANGED <<main, daemons, orphan, formatOwed>>
     \/ /\ ~NoFramework
        /\ ExitChild
        /\ formatOwed' = IF Hdfs /\ forceFormat THEN "skipped" ELSE formatOwed
  /\ UNCHANGED <<config, cluster, solution, lastVersion, currentVersion,
                 forceDelete, forceFormat, loopVars, storage, report,
                 genFailed>>

\* A NameNode serves a disk that is formatted by its own version.
NameNodeAccepts(disk) == disk.version = currentVersion

Formats == Hdfs /\ forceFormat

\* The disk after namenode -format, which may be refused, or fail once the
\* directory is cleared.
Formatted(way) ==
  CASE way = "made"   -> EmptyStorage(currentVersion)
    [] way = "broken" -> EmptyStorage(Null)
    [] OTHER          -> storage

\* What is owed of a format after that.
Owed(way) ==
  CASE way = "made" -> "no" [] way = "uncopied" -> "skipped" [] OTHER -> "failed"

\* start_hadoop_yarn.sh: HDFS is formatted if that was asked for, then HDFS and
\* YARN are started, whatever became of the format.  When the scheduler files
\* cannot be copied it exits and starts nothing.  No exit status is read.
Start(way) ==
  /\ child = "start"
  /\ way \in {"refused", "broken"} => Formats
  /\ storage' = IF Formats THEN Formatted(way) ELSE storage
  /\ daemons' = IF way = "uncopied" THEN {}
                ELSE {"yarn"} \union
                     (IF Hdfs /\ NameNodeAccepts(storage') THEN {"hdfs"} ELSE {})
  /\ child' = IF "hdfs" \in daemons' THEN "safemode" ELSE "deploy"
  /\ formatOwed' = IF Formats THEN Owed(way) ELSE formatOwed
  /\ genFailed' = (genFailed /\ ~(Formats /\ way \in {"made", "broken"}))
  /\ UNCHANGED <<config, mainVars, loopVars, orphan, report>>

\* dfsadmin -safemode wait: returns when enough DataNodes have reported.
LeaveSafeMode ==
  /\ child = "safemode"
  /\ child' = "deploy"
  /\ UNCHANGED <<config, mainVars, loopVars, clusterVars, report, historyVars>>

\* The rest of start.sh: the services of a standalone framework are started, or
\* a Flink session is opened on YARN.  Flink's jars or session may m_exit.
Deploy ==
  /\ child = "deploy"
  /\ \/ /\ ThisFramework.name = "Flink-YARN" => "yarn" \in daemons
        /\ child' = "configure"
        /\ daemons' = IF Standalone(ThisFramework)
                        THEN daemons \union {"standalone"} ELSE daemons
        /\ UNCHANGED <<main, orphan>>
     \/ /\ Suite(ThisFramework) = "Flink"
        /\ ExitChild
  /\ UNCHANGED <<config, cluster, solution, lastVersion, currentVersion,
                 forceDelete, forceFormat, loopVars, storage, report,
                 formatOwed, genFailed>>

\* configure.sh of the suite: jars are downloaded, or m_exit.
Configure ==
  /\ child = "configure"
  /\ \/ /\ child' = "prepare"
        /\ UNCHANGED <<main, daemons, orphan>>
     \/ ExitChild
  /\ UNCHANGED <<config, cluster, solution, lastVersion, currentVersion,
                 forceDelete, forceFormat, loopVars, storage, report,
                 formatOwed, genFailed>>

\* storage_dir_exists for the inputs: without HDFS none is seen.
Reachable == Hdfs => "hdfs" \in daemons
Existing ==
  IF Reachable THEN {b \in InputBenchmarks : storage.inputs[b] # "absent"} ELSE {}

\* Fault: YARN keeps running under a standalone framework.
KeepYarn(f) == daemons

\* The services left by prepare.sh: YARN was only needed by the generators.
AfterPrepare(f) == IF Standalone(f) THEN daemons \ {"yarn"} ELSE daemons

\* prepare.sh of all workloads and of the suite.  A generator that fails
\* leaves a part of its output, or nothing; its exit status is not read.
Prepare ==
  /\ child = "prepare"
  /\ LET missing == ToGenerate(GenFlags, Existing)
         able    == Reachable /\ "yarn" \in daemons
     IN  \E made \in [missing -> IF able THEN {"complete", "partial", "absent"}
                                         ELSE {"absent"}] :
           /\ storage' = [storage EXCEPT !.inputs =
                            [b \in InputBenchmarks |->
                               IF b \in missing /\ Reachable
                                 THEN made[b] ELSE storage.inputs[b]]]
           /\ genFailed' = (genFailed \/ \E b \in missing : made[b] # "complete")
  /\ daemons' = AfterPrepare(ThisFramework)
  /\ child' = "next"
  /\ UNCHANGED <<config, mainVars, loopVars, orphan, report, formatOwed>>

\* Fault: FINISH does not end the loop over the workloads.
AlwaysContinue == TRUE

\* FINISH is not set, or is not looked at (run-command.sh).
Continue == ~finish

\* The loop over the workloads.
NextBenchmark ==
  /\ child = "next" /\ Continue /\ bench < Len(BenchmarkList)
  /\ bench' = bench + 1
  /\ exec' = 1
  /\ times' = <<>>
  /\ child' = "exec"
  /\ UNCHANGED <<config, mainVars, call, finish, clusterVars, report, historyVars>>

\* Fault: one execution too many.
MoreExecutionsOffByOne == exec <= Executions + 1

\* The condition of the loop over the executions.
MoreExecutions == exec <= Executions

\* The loop over the executions; i is incremented before run.sh is read.  A
\* workload without run.sh ends the loop.
NextExecution ==
  /\ child = "exec" /\ MoreExecutions
  /\ exec' = exec + 1
  /\ call' = 0
  /\ child' = IF NoFramework \/ Supported(ThisFramework, ThisBenchmark)
                THEN "calls" ELSE "report"
  /\ UNCHANGED <<config, mainVars, bench, finish, times, clusterVars, report,
                 historyVars>>

\* Fault: a timeout is not taken for a failure.
FinishesIfFailed(outcome) == finish \/ outcome = "FAILED"

\* FINISH in save_elapsed_time.
Finishes(outcome) == finish \/ outcome \in {"FAILED", "TIMEOUT"}

\* Fault: a result takes the place of those before it.
LatestOnly(results, outcome) == <<outcome>>

\* ELAPSED_TIMES in save_elapsed_time.
Saved(results, outcome) == Append(results, outcome)

\* run_benchmark.  When the client fails or is killed, the application that it
\* submitted, to YARN or to a standalone master, may go on.
RunBenchmark(outcome) ==
  /\ child = "calls"
  /\ call < Calls(ThisBenchmark)
  /\ outcome = "TIMEOUT" => Timeout(ThisBenchmark) > 0
  /\ call' = call + 1
  /\ times' = Saved(times, outcome)
  /\ finish' = Finishes(outcome)
  /\ orphan' \in IF outcome # "OK" /\ daemons \cap {"yarn", "standalone"} # {}
                THEN BOOLEAN ELSE {orphan}
  /\ UNCHANGED <<config, mainVars, child, bench, exec, daemons, storage, report,
                 historyVars>>

\* The end of run.sh: FINISH ends the executions.
EndExecution ==
  /\ child = "calls"
  /\ call = Calls(ThisBenchmark)
  /\ child' = IF Continue THEN "exec" ELSE "report"
  /\ UNCHANGED <<config, mainVars, loopVars, clusterVars, report, historyVars>>

\* The end of the executions.
EndExecutions ==
  /\ child = "exec" /\ ~MoreExecutions
  /\ child' = "report"
  /\ UNCHANGED <<config, mainVars, loopVars, clusterVars, report, historyVars>>

\* write_report: one line for the workload.
WriteReport ==
  /\ child = "report"
  /\ report' = Append(report, [visit |-> ThisVisit, bench |-> bench, times |-> times])
  /\ child' = "next"
  /\ UNCHANGED <<config, mainVars, loopVars, clusterVars, historyVars>>

\* cleanup_phase and finish.sh: every service is stopped and the processes
\* left on the nodes are killed.  run-command.sh stops nothing.
FinishChild ==
  /\ child = "next" /\ (~Continue \/ bench = Len(BenchmarkList))
  /\ main' = "loop" /\ child' = "none"
  /\ IF NoFramework THEN UNCHANGED <<daemons, orphan>> ELSE CleanupProcesses
  /\ UNCHANGED <<config, cluster, solution, lastVersion, currentVersion,
                 forceDelete, forceFormat, loopVars, storage, report,
                 historyVars>>

-----------------------------------------------------------------------------
Driver == InitBDEv \/ NextCluster \/ NextSolution \/ FinishBDEv

\* The steps of the child that end by themselves.
Child ==
  \/ Boot \/ (\E way \in StartWays : Start(way)) \/ Deploy
  \/ Configure \/ Prepare \/ NextBenchmark \/ NextExecution \/ EndExecution
  \/ EndExecutions \/ WriteReport \/ FinishChild

\* The steps that wait for the cluster.
Workload == \E outcome \in Outcomes : RunBenchmark(outcome)

Done == main \in {"finished", "aborted"}

\* The driver stops when it is done.
Terminated == Done /\ UNCHANGED vars

Next == Driver \/ Child \/ LeaveSafeMode \/ Workload \/ Terminated

Spec == Init /\ [][Next]_vars

\* The shells go on by themselves.  HDFS leaves its safe mode once the
\* DataNodes have reported.  A workload ends for sure only if it has a timeout.
Fairness ==
  /\ WF_vars(Driver \/ Child)
  /\ WF_vars(LeaveSafeMode)
  /\ WF_vars(child = "calls" /\ Timeout(ThisBenchmark) > 0 /\ Workload)

FairSpec == Spec /\ Fairness

-----------------------------------------------------------------------------
(***************************************************************************)
(* Properties.                                                             *)
(***************************************************************************)
DriverTypeOK ==
  /\ config \in Configs /\ main \in MainStates
  /\ cluster \in 0 .. NumClusters /\ solution \in 0 .. NumSolutions
  /\ lastVersion \in Versions \union {Null}
  /\ currentVersion \in Versions \union {Null}
  /\ forceDelete \in BOOLEAN /\ forceFormat \in BOOLEAN

ChildTypeOK ==
  /\ child \in ChildStates
  /\ bench \in 0 .. Len(BenchmarkList) /\ exec \in 1 .. Executions + 1
  /\ call \in Nat
  /\ finish \in BOOLEAN
  /\ times \in Seq(Outcomes)

ClusterTypeOK ==
  /\ daemons \in SUBSET Daemons /\ orphan \in BOOLEAN
  /\ storage \in Storages

HistoryTypeOK ==
  /\ report \in Seq(Line)
  /\ formatOwed \in {"no", "skipped", "failed"} /\ genFailed \in BOOLEAN

\* Every variable keeps the type the scripts give it.
TypeOK == DriverTypeOK /\ ChildTypeOK /\ ClusterTypeOK /\ HistoryTypeOK

\* The evaluation starts from an empty storage (FORMAT_HDFS, DELETE_HDFS or
\* several cluster sizes).
Renewed == config.FORMAT_HDFS \/ config.DELETE_HDFS \/ NumClusters > 1

OneVersion ==
  \A k, l \in 1 .. NumSolutions : Solutions[k].hadoop = Solutions[l].hadoop

\* The driver launches a framework, and the framework its services, on a
\* cluster where nothing of an earlier visit or evaluation runs, however the
\* earlier visit ended: finish.sh and m_exit both clean up.
CleanSlate ==
  main = "loop" \/ child \in {"boot", "start"} => daemons = {} /\ ~orphan

\* An execution never starts beside an application that an earlier client left
\* behind, because FINISH ends both loops, nor beside a YARN that a standalone
\* framework only needed to generate its inputs.
WorkloadAlone ==
  child = "exec" =>
    /\ ~orphan
    /\ ~NoFramework /\ Standalone(ThisFramework) => "yarn" \notin daemons

\* A call may run beside what an earlier call of its execution has left: the read
\* test of testdfsio after its write test, the executables of command.  Then the
\* line of the workload does not pass for a good one: the earlier result is in it.
GoodAlone ==
  child \in {"calls", "report"} /\ orphan =>
    \E k \in DOMAIN times : times[k] # "OK"

\* When start.sh is reached, the disk is formatted for this version of Hadoop or
\* is about to be, provided every format run.sh decided on was carried out: it
\* compares with the version of the previous visit, not with the disk.
FormattedForVersion ==
  child = "start" /\ Hdfs /\ Renewed /\ formatOwed = "no" =>
    forceFormat \/ storage.version = currentVersion

\* etc/hdfs.sh: FORMAT_HDFS formats HDFS when there is one cluster size, so a
\* framework whose services were started finds HDFS up, unless a format failed.
FormattedIfAsked ==
  child = "configure" /\ Hdfs /\ config.FORMAT_HDFS /\ NumClusters = 1
    /\ "yarn" \in daemons /\ formatOwed # "failed"
      => "hdfs" \in daemons

\* What holds of that: a format that is not done and has not failed was skipped, by
\* a visit that ended before its start or by a start that could not copy the
\* scheduler files, in this visit or an earlier one.
FormattedUnlessSkipped == formatOwed # "skipped" => FormattedIfAsked

\* A running workload finds its whole input, of the size asked for and made by
\* this evaluation (or, when the storage is kept, by an earlier one), wherever
\* prepare.sh redirected it, as long as no generator has failed.
InputsReady ==
  child = "calls" /\ ~genFailed /\ ThisBenchmark \in GenFlags =>
    LET input == InputDir(GenFlags, ThisBenchmark)
    IN  /\ DataSize[input] = DataSize[ThisBenchmark]
        /\ \/ storage.inputs[input] = "complete"
           \/ storage.inputs[input] = "stale" /\ ~(Hdfs /\ Renewed)

\* One cluster size, neither FORMAT_HDFS nor DELETE_HDFS, and a single version
\* of Hadoop: nothing that is stored is ever formatted, deleted or generated
\* again, by whatever visit and however it ends.
DataKept ==
  [][~Renewed /\ OneVersion
       => /\ storage'.version = storage.version
          /\ \A b \in InputBenchmarks :
               storage.inputs[b] # "absent" => storage'.inputs[b] = storage.inputs[b]]_vars

\* The framework of a line has a run.sh for its workload.
Runs(line) ==
  NoFramework \/ Supported(Solutions[line.visit[2]], BenchmarkList[line.bench])

\* The results in a line are those of whole executions: of all of them when none
\* failed, and otherwise of the ones up to the first with a failure.  The calls
\* left of that execution are still made.
WholeExecutions(line) ==
  LET calls  == Calls(BenchmarkList[line.bench])
      failed == {k \in DOMAIN line.times : line.times[k] # "OK"}
  IN  IF failed = {}
        THEN Len(line.times) \in {0, Executions * calls}
        ELSE \E e \in 1 .. Executions :
               /\ Len(line.times) = e * calls
               /\ \A k \in failed : k > (e - 1) * calls

LineAccounted(line) ==
  /\ WholeExecutions(line)
  /\ line.times = <<>> <=>
       Calls(BenchmarkList[line.bench]) = 0 \/ ~Runs(line)

\* Every line of the report accounts for whole executions, and is empty only for
\* a workload that the framework does not support (or that calls nothing).
TimesAccounted == \A n \in DOMAIN report : LineAccounted(report[n])

\* What is left of the evaluation: of run.sh, of its loops over the cluster sizes
\* and the frameworks, of the visit, of the stages before its workloads, and of
\* the loops over the workloads, the executions and the calls.
MainLeft ==
  CASE main = "init" -> 2 [] main \in {"loop", "child"} -> 1 [] OTHER -> 0

StagesLeft ==
  CASE child = "boot"      -> 6 [] child = "start"   -> 5 [] child = "safemode" -> 4
    [] child = "deploy"    -> 3 [] child = "configure" -> 2 [] child = "prepare" -> 1
    [] OTHER               -> 0

LineLeft ==
  CASE child \in {"exec", "calls"} -> 2 [] child = "report" -> 1 [] OTHER -> 0

Left ==
  << MainLeft,
     NumClusters - cluster,
     NumSolutions - solution,
     IF main = "child" THEN 1 ELSE 0,
     StagesLeft,
     Len(BenchmarkList) - bench,
     LineLeft,
     Executions + 1 - exec,
     IF child = "calls" THEN Calls(ThisBenchmark) - call + 1 ELSE 0 >>

Measures == [1 .. 9 -> Nat]

\* The lexicographic order: the first component that changes gets smaller.
Lower(old, new) ==
  \E k \in 1 .. 9 : new[k] < old[k] /\ \A j \in 1 .. k - 1 : new[j] = old[j]

\* No loop of the scripts goes round without end: every step leaves less to do
\* than before, whatever fails, so that an evaluation that does not end is one
\* that waits for the cluster.
Progress == [][Lower(Left, Left') /\ {Left, Left'} \subseteq Measures]_vars

\* With a timeout for every workload the evaluation ends, whatever fails.
EvaluationEnds ==
  (\A k \in DOMAIN BenchmarkList :
      LET t == TimeoutOf[BenchmarkList[k]]
      IN  IF t = Unset THEN DefaultTimeout > 0 ELSE t > 0)
    => <>[]Done

-----------------------------------------------------------------------------
(***************************************************************************)
(* The inductive invariant behind the safety properties.                   *)
(***************************************************************************)
Running == main \in {"loop", "child"}

\* Where the two shells can be together, and where the loops of run.sh are.
ControlInv ==
  /\ main = "child" <=> child # "none"
  /\ NoFramework => child \in {"none", "boot", "next", "exec", "calls", "report"}
  /\ main = "init" => cluster = 0
  /\ cluster = 0 => solution = NumSolutions
  /\ main = "child" => cluster > 0 /\ (NoFramework \/ solution > 0)

\* Nothing runs on the cluster between two visits; with no framework, ever.
CleanInv ==
  \/ main = "loop" \/ child \in {"boot", "start"} \/ (NoFramework /\ Running)
    => daemons = {} /\ ~orphan

\* An application that outlives its client has set FINISH; once the inputs are
\* there, YARN is gone from under a standalone framework.
AloneInv ==
  /\ main = "child" /\ orphan => finish
  /\ child = "exec" => ~finish
  /\ child \in {"next", "exec", "calls", "report"} /\ ~NoFramework
       => (Standalone(ThisFramework) => "yarn" \notin daemons)

\* FORCE_DELETE_HDFS is what run.sh computed, and the disk has the version of
\* the visit that is over, or under way and past its start.  A storage that is to
\* be kept is not formatted.
FormatInv ==
  ~NoFramework =>
    /\ Running /\ cluster > 0 => (forceDelete <=> Renewed)
    /\ Running /\ cluster > 0 /\ solution > 0 =>
         currentVersion = Solutions[solution].hadoop
    /\ child \in {"boot", "start"} /\ ~Renewed /\ OneVersion => ~forceFormat
    /\ Hdfs /\ Renewed /\ formatOwed = "no" /\ Running /\ cluster > 0 /\ solution > 0 =>
         \/ storage.version = currentVersion
         \/ child \in {"boot", "start"} /\ forceFormat

\* Where start.sh has started YARN it has started HDFS, if the disk is of its version.
HdfsInv ==
  child \in {"safemode", "deploy", "configure"} /\ Hdfs /\ "yarn" \in daemons
    /\ NameNodeAccepts(storage)
      => "hdfs" \in daemons

\* While no generator fails no input is partial; on a renewed HDFS none is left
\* from before; and after prepare.sh none is missing.
InputsInv ==
  ~NoFramework /\ ~genFailed =>
    /\ \A b \in InputBenchmarks : storage.inputs[b] # "partial"
    /\ Hdfs /\ Renewed /\ cluster > 0 =>
         \A b \in InputBenchmarks : storage.inputs[b] # "stale"
    /\ child \in {"next", "exec", "calls", "report"} =>
         \A b \in GenFlags : Donor(GenFlags, b) = b => storage.inputs[b] # "absent"

SafetyInv ==
  /\ TypeOK /\ ControlInv /\ CleanInv /\ AloneInv /\ FormatInv /\ HdfsInv
  /\ InputsInv

-----------------------------------------------------------------------------
(***************************************************************************)
(* What an evaluation promises to the reader of the report.                *)
(***************************************************************************)
\* Visits launched so far.  An uninstalled framework is counted, not launched.
Launched ==
  IF NoFramework \/ cluster = 0
    THEN cluster
    ELSE (cluster - 1) * NumSolutions + solution - (IF main = "aborted" THEN 1 ELSE 0)

NumVisits == NumClusters * (IF NoFramework THEN 1 ELSE NumSolutions)

Result(line) ==
  IF \E k \in DOMAIN line.times : line.times[k] # "OK" THEN "bad" ELSE "good"

Number(visit) ==
  IF NoFramework THEN visit[1] ELSE (visit[1] - 1) * NumSolutions + visit[2]

\* A line, and a report, as the reader sees them.
Entry(line) ==
  [visit |-> Number(line.visit), bench |-> line.bench, result |-> Result(line)]

Seen(lines) == [n \in DOMAIN lines |-> Entry(lines[n])]

\* How the evaluation ended.
Over == CASE main = "finished" -> "complete"
          [] main = "aborted"  -> "given up"
          [] OTHER             -> "no"

Promise == INSTANCE Campaign WITH
  Visits <- NumVisits, Workloads <- Len(BenchmarkList),
  visit <- Launched, over <- Over, log <- Seen(report)

\* While a workload is measured its line is not written yet.
Measuring == child \in {"exec", "calls", "report"}

\* FINISH is set by the results of this workload and of no other.
TimesInv ==
  /\ child \in {"boot", "start", "safemode", "deploy", "configure", "prepare"}
       => bench = 0 /\ ~finish
  /\ Measuring => bench > 0
  /\ child = "exec" => \A k \in DOMAIN times : times[k] = "OK"
  /\ child \in {"calls", "report"} =>
       (finish <=> \E k \in DOMAIN times : times[k] # "OK")

\* The line that would be written now.
ThisLine == [visit |-> ThisVisit, bench |-> bench, times |-> times]

\* How many results there are where, and which of them are good.
LengthInv ==
  LET calls == Calls(ThisBenchmark)
      whole == (exec - 2) * calls
  IN  /\ child = "exec" =>
           /\ Len(times) = (exec - 1) * calls
           /\ exec > 1 => Runs(ThisLine)
      /\ child = "calls" =>
           /\ exec > 1 /\ call <= calls /\ Runs(ThisLine)
           /\ Len(times) = whole + call
           /\ \A k \in 1 .. whole : times[k] = "OK"
      /\ child = "report" => LineAccounted(ThisLine)

\* The report agrees with the positions of the two loops and with FINISH.
ReportInv ==
  /\ main = "init" => report = <<>>
  /\ report # <<>> => Promise!Last.visit <= Launched
  /\ main = "child" =>
       /\ Promise!Reported = (IF Measuring THEN bench - 1 ELSE bench)
       /\ Promise!Failed <=> finish /\ ~Measuring
  /\ main # "child" => Promise!Settled

\* The report is the one Campaign promises.
PromiseKept == Promise!Spec

\* The lines that write_report leaves, read on their own: every visit names its
\* workloads from the first on and is left after a failure or the last of them.
ReportWellFormed == Promise!WellFormed

=============================================================================
