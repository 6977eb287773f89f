----------------------------- MODULE Monitoring -----------------------------
(***************************************************************************)
(* The measurement of a workload: start_benchmark, the command and         *)
(* end_benchmark (bin/functions.sh), and the monitors they start and stop  *)
(* on the nodes (bin/stat, rapl, oprofile, ilo, bdwatchdog).               *)
(*                                                                         *)
(* start_benchmark starts the monitors of dool, RAPL, Oprofile and iLO by  *)
(* an ssh in the background and goes on at once: a monitor is launched     *)
(* first and comes up later.  A kill only finds a monitor that is up.      *)
(* Nothing waits for a monitor but the delay of MONITOR_DELAY_SECONDS that *)
(* start_benchmark makes after starting them and end_benchmark before      *)
(* stopping them.                                                          *)
(*                                                                         *)
(* Time passes in the delays and in the workload.  Latency bounds how long *)
(* a launched monitor takes to come up: what the delay is there to cover.  *)
(***************************************************************************)
EXTENDS Naturals, Sequences

CONSTANTS
  Hosts,           \* names of hosts
  Targets,         \* MASTERNODE and SLAVENODES, as the loops visit them
  LocalHost,       \* where run.sh runs
  ILO_MASTER,      \* "localhost", or the host that reaches the iLO interfaces
  Enabled,         \* monitors with ENABLE_<tool>=true, daemons with their switch
  ENABLE_BDWATCHDOG,   \* which the daemons need besides
  MonitorDelay,    \* MONITOR_DELAY_SECONDS
  Latency,         \* a monitor is up that long after its launch
  Durations,       \* how long a command may take
  Codes,           \* exit codes of a command
  TIMEOUT,         \* TIMEOUT of the workload, 0 for none
  Calls,           \* run_benchmark calls of one execution
  NumExecutions    \* NUM_EXECUTIONS

\* BDWatchdog has three daemons, each with a switch of its own.
Daemons == {"atop", "turbostat", "nethogs"}
Tools   == {"ilo", "stat", "rapl", "oprofile"} \union Daemons

MasterNode == Targets[1]
Nodes == {Targets[k] : k \in DOMAIN Targets}

ASSUME MonitoringAssumption ==
  /\ Targets \in Seq(Hosts) /\ Targets # <<>>
  /\ LocalHost \in Hosts
  /\ ILO_MASTER \in Hosts \union {"localhost"} /\ "localhost" \notin Hosts
  /\ Enabled \subseteq Tools /\ ENABLE_BDWATCHDOG \in BOOLEAN
  /\ Enabled \cap Daemons # {} => ENABLE_BDWATCHDOG
  /\ MonitorDelay \in Nat /\ Latency \in Nat
  /\ Durations \subseteq Nat /\ Codes \subseteq Nat
  /\ TIMEOUT \in Nat /\ Calls \in Nat /\ NumExecutions \in Nat \ {0}

VARIABLES
  pc,          \* "init", "idle" between calls, "timed" during the command
  exec,        \* the execution under way
  call,        \* calls made in this execution
  monitors,    \* monitors launched and not killed
  now,         \* the clock
  startTotal, start, end, endTotal,    \* START_TOTAL_TIME ... END_TOTAL_TIME
  times,       \* ELAPSED_TIME and ELAPSED_TOTAL_TIME of every call
  spent        \* history: time taken by the commands of this execution

clocks == <<startTotal, start, end, endTotal>>
vars == <<pc, exec, call, monitors, now, clocks, times, spent>>

\* number is 0 for a monitor that an earlier evaluation left.
Monitor == [tool : Tools, host : Hosts, node : DOMAIN Targets, number : Nat,
            since : Nat, state : {"launched", "up"}]
Results == {"OK", "FAILED", "TIMEOUT"}
Time == [result : Results, elapsed : Nat, total : Nat]

\* Runs of run_benchmark so far, the current one included.
Number == Len(times) + 1

-----------------------------------------------------------------------------
\* start_ilo_monitor.sh replaces "localhost", in its own shell.
IloStartHost == IF ILO_MASTER = "localhost" THEN MasterNode ELSE ILO_MASTER

\* stop_ilo_monitor.sh reads the variable as it was configured.
IloStopHost == IF ILO_MASTER = "localhost" THEN LocalHost ELSE ILO_MASTER

\* Every iLO monitor runs on one host and reads the interface of one node.
HostOf(tool, k) == IF tool = "ilo" THEN IloStartHost ELSE Targets[k]

\* The hosts where a tool is looked for to be stopped.
StopHosts(tool) == IF tool = "ilo" THEN {IloStopHost} ELSE Nodes

\* The monitor of a tool for the k-th target.
MonitorOf(t, k, number, since, state) ==
  [tool |-> t, host |-> HostOf(t, k), node |-> k,
   number |-> number, since |-> since, state |-> state]

\* The monitors that start_benchmark launches.  The daemons of BDWatchdog are
\* started in the foreground.
Launch ==
  {MonitorOf(t, k, Number, now, IF t \in Daemons THEN "up" ELSE "launched") :
     t \in Enabled, k \in DOMAIN Targets}

\* Fault: the monitors are started without a delay.
NoWait == 0

\* WAIT_SECONDS, which BDWatchdog sets with all its daemons off, too.
Wait == IF Enabled = {} /\ ~ENABLE_BDWATCHDOG THEN 0 ELSE MonitorDelay

\* Fault: the time of the command starts with its monitors.
StartedWithMonitors == now

\* When the time of a command starts, given the call starts now.
Started == now + Wait

\* A launched monitor may come up at any moment, and is up after Latency.
Overdue(m, t) == t >= m.since + Latency
IsUp(m) == m.state = "up"
Up(m) == [m EXCEPT !.state = "up"]
AtTime(t, launched) ==
  {{IF m \in late THEN m ELSE Up(m) : m \in launched} :
     late \in SUBSET {m \in launched : ~IsUp(m) /\ ~Overdue(m, t)}}

\* Fault: the monitors are stopped on the slaves only.
FindsOnSlaves(m) ==
  IsUp(m) /\ m.tool \in Enabled /\ m.host \in StopHosts(m.tool) \ {MasterNode}

\* What the stop scripts find.  A monitor that is not up yet is missed.
Finds(m) == IsUp(m) /\ m.tool \in Enabled /\ m.host \in StopHosts(m.tool)

\* ELAPSED_TIME in end_benchmark.
Result(code) ==
  CASE TIMEOUT > 0 /\ code = 124 -> "TIMEOUT"
    [] code # 0 /\ ~(TIMEOUT > 0 /\ code = 124) -> "FAILED"
    [] OTHER -> "OK"

\* FINISH in save_elapsed_time.
Finish == \E k \in DOMAIN times : times[k].result # "OK"

-----------------------------------------------------------------------------
\* Monitors that an interrupted evaluation left run on every host.
Init ==
  /\ pc = "init" /\ exec = 1 /\ call = 0 /\ now = 0
  /\ startTotal = 0 /\ start = 0 /\ end = 0 /\ endTotal = 0
  /\ times = <<>> /\ spent = 0
  /\ \E tools \in SUBSET Tools :
       monitors = {MonitorOf(t, k, 0, 0, "up") : t \in tools, k \in DOMAIN Targets}

\* Process cleanup of init.sh.  cleanup-process.sh passes neither ENABLE_RAPL
\* nor ENABLE_OPROFILE to the nodes: only dool is killed.
Cleanup ==
  /\ pc = "init"
  /\ pc' = "idle"
  /\ monitors' = {m \in monitors : m.tool # "stat" \/ m.host \notin Nodes}
  /\ UNCHANGED <<exec, call, now, clocks, times, spent>>

\* start_benchmark, with its delay.
StartBenchmark ==
  /\ pc = "idle" /\ call < Calls
  /\ pc' = "timed"
  /\ startTotal' = startTotal + now
  /\ now' = now + Wait
  /\ monitors' \in AtTime(now', monitors \union Launch)
  /\ start' = start + Started
  /\ UNCHANGED <<exec, call, end, endTotal, times, spent>>

\* The command ends after d with an exit code and end_benchmark follows.
EndBenchmark(d, code) ==
  /\ pc = "timed"
  /\ TIMEOUT > 0 => d <= TIMEOUT
  /\ end' = end + now + d
  /\ now' = now + d + Wait
  /\ \E found \in AtTime(now', monitors) :
       monitors' = {m \in found : ~Finds(m)}
  /\ endTotal' = endTotal + now'
  /\ times' = Append(times, [result  |-> Result(code),
                             elapsed |-> end' - start,
                             total   |-> endTotal' - startTotal])
  /\ spent' = spent + d
  /\ call' = call + 1
  /\ pc' = "idle"
  /\ UNCHANGED <<exec, startTotal, start>>

\* The next execution, unless a call failed (FINISH).
NextExecution ==
  /\ pc = "idle" /\ call = Calls /\ exec < NumExecutions
  /\ ~Finish
  /\ exec' = exec + 1 /\ call' = 0 /\ spent' = 0
  /\ startTotal' = 0 /\ start' = 0 /\ end' = 0 /\ endTotal' = 0
  /\ UNCHANGED <<pc, monitors, now, times>>

\* The workload is over.
Terminated ==
  /\ pc = "idle" /\ call = Calls /\ (exec = NumExecutions \/ Finish)
  /\ UNCHANGED vars

Next ==
  \/ Cleanup \/ StartBenchmark \/ NextExecution \/ Terminated
  \/ \E d \in Durations, code \in Codes : EndBenchmark(d, code)

Spec == Init /\ [][Next]_vars

-----------------------------------------------------------------------------
(***************************************************************************)
(* Properties.                                                             *)
(***************************************************************************)
\* Every variable keeps its type.
TypeOK ==
  /\ pc \in {"init", "idle", "timed"}
  /\ exec \in 1 .. NumExecutions /\ call \in 0 .. Calls
  /\ monitors \in SUBSET Monitor
  /\ now \in Nat /\ spent \in Nat
  /\ startTotal \in Nat /\ start \in Nat /\ end \in Nat /\ endTotal \in Nat
  /\ times \in Seq(Time)

Last == times[Len(times)]
Measured == pc = "idle" /\ times # <<>>

\* A monitor that the stop scripts look for on the host where it runs.
Sought(m) == m.tool \in Enabled /\ (m.tool = "ilo" => IloStartHost = IloStopHost)

\* The time a call reports leaves the delays out and adds up the commands of
\* the execution, since the clocks are reset once per execution: the read test
\* of testdfsio reports the time of the write test as well.  The total time has
\* both delays of every call.
TimesMeasured ==
  pc = "idle" /\ call > 0 =>
    /\ Last.elapsed = spent
    /\ Last.total = spent + 2 * call * Wait

\* With a delay that covers the latency of the monitors, a command runs under
\* one monitor of every tool for every node and, after the first call, under none
\* of an earlier call or evaluation.
Sampled ==
  pc = "timed" /\ Latency <= MonitorDelay =>
    /\ \A t \in Enabled, k \in DOMAIN Targets :
         \E m \in monitors :
           m.tool = t /\ m.node = k /\ m.number = Number /\ IsUp(m)
    /\ times # <<>> =>
         \A m \in monitors : Sought(m) => m.number = Number

\* A monitor that comes up within the two delays does not outlive its call,
\* however short the command, nor does one that an earlier evaluation left.
NoSurvivor ==
  Measured /\ Latency <= 2 * MonitorDelay =>
    \A m \in monitors : ~Sought(m)

\* etc/bdev-conf.sh: localhost means to use the master node, so that the iLO
\* monitors are stopped with the others.
IloStopped ==
  Measured /\ Latency <= MonitorDelay /\ "ilo" \in Enabled =>
    \A m \in monitors : m.tool = "ilo" => m.number = 0

-----------------------------------------------------------------------------
(***************************************************************************)
(* The inductive invariant behind the properties.                          *)
(***************************************************************************)
\* What the accumulated clocks amount to.
ClocksInv ==
  /\ pc = "init" => call = 0 /\ times = <<>>
  /\ pc # "timed" =>
       /\ end = start + spent
       /\ endTotal = startTotal + spent + 2 * call * Wait
  /\ pc = "timed" =>
       /\ call < Calls
       /\ end + now = start + spent
       /\ endTotal + now = startTotal + spent + 2 * call * Wait + Wait
  /\ pc = "idle" /\ call > 0 =>
       /\ times # <<>>
       /\ Last.elapsed = end - start
       /\ Last.total = endTotal - startTotal

\* Where a monitor runs, which call it is of, and when it has to be up.
LaunchedInv ==
  \A m \in monitors :
    /\ m.host = HostOf(m.tool, m.node)
    /\ Overdue(m, now) => IsUp(m)
    /\ m.number < Number \/ (pc = "timed" /\ m.number = Number)
    /\ m.number = 0 => IsUp(m)

\* The monitors of the call under way are all there, as old as the delay.
CurrentInv ==
  pc = "timed" =>
    /\ \A t \in Enabled, k \in DOMAIN Targets :
         \E m \in monitors : m.tool = t /\ m.node = k /\ m.number = Number
    /\ \A m \in monitors : m.number = Number => m.since + Wait = now

\* Of the calls that are over only monitors that are not up yet are left, and
\* these are older than two delays.
LateInv ==
  times # <<>> =>
    \A m \in monitors :
      Sought(m) /\ (pc = "timed" => m.number < Number) =>
        LET over == IF pc = "timed" THEN now - Wait ELSE now
        IN  m.since + 2 * Wait <= over /\ over < m.since + Latency

MonitoringInv ==
  TypeOK /\ ClocksInv /\ LaunchedInv /\ CurrentInv /\ LateInv

=============================================================================
