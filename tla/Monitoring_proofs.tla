-------------------------- MODULE Monitoring_proofs --------------------------
(***************************************************************************)
(* The properties of Monitoring hold for all lists of nodes, tools, delays *)
(* and latencies.                                                          *)
(***************************************************************************)
EXTENDS Monitoring, SequenceTheorems, TLAPS

\* The same monitor at two moments of its life.
Same(m, l) ==
  /\ m.tool = l.tool /\ m.host = l.host /\ m.node = l.node
  /\ m.number = l.number /\ m.since = l.since

\* WAIT_SECONDS is a number, and the targets are hosts.
LEMMA ConstantsOK ==
  /\ Wait \in Nat /\ MonitorDelay \in Nat /\ Latency \in Nat
  /\ (Enabled # {} => Wait = MonitorDelay)
  /\ \A k \in DOMAIN Targets : Targets[k] \in Hosts
  /\ MasterNode \in Hosts /\ 1 \in DOMAIN Targets
BY MonitoringAssumption DEF Wait, MasterNode

\* Every monitor is given a host.
LEMMA HostsOK ==
  ASSUME NEW t \in Tools, NEW k \in DOMAIN Targets
  PROVE  HostOf(t, k) \in Hosts
BY MonitoringAssumption, ConstantsOK DEF HostOf, IloStartHost

\* A monitor is what it was made of.
LEMMA MonitorOK ==
  ASSUME NEW t \in Tools, NEW k \in DOMAIN Targets, NEW number \in Nat,
         NEW since \in Nat, NEW state \in {"launched", "up"}
  PROVE  LET m == MonitorOf(t, k, number, since, state)
         IN  /\ m \in Monitor
             /\ m.tool = t /\ m.node = k /\ m.host = HostOf(m.tool, m.node)
             /\ m.number = number /\ m.since = since /\ m.state = state
BY HostsOK DEF MonitorOf, Monitor

\* A monitor that comes up stays the same monitor.
LEMMA UpOK ==
  ASSUME NEW m \in Monitor
  PROVE  Up(m) \in Monitor /\ Same(Up(m), m) /\ IsUp(Up(m))
BY DEF Up, Monitor, Same, IsUp

\* While time passes no monitor is lost or added, and none that is overdue is
\* still to come up.
LEMMA Passing ==
  ASSUME NEW t \in Nat, NEW L \in SUBSET Monitor, NEW S \in AtTime(t, L)
  PROVE  /\ S \in SUBSET Monitor
         /\ \A m \in S : \E l \in L : Same(m, l) /\ (IsUp(l) => IsUp(m))
         /\ \A l \in L : \E m \in S : Same(m, l)
         /\ \A m \in S : Overdue(m, t) => IsUp(m)
<1>1. PICK late \in SUBSET {m \in L : ~IsUp(m) /\ ~Overdue(m, t)} :
        S = {IF m \in late THEN m ELSE Up(m) : m \in L}
  BY DEF AtTime
<1>2. \A m \in L : Same(m, m)
  BY DEF Same
<1>3. \A l \in L : l \in late \/ Up(l) \in S
  BY <1>1
<1>4. \A l \in late : l \in S /\ l \in L
  BY <1>1
<1>5. \A m \in S : m \in late \/ \E l \in L : m = Up(l)
  BY <1>1
<1>6. \A l \in late : ~Overdue(l, t)
  BY <1>1
<1> QED
  BY <1>2, <1>3, <1>4, <1>5, <1>6, UpOK

\* What start_benchmark launches has its type and is new.
LEMMA LaunchOK ==
  ASSUME TypeOK
  PROVE  /\ Launch \in SUBSET Monitor
         /\ \A m \in Launch : /\ m.number = Number /\ m.since = now
                              /\ m.host = HostOf(m.tool, m.node)
         /\ \A t \in Enabled, k \in DOMAIN Targets :
              \E m \in Launch : m.tool = t /\ m.node = k
<1>1. Number \in Nat /\ now \in Nat
  BY DEF TypeOK, Number
<1>2. Enabled \subseteq Tools
  BY MonitoringAssumption
<1>3. \A t \in Enabled, k \in DOMAIN Targets : \E m \in Launch :
        m = MonitorOf(t, k, Number, now, IF t \in Daemons THEN "up" ELSE "launched")
  BY DEF Launch
<1>4. \A m \in Launch : \E t \in Enabled, k \in DOMAIN Targets :
        m = MonitorOf(t, k, Number, now, IF t \in Daemons THEN "up" ELSE "launched")
  BY DEF Launch
<1>5. \A t \in Enabled :
        (IF t \in Daemons THEN "up" ELSE "launched") \in {"launched", "up"}
  OBVIOUS
<1>6. \A m \in Launch : /\ m \in Monitor /\ m.host = HostOf(m.tool, m.node)
                        /\ m.number = Number /\ m.since = now
  BY <1>1, <1>2, <1>4, <1>5, MonitorOK
<1>7. \A t \in Enabled, k \in DOMAIN Targets :
        \E m \in Launch : m.tool = t /\ m.node = k
  BY <1>1, <1>2, <1>3, <1>5, MonitorOK
<1> QED
  BY <1>6, <1>7

-----------------------------------------------------------------------------
\* The initial states satisfy the invariant.
LEMMA InvInit == Init => MonitoringInv
<1> SUFFICES ASSUME Init PROVE MonitoringInv
  OBVIOUS
<1>1. PICK tools \in SUBSET Tools :
        monitors = {MonitorOf(t, k, 0, 0, "up") : t \in tools, k \in DOMAIN Targets}
  BY DEF Init
<1>2. \A m \in monitors : \E t \in tools, k \in DOMAIN Targets :
        m = MonitorOf(t, k, 0, 0, "up")
  BY <1>1
<1>3. times = <<>> /\ times \in Seq(Time)
  BY EmptySeq DEF Init
<1>4. \A m \in monitors : /\ m \in Monitor /\ m.host = HostOf(m.tool, m.node)
                          /\ m.number = 0 /\ m.state = "up"
  BY <1>2, MonitorOK
<1>5. TypeOK
  BY <1>3, <1>4, MonitoringAssumption DEF Init, TypeOK
<1>6. ClocksInv
  <2>1. 2 * call * Wait = 0
    BY ConstantsOK DEF Init
  <2> QED
    BY <2>1 DEF Init, ClocksInv
<1>7. LaunchedInv
  <2>1. Number = 1
    BY <1>3 DEF Number
  <2> QED
    BY <1>4, <2>1 DEF LaunchedInv, IsUp
<1>8. CurrentInv /\ LateInv
  BY DEF Init, CurrentInv, LateInv
<1> QED
  BY <1>5, <1>6, <1>7, <1>8 DEF MonitoringInv

\* The cleanup removes monitors and nothing else.
LEMMA InvCleanup == MonitoringInv /\ Cleanup => MonitoringInv'
<1> SUFFICES ASSUME MonitoringInv, Cleanup PROVE MonitoringInv'
  OBVIOUS
<1> USE DEF MonitoringInv, Cleanup, clocks
<1>1. TypeOK'
  BY DEF TypeOK
<1>2. ClocksInv'
  BY DEF ClocksInv, Last
<1>3. LaunchedInv'
  BY DEF LaunchedInv, Number, HostOf, IloStartHost, Overdue, IsUp
<1>4. CurrentInv' /\ LateInv'
  BY DEF CurrentInv, LateInv, ClocksInv
<1> QED
  BY <1>1, <1>2, <1>3, <1>4

\* After the cleanup the calls start with the clocks at zero.
LEMMA InvNextExecution == MonitoringInv /\ NextExecution => MonitoringInv'
<1> SUFFICES ASSUME MonitoringInv, NextExecution PROVE MonitoringInv'
  OBVIOUS
<1> USE DEF MonitoringInv, NextExecution
<1>1. TypeOK'
  BY MonitoringAssumption DEF TypeOK
<1>2. ClocksInv'
  BY ConstantsOK DEF ClocksInv
<1>3. LaunchedInv'
  BY DEF LaunchedInv, Number, HostOf, IloStartHost, Overdue, IsUp
<1>4. CurrentInv' /\ LateInv'
  BY DEF CurrentInv, LateInv, Sought, IloStartHost, IloStopHost
<1> QED
  BY <1>1, <1>2, <1>3, <1>4

\* start_benchmark leaves every monitor of the call launched, as old as the delay,
\* next to the ones that were left.
LEMMA InvStart == MonitoringInv /\ StartBenchmark => MonitoringInv'
<1> SUFFICES ASSUME MonitoringInv, StartBenchmark PROVE MonitoringInv'
  OBVIOUS
<1> USE DEF MonitoringInv, StartBenchmark
<1>1. /\ Wait \in Nat /\ now \in Nat /\ now' \in Nat /\ now' = now + Wait
      /\ Latency \in Nat /\ Number' = Number /\ Number \in Nat
  BY ConstantsOK DEF TypeOK, Number
<1>2. monitors \union Launch \in SUBSET Monitor
  BY LaunchOK DEF TypeOK
<1>3. /\ monitors' \in SUBSET Monitor
      /\ \A m \in monitors' : \E l \in monitors \union Launch :
           Same(m, l) /\ (IsUp(l) => IsUp(m))
      /\ \A l \in monitors \union Launch : \E m \in monitors' : Same(m, l)
      /\ \A m \in monitors' : Overdue(m, now') => IsUp(m)
  BY <1>1, <1>2, Passing
<1>4. \A m \in Launch : /\ m.number = Number /\ m.since = now
                        /\ m.host = HostOf(m.tool, m.node)
  BY LaunchOK
<1>5. TypeOK'
  BY <1>1, <1>3 DEF TypeOK, Started
<1>6. ClocksInv'
  BY <1>1, MonitoringAssumption DEF ClocksInv, Started, TypeOK
<1>7. LaunchedInv'
  <2>1. \A l \in monitors : l.host = HostOf(l.tool, l.node) /\ l.number < Number
    BY DEF LaunchedInv
  <2>2. \A m \in monitors' : /\ m.host = HostOf(m.tool, m.node)
                             /\ m.number < Number \/ m.number = Number
    BY <1>3, <1>4, <2>1 DEF Same
  <2>3. \A m \in monitors' : m.number = 0 => IsUp(m)
    <3>1. Number > 0
      BY DEF Number, TypeOK
    <3>2. \A l \in monitors \union Launch : l.number = 0 => IsUp(l)
      BY <3>1, <1>1, <1>4 DEF LaunchedInv
    <3> QED
      BY <1>3, <3>2 DEF Same
  <2> QED
    BY <1>1, <1>3, <2>2, <2>3 DEF LaunchedInv, HostOf, IloStartHost, Overdue, IsUp
<1>8. CurrentInv'
  <2>1. \A t \in Enabled, k \in DOMAIN Targets :
          \E m \in monitors' : m.tool = t /\ m.node = k /\ m.number = Number
    BY <1>3, <1>4, LaunchOK DEF Same
  <2>2. ASSUME NEW m \in monitors', m.number = Number PROVE m.since + Wait = now'
    <3>1. PICK l \in monitors \union Launch : Same(m, l)
      BY <1>3
    <3>2. \A x \in monitors : x.number < Number /\ x.number \in Nat
      BY DEF LaunchedInv, TypeOK, Monitor
    <3>3. l.number = Number
      BY <3>1, <2>2 DEF Same
    <3>4. l \in Launch
      BY <3>2, <3>3, <1>1
    <3> QED
      BY <3>1, <3>4, <1>1, <1>4 DEF Same
  <2> QED
    BY <1>1, <2>1, <2>2 DEF CurrentInv
<1>9. LateInv'
  <2>1. ASSUME times # <<>>, NEW m \in monitors', Sought(m), m.number < Number
        PROVE  m.since + 2 * Wait <= now /\ now < m.since + Latency
    <3>1. PICK l \in monitors \union Launch : Same(m, l)
      BY <1>3
    <3>2. l \in monitors /\ Sought(l)
      BY <3>1, <2>1, <1>1, <1>4 DEF Same, Sought
    <3> QED
      BY <3>1, <3>2, <2>1 DEF LateInv, Same
  <2>2. now' - Wait = now
    BY <1>1
  <2> QED
    BY <1>1, <2>1, <2>2 DEF LateInv, Sought, IloStartHost, IloStopHost
<1> QED
  BY <1>5, <1>6, <1>7, <1>8, <1>9

\* The product that counts the delays of an execution.
LEMMA Delays ==
  ASSUME TypeOK
  PROVE  /\ 2 * call * Wait \in Nat
         /\ 2 * (call + 1) * Wait = 2 * call * Wait + Wait + Wait
<1>1. call \in Nat /\ Wait \in Nat
  BY ConstantsOK, MonitoringAssumption DEF TypeOK
<1> QED
  BY <1>1

\* end_benchmark kills what is up and sought, and writes down the time.
LEMMA InvEnd ==
  ASSUME MonitoringInv, NEW d \in Durations, NEW code \in Codes, EndBenchmark(d, code)
  PROVE  MonitoringInv'
<1> USE DEF MonitoringInv, EndBenchmark
<1>1. /\ Wait \in Nat /\ now \in Nat /\ d \in Nat /\ now' \in Nat
      /\ now' = now + d + Wait
      /\ Latency \in Nat /\ Number \in Nat
      /\ end \in Nat /\ endTotal \in Nat /\ start \in Nat /\ startTotal \in Nat
      /\ spent \in Nat /\ call \in Nat
  BY ConstantsOK, MonitoringAssumption DEF TypeOK, Number
<1>2. PICK found \in AtTime(now', monitors) :
        monitors' = {m \in found : ~Finds(m)}
  OBVIOUS
<1>3. /\ found \in SUBSET Monitor
      /\ \A m \in found : \E l \in monitors : Same(m, l) /\ (IsUp(l) => IsUp(m))
      /\ \A m \in found : Overdue(m, now') => IsUp(m)
  BY <1>1, Passing DEF TypeOK
<1>4. /\ end' - start = spent' /\ end' = start + spent' /\ spent' \in Nat
      /\ endTotal' - startTotal = spent' + 2 * call' * Wait
      /\ endTotal' = startTotal + spent' + 2 * call' * Wait
      /\ 2 * call' * Wait \in Nat
  BY <1>1, Delays DEF ClocksInv
<1> DEFINE time == [result  |-> Result(code), elapsed |-> end' - start,
                    total   |-> endTotal' - startTotal]
<1>5. time \in Time /\ time.elapsed = end' - start /\ time.total = endTotal' - startTotal
  <2>1. Result(code) \in Results
    BY DEF Result, Results
  <2>2. end' - start \in Nat /\ endTotal' - startTotal \in Nat
    BY <1>4
  <2> QED
    BY <2>1, <2>2 DEF Time
<1>6. times' = Append(times, time)
  OBVIOUS
<1> HIDE DEF time
<1>7. times' \in Seq(Time) /\ times' # <<>> /\ Len(times') = Len(times) + 1 /\ Last' = time
  <2>1. times \in Seq(Time) /\ time \in Time
    BY <1>5 DEF TypeOK
  <2>2. /\ times' \in Seq(Time) /\ Len(times') = Len(times) + 1
        /\ times'[Len(times')] = time
    BY ONLY <1>6, <2>1, AppendProperties
  <2> QED
    BY <2>1, <2>2, LenProperties DEF Last
<1>8. Number' = Number + 1
  BY <1>7 DEF Number
<1>9. TypeOK'
  BY <1>1, <1>2, <1>3, <1>4, <1>7, MonitoringAssumption DEF TypeOK, ClocksInv
<1>10. ClocksInv'
  BY <1>4, <1>5, <1>7, MonitoringAssumption DEF ClocksInv, Wait, Last
<1>11. \A m \in monitors' :
         /\ m \in found /\ ~Finds(m) /\ m.number <= Number
         /\ m.host = HostOf(m.tool, m.node)
  <2>1. \A l \in monitors : l.host = HostOf(l.tool, l.node) /\ l.number <= Number
    BY <1>1 DEF LaunchedInv, TypeOK, Monitor
  <2> QED
    BY <1>2, <1>3, <2>1 DEF Same
<1>12. \A m \in monitors' : m.number = 0 => IsUp(m)
  BY <1>3, <1>11 DEF LaunchedInv, Same
<1>13. LaunchedInv'
  BY <1>1, <1>3, <1>8, <1>11, <1>12 DEF LaunchedInv, HostOf, IloStartHost, Overdue, IsUp,
    Monitor
<1>14. CurrentInv'
  BY DEF CurrentInv
<1>15. LateInv'
  <2> SUFFICES ASSUME NEW m \in monitors', Sought(m)
               PROVE  m.since + 2 * Wait <= now' /\ now' < m.since + Latency
    BY DEF LateInv, Sought, IloStartHost, IloStopHost
  <2>1. m \in Monitor /\ m.since \in Nat /\ m.number \in Nat
    BY <1>3, <1>11 DEF Monitor
  <2>2. m.host \in StopHosts(m.tool)
    BY <1>11, <2>1 DEF Sought, HostOf, StopHosts, Nodes, Monitor
  <2>3. ~IsUp(m)
    BY <1>11, <2>2 DEF Finds, Sought
  <2>4. now' < m.since + Latency
    BY <1>1, <1>3, <1>11, <2>1, <2>3 DEF Overdue
  <2>5. PICK l \in monitors : Same(m, l)
    BY <1>3, <1>11
  <2>6. CASE m.number = Number
    <3>1. l.number = Number /\ l.since = m.since
      BY <2>5, <2>6 DEF Same
    <3>2. l.since + Wait = now
      BY <2>5, <3>1 DEF CurrentInv
    <3> QED
      BY <1>1, <2>1, <2>4, <3>1, <3>2
  <2>7. CASE m.number < Number
    <3>1. times # <<>>
      BY <1>12, <2>1, <2>3, <2>7 DEF Number
    <3>2. l.since + 2 * Wait <= now - Wait
      BY <2>5, <2>7, <3>1 DEF LateInv, Same, Sought
    <3>3. l.since = m.since
      BY <2>5 DEF Same
    <3> QED
      BY <1>1, <2>1, <2>4, <3>2, <3>3
  <2> QED
    BY <1>1, <1>11, <2>1, <2>4, <2>6, <2>7
<1> QED
  BY <1>9, <1>10, <1>13, <1>14, <1>15

-----------------------------------------------------------------------------
\* Monitors, clocks and results stay in step, for any number of nodes, calls and
\* executions and any delay and latency.
THEOREM MonitoringInvariant == Spec => []MonitoringInv
<1>1. Init => MonitoringInv
  BY InvInit
<1>2. MonitoringInv /\ [Next]_vars => MonitoringInv'
  <2> SUFFICES ASSUME MonitoringInv, [Next]_vars PROVE MonitoringInv'
    OBVIOUS
  <2>1. CASE Cleanup
    BY <2>1, InvCleanup
  <2>2. CASE StartBenchmark
    BY <2>2, InvStart
  <2>3. CASE NextExecution
    BY <2>3, InvNextExecution
  <2>4. ASSUME NEW d \in Durations, NEW code \in Codes, EndBenchmark(d, code)
        PROVE  MonitoringInv'
    BY <2>4, InvEnd
  <2>5. CASE UNCHANGED vars
    BY <2>5 DEF vars, clocks, MonitoringInv, TypeOK, ClocksInv, Last, LaunchedInv,
      CurrentInv, LateInv, Number, Overdue, IsUp, HostOf, IloStartHost, IloStopHost,
      Sought
  <2> QED
    BY <2>1, <2>2, <2>3, <2>4, <2>5 DEF Next, Terminated
<1> QED
  BY <1>1, <1>2, PTL DEF Spec

\* A call reports the time of the commands of its execution and no delay.
THEOREM TimesMeasuredHolds == Spec => []TimesMeasured
<1>1. MonitoringInv => TimesMeasured
  <2> SUFFICES ASSUME MonitoringInv, pc = "idle", call > 0
               PROVE  Last.elapsed = spent /\ Last.total = spent + 2 * call * Wait
    BY DEF TimesMeasured
  <2>1. 2 * call * Wait \in Nat /\ spent \in Nat /\ start \in Nat /\ startTotal \in Nat
    BY Delays DEF MonitoringInv, TypeOK
  <2>2. /\ end = start + spent /\ endTotal = startTotal + spent + 2 * call * Wait
        /\ Last.elapsed = end - start /\ Last.total = endTotal - startTotal
    BY DEF MonitoringInv, ClocksInv
  <2> QED
    BY <2>1, <2>2
<1> QED
  BY <1>1, MonitoringInvariant, PTL

\* No monitor that comes up within two delays outlives its call.
THEOREM NoSurvivorHolds == Spec => []NoSurvivor
<1>1. MonitoringInv => NoSurvivor
  <2> SUFFICES ASSUME MonitoringInv, Measured, Latency <= 2 * MonitorDelay,
                      NEW m \in monitors, Sought(m)
               PROVE  FALSE
    BY DEF NoSurvivor
  <2>1. now \in Nat /\ m.since \in Nat
    BY DEF MonitoringInv, TypeOK, Monitor
  <2>2. m.since + 2 * Wait <= now /\ now < m.since + Latency
    BY DEF MonitoringInv, LateInv, Measured
  <2>3. Wait = MonitorDelay
    BY ConstantsOK DEF Sought
  <2> QED
    BY <2>1, <2>2, <2>3, ConstantsOK
<1> QED
  BY <1>1, MonitoringInvariant, PTL

\* The iLO monitors are stopped with the others where the host that starts them is
\* the one that is asked to stop them: when a host is named for them, or when the
\* evaluation itself runs on the master node.
THEOREM IloStoppedThere ==
  ASSUME ILO_MASTER # "localhost" \/ LocalHost = MasterNode
  PROVE  Spec => []IloStopped
<1>1. NoSurvivor => IloStopped
  <2>1. IloStartHost = IloStopHost
    BY DEF IloStartHost, IloStopHost
  <2>2. \A m \in monitors : m.tool = "ilo" /\ "ilo" \in Enabled => Sought(m)
    BY <2>1 DEF Sought
  <2>3. Latency <= MonitorDelay => Latency <= 2 * MonitorDelay
    BY ConstantsOK
  <2> QED
    BY <2>2, <2>3 DEF NoSurvivor, IloStopped
<1> QED
  BY <1>1, NoSurvivorHolds, PTL

\* Every command is measured by a monitor of every tool on every node, and after
\* the first call by no other.
THEOREM SampledHolds == Spec => []Sampled
<1>1. MonitoringInv => Sampled
  <2> SUFFICES ASSUME MonitoringInv, pc = "timed", Latency <= MonitorDelay
               PROVE  /\ \A t \in Enabled, k \in DOMAIN Targets : \E m \in monitors :
                           m.tool = t /\ m.node = k /\ m.number = Number /\ IsUp(m)
                      /\ times # <<>> =>
                           \A m \in monitors : Sought(m) => m.number = Number
    BY DEF Sampled
  <2>1. now \in Nat /\ Number \in Nat
    BY DEF MonitoringInv, TypeOK, Number
  <2>2. \A m \in monitors : m.since \in Nat /\ m.number \in Nat
    BY DEF MonitoringInv, TypeOK, Monitor
  <2>3. ASSUME NEW t \in Enabled, NEW k \in DOMAIN Targets
        PROVE  \E m \in monitors :
                 m.tool = t /\ m.node = k /\ m.number = Number /\ IsUp(m)
    <3>1. PICK m \in monitors : m.tool = t /\ m.node = k /\ m.number = Number
      BY DEF MonitoringInv, CurrentInv
    <3>2. m.since + Wait = now /\ Wait = MonitorDelay
      BY <3>1, ConstantsOK DEF MonitoringInv, CurrentInv
    <3>3. Overdue(m, now)
      BY <2>1, <2>2, <3>2, ConstantsOK DEF Overdue
    <3> QED
      BY <3>1, <3>3 DEF MonitoringInv, LaunchedInv
  <2>4. ASSUME times # <<>>, NEW m \in monitors, Sought(m)
        PROVE  m.number = Number
    <3> SUFFICES ASSUME m.number # Number PROVE FALSE
      OBVIOUS
    <3>1. m.number < Number
      BY DEF MonitoringInv, LaunchedInv
    <3>2. m.since + 2 * Wait <= now - Wait /\ now - Wait < m.since + Latency
      BY <2>4, <3>1 DEF MonitoringInv, LateInv
    <3>3. Wait = MonitorDelay
      BY <2>4, ConstantsOK DEF Sought
    <3> QED
      BY <2>1, <2>2, <3>2, <3>3, ConstantsOK
  <2> QED
    BY <2>3, <2>4
<1> QED
  BY <1>1, MonitoringInvariant, PTL

=============================================================================
