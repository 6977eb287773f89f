---------------------- MODULE EvaluationSafety_proofs ----------------------
(***************************************************************************)
(* The safety properties of Evaluation, for every value of its constants.  *)
(* SafetyInv is inductive; each part is proved from itself, the types and  *)
(* the parts before it.                                                    *)
(***************************************************************************)
EXTENDS Evaluation_proofs

\* The control of the two shells.
LEMMA ControlNext ==
  ASSUME TypeOK, ControlInv, [Next]_vars
  PROVE  ControlInv'
<1> USE ConstantTypes
<1> USE DEF mainVars, loopVars, clusterVars, historyVars, TypeOK, DriverTypeOK,
            ControlInv
<1>1. CASE InitBDEv
  BY <1>1 DEF InitBDEv
<1>2. CASE NextCluster
  BY <1>2 DEF NextCluster, LaunchChild
<1>3. CASE NextSolution
  BY <1>3 DEF NextSolution, LaunchChild, Exit
<1>4. CASE FinishBDEv
  BY <1>4 DEF FinishBDEv
<1>5. CASE Boot
  BY <1>5 DEF Boot, ExitChild
<1>6. ASSUME NEW way \in StartWays, Start(way) PROVE ControlInv'
  BY <1>6 DEF Start
<1>7. CASE Deploy
  BY <1>7 DEF Deploy, ExitChild
<1>8. CASE Configure
  BY <1>8 DEF Configure, ExitChild
<1>9. CASE Prepare
  BY <1>9 DEF Prepare
<1>10. CASE NextBenchmark
  BY <1>10 DEF NextBenchmark
<1>11. CASE NextExecution
  BY <1>11 DEF NextExecution
<1>12. CASE EndExecution
  BY <1>12 DEF EndExecution
<1>13. CASE EndExecutions
  BY <1>13 DEF EndExecutions
<1>14. CASE WriteReport
  BY <1>14 DEF WriteReport
<1>15. CASE FinishChild
  BY <1>15 DEF FinishChild
<1>16. CASE LeaveSafeMode
  BY <1>16 DEF LeaveSafeMode
<1>17. ASSUME NEW outcome \in Outcomes, RunBenchmark(outcome) PROVE ControlInv'
  BY <1>17 DEF RunBenchmark
<1>18. CASE UNCHANGED vars
  BY <1>18 DEF vars
<1> QED
  BY <1>1, <1>2, <1>3, <1>4, <1>5, <1>6, <1>7, <1>8, <1>9, <1>10, <1>11,
     <1>12, <1>13, <1>14, <1>15, <1>16, <1>17, <1>18
     DEF Next, Driver, Child, Workload, Terminated

\* finish.sh and m_exit leave nothing running.
LEMMA CleanNext ==
  ASSUME TypeOK, ControlInv, CleanInv, [Next]_vars
  PROVE  CleanInv'
<1> USE ConstantTypes
<1> USE DEF mainVars, loopVars, clusterVars, historyVars, CleanInv, Running,
            ControlInv
<1>1. CASE InitBDEv
  BY <1>1 DEF InitBDEv, CleanupProcesses
<1>2. CASE NextCluster
  BY <1>2 DEF NextCluster, LaunchChild
<1>3. CASE NextSolution
  BY <1>3 DEF NextSolution, LaunchChild, Exit, CleanupProcesses
<1>4. CASE FinishBDEv
  BY <1>4 DEF FinishBDEv
<1>5. CASE Boot
  BY <1>5 DEF Boot, ExitChild, CleanupProcesses
<1>6. ASSUME NEW way \in StartWays, Start(way) PROVE CleanInv'
  BY <1>6 DEF Start
<1>7. CASE Deploy
  BY <1>7 DEF Deploy, ExitChild, CleanupProcesses
<1>8. CASE Configure
  BY <1>8 DEF Configure, ExitChild, CleanupProcesses
<1>9. CASE Prepare
  BY <1>9 DEF Prepare
<1>10. CASE NextBenchmark
  BY <1>10 DEF NextBenchmark
<1>11. CASE NextExecution
  BY <1>11 DEF NextExecution
<1>12. CASE EndExecution
  BY <1>12 DEF EndExecution
<1>13. CASE EndExecutions
  BY <1>13 DEF EndExecutions
<1>14. CASE WriteReport
  BY <1>14 DEF WriteReport
<1>15. CASE FinishChild
  BY <1>15 DEF FinishChild, CleanupProcesses
<1>16. CASE LeaveSafeMode
  BY <1>16 DEF LeaveSafeMode
<1>17. ASSUME NEW outcome \in Outcomes, RunBenchmark(outcome) PROVE CleanInv'
  BY <1>17 DEF RunBenchmark
<1>18. CASE UNCHANGED vars
  BY <1>18 DEF vars
<1> QED
  BY <1>1, <1>2, <1>3, <1>4, <1>5, <1>6, <1>7, <1>8, <1>9, <1>10, <1>11,
     <1>12, <1>13, <1>14, <1>15, <1>16, <1>17, <1>18
     DEF Next, Driver, Child, Workload, Terminated

\* A failure ends both loops before anything else is started.
LEMMA AloneNext ==
  ASSUME TypeOK, ControlInv, CleanInv, AloneInv, [Next]_vars
  PROVE  AloneInv'
<1> USE ConstantTypes
<1> USE DEF mainVars, loopVars, clusterVars, historyVars, AloneInv, CleanInv,
            ControlInv, TypeOK, ChildTypeOK
<1>1. CASE InitBDEv
  BY <1>1 DEF InitBDEv, CleanupProcesses, ThisFramework
<1>2. CASE NextCluster
  BY <1>2 DEF NextCluster, LaunchChild, ThisFramework
<1>3. CASE NextSolution
  BY <1>3 DEF NextSolution, LaunchChild, Exit, CleanupProcesses, ThisFramework
<1>4. CASE FinishBDEv
  BY <1>4 DEF FinishBDEv, ThisFramework, Continue
<1>5. CASE Boot
  BY <1>5 DEF Boot, ExitChild, CleanupProcesses, ThisFramework
<1>6. ASSUME NEW way \in StartWays, Start(way) PROVE AloneInv'
  BY <1>6 DEF Start, ThisFramework, Continue
<1>7. CASE Deploy
  BY <1>7 DEF Deploy, ExitChild, CleanupProcesses, ThisFramework
<1>8. CASE Configure
  BY <1>8 DEF Configure, ExitChild, CleanupProcesses, ThisFramework
<1>9. CASE Prepare
  BY <1>9 DEF Prepare, AfterPrepare, ThisFramework
<1>10. CASE NextBenchmark
  BY <1>10 DEF NextBenchmark, ThisFramework, Continue
<1>11. CASE NextExecution
  BY <1>11 DEF NextExecution, ThisFramework, Continue
<1>12. CASE EndExecution
  BY <1>12 DEF EndExecution, ThisFramework, Continue
<1>13. CASE EndExecutions
  BY <1>13 DEF EndExecutions, ThisFramework, Continue
<1>14. CASE WriteReport
  BY <1>14 DEF WriteReport, ThisFramework, Continue
<1>15. CASE FinishChild
  BY <1>15 DEF FinishChild, CleanupProcesses, ThisFramework
<1>16. CASE LeaveSafeMode
  BY <1>16 DEF LeaveSafeMode, ThisFramework, Continue
<1>17. ASSUME NEW outcome \in Outcomes, RunBenchmark(outcome) PROVE AloneInv'
  BY <1>17 DEF RunBenchmark, Finishes, Outcomes, ThisFramework
<1>18. CASE UNCHANGED vars
  BY <1>18 DEF vars, ThisFramework
<1> QED
  BY <1>1, <1>2, <1>3, <1>4, <1>5, <1>6, <1>7, <1>8, <1>9, <1>10, <1>11,
     <1>12, <1>13, <1>14, <1>15, <1>16, <1>17, <1>18
     DEF Next, Driver, Child, Workload, Terminated

\* The version on the disk follows the versions that run.sh compares.
LEMMA FormatNext ==
  ASSUME TypeOK, ControlInv, FormatInv, [Next]_vars
  PROVE  FormatInv'
<1> USE ConstantTypes
<1> USE DEF mainVars, loopVars, clusterVars, historyVars, FormatInv, Running,
            OneVersion, Hdfs, Renewed, ControlInv, TypeOK, DriverTypeOK
<1>1. CASE InitBDEv
  BY <1>1 DEF InitBDEv
<1>2. CASE NextCluster
  <2> SUFFICES ASSUME ~NoFramework PROVE FormatInv'
    BY DEF FormatInv
  <2>1. /\ forceDelete' = DeleteBeforeVisits /\ solution' = 0
        /\ config' = config /\ child' = "none"
    BY <1>2 DEF NextCluster
  <2>2. forceDelete' <=> Renewed'
    BY <2>1 DEF DeleteBeforeVisits
  <2> QED
    BY <2>1, <2>2
<1>3. CASE NextSolution
  <2> SUFFICES ASSUME ~NoFramework PROVE FormatInv'
    BY DEF FormatInv
  <2>1. cluster > 0 /\ cluster' = cluster /\ main = "loop"
    BY <1>3 DEF NextSolution
  <2>2. /\ config' = config /\ storage' = storage /\ formatOwed' = formatOwed
        /\ forceDelete' = forceDelete
        /\ solution' = solution + 1 /\ solution' \in 1 .. NumSolutions
    BY <1>3 DEF NextSolution
  <2>3. CASE ~Solutions[solution'].installed
    BY <1>3, <2>3 DEF NextSolution, Exit
  <2>4. CASE Solutions[solution'].installed
    <3>1. /\ lastVersion' = LastVersion(solution')
          /\ currentVersion' = Solutions[solution'].hadoop
          /\ forceFormat' = NeedsFormat(solution', lastVersion', currentVersion')
          /\ child' = "boot"
      BY <1>3, <2>4 DEF NextSolution, LaunchChild
    <3>2. currentVersion' = Solutions[solution'].hadoop
      BY <2>2, <3>1
    <3>3. forceDelete <=> Renewed
      BY <2>1
    <3>4. CASE solution' = 1
      <4>1. forceFormat' <=> config.FORMAT_HDFS \/ forceDelete
        BY <3>1, <3>4 DEF NeedsFormat
      <4> QED
        BY <2>1, <2>2, <3>1, <3>2, <3>3, <4>1
    <3>5. CASE solution' # 1
      <4>1. solution > 0 /\ NumSolutions > 1 /\ currentVersion \in Versions
        BY <2>1, <2>2, <3>5 DEF Framework
      <4>2. lastVersion' = currentVersion
        BY <2>2, <3>1, <4>1 DEF LastVersion
      <4>3. forceFormat' <=> currentVersion' # currentVersion
        BY <3>1, <3>5, <4>1, <4>2, EvaluationAssumption DEF NeedsFormat
      <4>4. Hdfs /\ Renewed /\ formatOwed = "no" => storage.version = currentVersion
        BY <2>1, <4>1
      <4>5. OneVersion => currentVersion' = currentVersion
        BY <2>1, <2>2, <3>2, <4>1 DEF OneVersion
      <4> QED
        BY <2>1, <2>2, <3>1, <3>2, <3>3, <4>3, <4>4, <4>5
    <3> QED
      BY <3>4, <3>5
  <2> QED
    BY <2>3, <2>4
<1>4. CASE FinishBDEv
  BY <1>4 DEF FinishBDEv, CleanupData
<1>5. CASE Boot
  BY <1>5 DEF Boot, ExitChild, HistoryTypeOK
<1>6. ASSUME NEW way \in StartWays, Start(way) PROVE FormatInv'
  <2>1. /\ UNCHANGED <<config, main, cluster, solution, currentVersion, forceDelete,
                       forceFormat>>
        /\ child = "start" /\ child' \in {"safemode", "deploy"}
    BY <1>6 DEF Start
  <2>2. CASE Formats
    <3>1. way = "made" \/ formatOwed' # "no"
      BY <1>6, <2>2 DEF Start, Owed
    <3>2. way = "made" => storage'.version = currentVersion
      BY <1>6, <2>2 DEF Start, Formatted, EmptyStorage
    <3>3. formatOwed' = "no" => storage'.version = currentVersion
      BY <3>1, <3>2
    <3> QED
      BY <2>1, <3>3
  <2>3. CASE ~Formats
    <3>1. storage' = storage /\ formatOwed' = formatOwed
      BY <1>6, <2>3 DEF Start
    <3> QED
      BY <2>1, <2>3, <3>1 DEF Formats
  <2> QED
    BY <2>2, <2>3
<1>7. CASE Deploy
  BY <1>7 DEF Deploy, ExitChild
<1>8. CASE Configure
  BY <1>8 DEF Configure, ExitChild
<1>9. CASE Prepare
  BY <1>9 DEF Prepare, ClusterTypeOK, Storages
<1>10. CASE NextBenchmark
  BY <1>10 DEF NextBenchmark
<1>11. CASE NextExecution
  BY <1>11 DEF NextExecution
<1>12. CASE EndExecution
  BY <1>12 DEF EndExecution
<1>13. CASE EndExecutions
  BY <1>13 DEF EndExecutions
<1>14. CASE WriteReport
  BY <1>14 DEF WriteReport
<1>15. CASE FinishChild
  BY <1>15 DEF FinishChild
<1>16. CASE LeaveSafeMode
  BY <1>16 DEF LeaveSafeMode
<1>17. ASSUME NEW outcome \in Outcomes, RunBenchmark(outcome) PROVE FormatInv'
  BY <1>17 DEF RunBenchmark
<1>18. CASE UNCHANGED vars
  BY <1>18 DEF vars
<1> QED
  BY <1>1, <1>2, <1>3, <1>4, <1>5, <1>6, <1>7, <1>8, <1>9, <1>10, <1>11,
     <1>12, <1>13, <1>14, <1>15, <1>16, <1>17, <1>18
     DEF Next, Driver, Child, Workload, Terminated

\* HDFS and YARN start and stop together.
LEMMA HdfsNext ==
  ASSUME ControlInv, HdfsInv, [Next]_vars
  PROVE  HdfsInv'
<1> USE DEF mainVars, loopVars, clusterVars, historyVars, HdfsInv, Hdfs,
            NameNodeAccepts
<1>1. CASE Driver
  BY <1>1 DEF Driver, InitBDEv, NextCluster, NextSolution, FinishBDEv, LaunchChild,
     ControlInv
<1>2. CASE Boot
  BY <1>2 DEF Boot, ExitChild, CleanupProcesses
<1>3. ASSUME NEW way \in StartWays, Start(way) PROVE HdfsInv'
  BY <1>3 DEF Start
<1>4. CASE Deploy
  BY <1>4 DEF Deploy, ExitChild, CleanupProcesses
<1>5. CASE Configure \/ Prepare \/ FinishChild
  BY <1>5 DEF Configure, Prepare, FinishChild, ExitChild
<1>6. CASE NextBenchmark \/ NextExecution \/ EndExecution \/ EndExecutions
           \/ WriteReport
  BY <1>6 DEF NextBenchmark, NextExecution, EndExecution, EndExecutions, WriteReport
<1>7. CASE LeaveSafeMode
  BY <1>7 DEF LeaveSafeMode
<1>8. CASE Workload
  BY <1>8 DEF Workload, RunBenchmark
<1>9. CASE UNCHANGED vars
  BY <1>9 DEF vars
<1> QED
  BY <1>1, <1>2, <1>3, <1>4, <1>5, <1>6, <1>7, <1>8, <1>9
     DEF Next, Child, Terminated

\* What prepare.sh leaves on the storage.
LEMMA InputsNext ==
  ASSUME TypeOK, ControlInv, FormatInv, InputsInv, [Next]_vars
  PROVE  InputsInv'
<1> USE ConstantTypes
<1> USE DEF mainVars, loopVars, clusterVars, historyVars, InputsInv, Hdfs,
            Renewed, ControlInv, TypeOK, DriverTypeOK
<1>1. CASE InitBDEv
  BY <1>1 DEF InitBDEv
<1>2. CASE NextCluster
  <2> SUFFICES ASSUME ~NoFramework, ~genFailed' PROVE InputsInv'
    BY DEF InputsInv
  <2>1. /\ forceDelete' = DeleteBeforeVisits /\ CleanupData(forceDelete')
        /\ config' = config /\ UNCHANGED child /\ child = "none"
        /\ genFailed' = (genFailed /\ ~(Hdfs /\ forceDelete'))
    BY <1>2 DEF NextCluster
  <2>2. forceDelete' <=> Renewed
    BY <2>1 DEF DeleteBeforeVisits
  <2>3. CASE Hdfs /\ forceDelete'
    <3>1. \A b \in InputBenchmarks : storage'.inputs[b] = "absent"
      BY <2>1, <2>3 DEF CleanupData, EmptyStorage
    <3> QED
      BY <2>1, <3>1
  <2>4. CASE ~(Hdfs /\ forceDelete')
    <3>1. storage' = storage /\ ~genFailed
      BY <2>1, <2>4 DEF CleanupData
    <3> QED
      BY <2>1, <2>2, <2>4, <3>1
  <2> QED
    BY <2>3, <2>4
<1>3. CASE NextSolution
  BY <1>3 DEF NextSolution, LaunchChild, Exit
<1>4. CASE FinishBDEv
  BY <1>4 DEF FinishBDEv, CleanupData, EmptyStorage
<1>5. CASE Boot
  BY <1>5 DEF Boot, ExitChild
<1>6. ASSUME NEW way \in StartWays, Start(way) PROVE InputsInv'
  BY <1>6 DEF Start, Formats, Formatted, EmptyStorage
<1>7. CASE Deploy
  BY <1>7 DEF Deploy, ExitChild
<1>8. CASE Configure
  BY <1>8 DEF Configure, ExitChild
<1>9. CASE Prepare
  <2> SUFFICES ASSUME ~NoFramework, ~genFailed' PROVE InputsInv'
    BY DEF InputsInv
  <2> DEFINE missing == ToGenerate(GenFlags, Existing)
             able    == Reachable /\ "yarn" \in daemons
  <2>1. PICK made \in [missing -> IF able THEN {"complete", "partial", "absent"}
                                         ELSE {"absent"}] :
          /\ storage' = [storage EXCEPT !.inputs =
                           [b \in InputBenchmarks |->
                              IF b \in missing /\ Reachable THEN made[b]
                              ELSE storage.inputs[b]]]
          /\ genFailed' = (genFailed \/ \E b \in missing : made[b] # "complete")
    BY <1>9 DEF Prepare
  <2>2. ~genFailed /\ \A b \in missing : made[b] = "complete"
    BY <2>1
  <2>3. missing \in SUBSET InputBenchmarks
    BY DEF ToGenerate, GenFlags, Gen
  <2>4. missing # {} => Reachable
    BY <2>1, <2>2
  <2>5. \A b \in InputBenchmarks :
          storage'.inputs[b] = IF b \in missing THEN "complete" ELSE storage.inputs[b]
    <3>1. storage'.inputs = [b \in InputBenchmarks |->
                               IF b \in missing /\ Reachable THEN made[b]
                               ELSE storage.inputs[b]]
      BY <2>1 DEF ClusterTypeOK, Storages
    <3> QED
      BY <2>2, <2>4, <3>1
  <2>6. \A b \in GenFlags :
          Donor(GenFlags, b) = b /\ b \notin missing => storage.inputs[b] # "absent"
    BY DEF ToGenerate, Existing, GenFlags, Gen
  <2>7. GenFlags \in SUBSET InputBenchmarks
    BY DEF GenFlags, Gen
  <2>8. config' = config /\ cluster' = cluster
    BY <1>9 DEF Prepare
  <2> HIDE DEF missing
  <2> QED
    BY <2>2, <2>5, <2>6, <2>7, <2>8
<1>10. CASE NextBenchmark
  BY <1>10 DEF NextBenchmark
<1>11. CASE NextExecution
  BY <1>11 DEF NextExecution
<1>12. CASE EndExecution
  BY <1>12 DEF EndExecution
<1>13. CASE EndExecutions
  BY <1>13 DEF EndExecutions
<1>14. CASE WriteReport
  BY <1>14 DEF WriteReport
<1>15. CASE FinishChild
  BY <1>15 DEF FinishChild
<1>16. CASE LeaveSafeMode
  BY <1>16 DEF LeaveSafeMode
<1>17. ASSUME NEW outcome \in Outcomes, RunBenchmark(outcome) PROVE InputsInv'
  BY <1>17 DEF RunBenchmark
<1>18. CASE UNCHANGED vars
  BY <1>18 DEF vars
<1> QED
  BY <1>1, <1>2, <1>3, <1>4, <1>5, <1>6, <1>7, <1>8, <1>9, <1>10, <1>11,
     <1>12, <1>13, <1>14, <1>15, <1>16, <1>17, <1>18
     DEF Next, Driver, Child, Workload, Terminated

-----------------------------------------------------------------------------
LEMMA SafetyInit == Init => SafetyInv
<1> SUFFICES ASSUME Init PROVE SafetyInv
  OBVIOUS
<1>1. TypeOK
  BY InitTypeOK
<1>2. ControlInv /\ CleanInv /\ AloneInv /\ FormatInv
  BY ConstantTypes DEF Init, ControlInv, CleanInv, AloneInv, FormatInv, Running
<1>3. HdfsInv /\ InputsInv
  BY DEF Init, HdfsInv, InputsInv
<1> QED
  BY <1>1, <1>2, <1>3 DEF SafetyInv

LEMMA SafetyNext == SafetyInv /\ [Next]_vars => SafetyInv'
BY NextTypeOK, ControlNext, CleanNext, AloneNext, FormatNext, HdfsNext,
   InputsNext DEF SafetyInv

\* SafetyInv is an invariant.
THEOREM SafetyInvariant == Spec => []SafetyInv
BY SafetyInit, SafetyNext, PTL DEF Spec

\* Nothing of an earlier visit runs when a framework is launched.
THEOREM CleanSlateHolds == Spec => []CleanSlate
<1>1. SafetyInv => CleanSlate
  BY DEF SafetyInv, CleanInv, CleanSlate
<1> QED
  BY <1>1, SafetyInvariant, PTL

\* No execution starts beside an orphan, nor beside YARN if it is not wanted.
THEOREM WorkloadAloneHolds == Spec => []WorkloadAlone
<1>1. SafetyInv => WorkloadAlone
  BY DEF SafetyInv, ControlInv, AloneInv, WorkloadAlone
<1> QED
  BY <1>1, SafetyInvariant, PTL

\* A framework starts on a disk of its own version, unless a format was lost.
THEOREM FormattedForVersionHolds == Spec => []FormattedForVersion
<1>1. SafetyInv => FormattedForVersion
  BY DEF SafetyInv, ControlInv, FormatInv, FormattedForVersion, Running
<1> QED
  BY <1>1, SafetyInvariant, PTL

\* With FORMAT_HDFS and one cluster size a framework finds HDFS up, unless a format
\* failed or was skipped: by a visit that ended before its start, or by a start
\* that could not copy the scheduler files.
THEOREM FormattedUnlessSkippedHolds == Spec => []FormattedUnlessSkipped
<1>1. SafetyInv => FormattedUnlessSkipped
  <2> SUFFICES ASSUME SafetyInv, child = "configure", Hdfs, config.FORMAT_HDFS,
                      "yarn" \in daemons, formatOwed \notin {"skipped", "failed"}
               PROVE  "hdfs" \in daemons
    BY DEF FormattedUnlessSkipped, FormattedIfAsked
  <2>1. formatOwed = "no"
    BY DEF SafetyInv, TypeOK, HistoryTypeOK
  <2>2. ~NoFramework /\ Running /\ cluster > 0 /\ solution > 0
    BY DEF SafetyInv, ControlInv, Running
  <2>3. storage.version = currentVersion
    BY <2>1, <2>2 DEF SafetyInv, FormatInv, Renewed
  <2> QED
    BY <2>3 DEF SafetyInv, HdfsInv, NameNodeAccepts
<1> QED
  BY <1>1, SafetyInvariant, PTL

\* A running workload finds its whole input.
THEOREM InputsReadyHolds == Spec => []InputsReady
<1>1. SafetyInv => InputsReady
  <2> SUFFICES ASSUME SafetyInv, child = "calls", ~genFailed,
                      ThisBenchmark \in GenFlags
               PROVE  InputsReady
    BY DEF InputsReady
  <2> DEFINE input == InputDir(GenFlags, ThisBenchmark)
  <2>1. GenFlags \in SUBSET InputBenchmarks
    BY DEF GenFlags, Gen
  <2>2. /\ input \in GenFlags /\ Donor(GenFlags, input) = input
        /\ DataSize[input] = DataSize[ThisBenchmark]
    BY <2>1, ReuseSound
  <2>3. ~NoFramework
    <3>1. NoFramework => GenFlags = {}
      BY DEF GenFlags, Gen, BenchmarkList, InputBenchmarks
    <3> QED
      BY <3>1, <2>2
  <2>4. cluster > 0
    BY DEF SafetyInv, ControlInv
  <2>5. storage.inputs[input] \in InputStates
    BY <2>1, <2>2 DEF SafetyInv, TypeOK, ClusterTypeOK, Storages
  <2>6. /\ storage.inputs[input] # "partial"
        /\ storage.inputs[input] # "absent"
        /\ Hdfs /\ Renewed => storage.inputs[input] # "stale"
    BY <2>1, <2>2, <2>3, <2>4 DEF SafetyInv, InputsInv
  <2> QED
    BY <2>2, <2>5, <2>6 DEF InputsReady, InputStates
<1> QED
  BY <1>1, SafetyInvariant, PTL

\* A storage that is to be kept is kept, by every step.
THEOREM DataKeptHolds == Spec => DataKept
<1> DEFINE Kept ==
      ~Renewed /\ OneVersion
        => /\ storage'.version = storage.version
           /\ \A b \in InputBenchmarks :
                storage.inputs[b] # "absent" => storage'.inputs[b] = storage.inputs[b]
<1>1. SafetyInv /\ [Next]_vars => [Kept]_vars
  <2> SUFFICES ASSUME SafetyInv, Next, ~Renewed, OneVersion PROVE Kept
    BY DEF vars
  <2> USE DEF clusterVars, Renewed
  <2>1. CASE storage' = storage
    BY <2>1
  <2>2. CASE NextCluster
    <3>1. ~(Hdfs /\ DeleteBeforeVisits)
      BY DEF DeleteBeforeVisits
    <3> QED
      BY <2>2, <3>1 DEF NextCluster, CleanupData
  <2>3. CASE FinishBDEv
    <3>1. ~(Hdfs /\ DeleteAtEnd)
      BY DEF DeleteAtEnd
    <3> QED
      BY <2>3, <3>1 DEF FinishBDEv, CleanupData
  <2>4. ASSUME NEW way \in StartWays, Start(way) PROVE Kept
    <3>1. ~forceFormat
      BY <2>4 DEF Start, SafetyInv, ControlInv, FormatInv
    <3> QED
      BY <2>4, <3>1 DEF Start, Formats
  <2>5. CASE Prepare
    <3> DEFINE missing == ToGenerate(GenFlags, Existing)
    <3>1. PICK made :
            storage' = [storage EXCEPT !.inputs =
                          [b \in InputBenchmarks |->
                             IF b \in missing /\ Reachable THEN made[b]
                             ELSE storage.inputs[b]]]
      BY <2>5 DEF Prepare
    <3>2. \A b \in InputBenchmarks :
            Reachable /\ storage.inputs[b] # "absent" => b \notin missing
      BY DEF ToGenerate, Existing
    <3>3. storage \in Storages
      BY DEF SafetyInv, TypeOK, ClusterTypeOK
    <3> HIDE DEF missing
    <3> QED
      BY <3>1, <3>2, <3>3 DEF Storages
  <2>6. Next => \/ storage' = storage \/ NextCluster \/ FinishBDEv \/ Prepare
                \/ \E way \in StartWays : Start(way)
    BY DEF Next, Driver, Child, Workload, Terminated, vars, InitBDEv, NextSolution,
           Boot, Deploy, Configure, NextBenchmark, NextExecution, EndExecution,
           EndExecutions, WriteReport, FinishChild, LeaveSafeMode, RunBenchmark
  <2> QED
    BY <2>1, <2>2, <2>3, <2>4, <2>5, <2>6
<1> QED
  BY <1>1, SafetyInvariant, PTL DEF Spec, DataKept

=============================================================================
