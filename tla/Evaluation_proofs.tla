------------------------- MODULE Evaluation_proofs -------------------------
(***************************************************************************)
(* Proofs about Inputs and Evaluation, for all host lists, frameworks,     *)
(* workloads, sizes and numbers of executions.                             *)
(***************************************************************************)
EXTENDS Evaluation, SequenceTheorems, TLAPS

-----------------------------------------------------------------------------
(***************************************************************************)
(* The redirections of prepare.sh (Inputs).                                *)
(***************************************************************************)
\* Workloads that never borrow, that borrow from those, and that may borrow from
\* a borrower.
Owners  == {"wordcount", "terasort", "tpcx_hs", "pagerank", "kmeans", "bayes",
            "aggregation"}
Direct  == {"sort", "connected_components", "join"}
Nested  == {"grep", "scan"}

\* A workload with one candidate donor, or with two.
LEMMA DonorsOf ==
  /\ InputBenchmarks = Owners \union Direct \union Nested
  /\ \A b \in Owners : DOMAIN Donors(b) = {}
  /\ \A b \in Direct : DOMAIN Donors(b) = {1} /\ Donors(b)[1] \in Owners
  /\ \A b \in Nested : /\ DOMAIN Donors(b) = {1, 2}
                       /\ Donors(b)[1] \in Owners /\ Donors(b)[2] \in Direct
BY DEF InputBenchmarks, Owners, Direct, Nested, Donors

\* The donor is the workload itself or a usable candidate.
LEMMA DonorCases ==
  ASSUME NEW gen, NEW b \in InputBenchmarks
  PROVE  \/ Donor(gen, b) = b
         \/ \E k \in DOMAIN Donors(b) :
              /\ Donor(gen, b) = Donors(b)[k]
              /\ Usable(gen, b, Donors(b)[k])
<1> DEFINE usable == {k \in DOMAIN Donors(b) : Usable(gen, b, Donors(b)[k])}
<1>1. DOMAIN Donors(b) \subseteq {1, 2}
  BY DonorsOf
<1>2. CASE usable = {}
  BY <1>2 DEF Donor
<1>3. CASE usable # {}
  <2>1. \E k \in usable : \A j \in usable : k <= j
    BY <1>1, <1>3
  <2> DEFINE first == CHOOSE k \in usable : \A j \in usable : k <= j
  <2>2. first \in usable
    BY <2>1
  <2>3. Donor(gen, b) = Donors(b)[first]
    BY <1>3 DEF Donor
  <2> HIDE DEF first
  <2> QED
    BY <2>2, <2>3
<1> QED
  BY <1>2, <1>3

\* A donor is one of the workloads to generate, asks for the same size, and is
\* its own donor, or is redirected once more to one that is.
LEMMA DonorSound ==
  ASSUME NEW gen \in SUBSET InputBenchmarks, NEW b \in gen
  PROVE  /\ Donor(gen, b) \in gen
         /\ DataSize[Donor(gen, b)] = DataSize[b]
         /\ b \in Owners => Donor(gen, b) = b
         /\ b \in Direct => Donor(gen, b) \in Owners \union {b}
         /\ b \in Nested => Donor(gen, b) \in Owners \union Direct \union {b}
<1>1. b \in InputBenchmarks
  OBVIOUS
<1>2. CASE Donor(gen, b) = b
  BY <1>2
<1>3. CASE \E k \in DOMAIN Donors(b) : /\ Donor(gen, b) = Donors(b)[k]
                                       /\ Usable(gen, b, Donors(b)[k])
  BY <1>3, <1>1, DonorsOf DEF Usable
<1> QED
  BY <1>1, <1>2, <1>3, DonorCases

\* Wherever a workload is redirected, the directory belongs to a workload that
\* prepare.sh does generate, for itself, and of the size asked for.
THEOREM ReuseSound ==
  ASSUME NEW gen \in SUBSET InputBenchmarks, NEW b \in gen
  PROVE  /\ InputDir(gen, b) \in gen
         /\ DataSize[InputDir(gen, b)] = DataSize[b]
         /\ Donor(gen, InputDir(gen, b)) = InputDir(gen, b)
<1> DEFINE d == Donor(gen, b)
           e == Donor(gen, d)
<1>1. /\ d \in gen /\ DataSize[d] = DataSize[b]
      /\ b \in Owners => d = b
      /\ b \in Direct => d \in Owners \union {b}
      /\ b \in Nested => d \in Owners \union Direct \union {b}
  BY DonorSound
<1>2. /\ e \in gen /\ DataSize[e] = DataSize[d]
      /\ d \in Owners => e = d
      /\ d \in Direct => e \in Owners \union {d}
  BY <1>1, DonorSound
<1>3. e \in Owners => Donor(gen, e) = e
  BY <1>2, DonorSound
<1>4. e = d \/ e \in Owners
  BY <1>1, <1>2, DonorsOf
<1>5. Donor(gen, e) = e
  BY <1>3, <1>4
<1> QED
  BY <1>1, <1>2, <1>5 DEF InputDir

-----------------------------------------------------------------------------
(***************************************************************************)
(* The types of Evaluation.                                                *)
(***************************************************************************)

\* What the assumptions say of the derived constants.
LEMMA ConstantTypes ==
  /\ NumClusters \in Nat /\ NumSolutions \in Nat
  /\ Executions \in Nat \ {0}
  /\ BenchmarkList \in Seq(BenchmarkNames)
  /\ Len(BenchmarkList) \in Nat \ {0}
  /\ \A k \in 1 .. NumSolutions : Solutions[k] \in Framework
<1>1. <<"command">> \in Seq(BenchmarkNames) /\ Len(<<"command">>) = 1
  BY DEF BenchmarkNames
<1>2. BenchmarkList \in Seq(BenchmarkNames) /\ Len(BenchmarkList) \in Nat \ {0}
  BY <1>1, EvaluationAssumption DEF BenchmarkList
<1> QED
  BY <1>2, EvaluationAssumption DEF NumClusters, NumSolutions, Executions

\* The storage of an HDFS that was formatted, or deleted.
LEMMA EmptyStorageType ==
  ASSUME NEW v \in Versions \union {Null}
  PROVE  EmptyStorage(v) \in Storages
BY DEF EmptyStorage, Storages, InputStates

LEMMA DecisionTypes ==
  ASSUME TypeOK, NEW n, NEW v, NEW w
  PROVE  /\ DeleteBeforeVisits \in BOOLEAN /\ DeleteAtEnd \in BOOLEAN
         /\ NeedsFormat(n, v, w) \in BOOLEAN
         /\ Hdfs \in BOOLEAN
         /\ LastVersion(n) \in Versions \union {Null}
BY DEF TypeOK, DriverTypeOK, Configs, DeleteBeforeVisits, DeleteAtEnd,
   NeedsFormat, Hdfs, LastVersion

LEMMA LaunchChildType == LaunchChild => ChildTypeOK'
<1> SUFFICES ASSUME LaunchChild PROVE ChildTypeOK'
  OBVIOUS
<1>1. times' \in Seq(Outcomes)
  BY EmptySeq DEF LaunchChild
<1>2. bench' \in 0 .. Len(BenchmarkList) /\ exec' \in 1 .. Executions + 1
  BY ConstantTypes DEF LaunchChild
<1>3. finish' \in BOOLEAN /\ call' \in Nat /\ child' \in ChildStates
  BY DEF LaunchChild, ChildStates
<1> QED
  BY <1>1, <1>2, <1>3 DEF ChildTypeOK

-----------------------------------------------------------------------------
LEMMA InitTypeOK == Init => TypeOK
<1> SUFFICES ASSUME Init PROVE TypeOK
  OBVIOUS
<1>1. PICK version \in Versions \union {Null}, left \in SUBSET GenFlags :
        storage = [version |-> version,
                   inputs  |-> [b \in InputBenchmarks |->
                                  IF b \in left THEN "stale" ELSE "absent"]]
  BY DEF Init
<1>2. storage \in Storages
  BY <1>1 DEF Storages, InputStates
<1>3. DriverTypeOK
  <2>1. config \in Configs /\ main \in MainStates
    BY DEF Init, MainStates
  <2>2. cluster \in 0 .. NumClusters /\ solution \in 0 .. NumSolutions
    BY ConstantTypes DEF Init
  <2>3. /\ lastVersion \in Versions \union {Null}
        /\ currentVersion \in Versions \union {Null}
        /\ forceDelete \in BOOLEAN /\ forceFormat \in BOOLEAN
    BY DEF Init
  <2> QED
    BY <2>1, <2>2, <2>3 DEF DriverTypeOK
<1>4. ChildTypeOK
  <2>1. child \in ChildStates /\ call \in Nat /\ finish \in BOOLEAN
    BY DEF Init, ChildStates
  <2>2. bench \in 0 .. Len(BenchmarkList) /\ exec \in 1 .. Executions + 1
    BY ConstantTypes DEF Init
  <2>3. times \in Seq(Outcomes)
    BY EmptySeq DEF Init
  <2> QED
    BY <2>1, <2>2, <2>3 DEF ChildTypeOK
<1>5. ClusterTypeOK /\ HistoryTypeOK
  BY <1>2, EmptySeq DEF Init, ClusterTypeOK, HistoryTypeOK
<1> QED
  BY <1>3, <1>4, <1>5 DEF TypeOK

LEMMA NextTypeOK == TypeOK /\ [Next]_vars => TypeOK'
<1> SUFFICES ASSUME TypeOK, [Next]_vars PROVE TypeOK'
  OBVIOUS
<1> USE ConstantTypes
<1> USE DEF mainVars, loopVars, clusterVars, historyVars, TypeOK
<1>1. CASE InitBDEv
  <2>1. DriverTypeOK'
    BY <1>1 DEF InitBDEv, DriverTypeOK, MainStates
  <2>2. ChildTypeOK'
    BY <1>1 DEF InitBDEv, ChildTypeOK
  <2>3. ClusterTypeOK'
    BY <1>1 DEF InitBDEv, ClusterTypeOK, CleanupProcesses
  <2>4. HistoryTypeOK'
    BY <1>1, EmptySeq DEF InitBDEv, HistoryTypeOK
  <2> QED
    BY <2>1, <2>2, <2>3, <2>4
<1>2. CASE NextCluster
  <2>1. DriverTypeOK'
    BY <1>2, DecisionTypes DEF NextCluster, DriverTypeOK, LaunchChild, MainStates
  <2>2. ChildTypeOK'
    BY <1>2, LaunchChildType DEF NextCluster, ChildTypeOK
  <2>3. ClusterTypeOK'
    BY <1>2, EmptyStorageType DEF NextCluster, ClusterTypeOK, CleanupData
  <2>4. HistoryTypeOK'
    BY <1>2, DecisionTypes DEF NextCluster, HistoryTypeOK
  <2> QED
    BY <2>1, <2>2, <2>3, <2>4
<1>3. CASE NextSolution
  <2>1. DriverTypeOK'
    BY <1>3, DecisionTypes DEF NextSolution, DriverTypeOK, LaunchChild, Exit,
       MainStates, Framework
  <2>2. ChildTypeOK'
    BY <1>3, LaunchChildType DEF NextSolution, ChildTypeOK
  <2>3. ClusterTypeOK'
    BY <1>3 DEF NextSolution, ClusterTypeOK, Exit, CleanupProcesses
  <2>4. HistoryTypeOK'
    BY <1>3 DEF NextSolution, HistoryTypeOK
  <2> QED
    BY <2>1, <2>2, <2>3, <2>4
<1>4. CASE FinishBDEv
  <2>1. DriverTypeOK'
    BY <1>4, DecisionTypes DEF FinishBDEv, DriverTypeOK, MainStates
  <2>2. ChildTypeOK'
    BY <1>4 DEF FinishBDEv, ChildTypeOK
  <2>3. ClusterTypeOK'
    BY <1>4, EmptyStorageType DEF FinishBDEv, ClusterTypeOK, CleanupData
  <2>4. HistoryTypeOK'
    BY <1>4 DEF FinishBDEv, HistoryTypeOK
  <2> QED
    BY <2>1, <2>2, <2>3, <2>4
<1>5. CASE Boot
  <2>1. DriverTypeOK'
    BY <1>5 DEF Boot, DriverTypeOK, ExitChild, MainStates
  <2>2. ChildTypeOK'
    BY <1>5 DEF Boot, ChildTypeOK, ExitChild, ChildStates
  <2>3. ClusterTypeOK'
    BY <1>5 DEF Boot, ClusterTypeOK, ExitChild, CleanupProcesses
  <2>4. HistoryTypeOK'
    BY <1>5, DecisionTypes DEF Boot, HistoryTypeOK, ExitChild, ThisVisit, Visit,
       DriverTypeOK
  <2> QED
    BY <2>1, <2>2, <2>3, <2>4
<1>6. ASSUME NEW way \in StartWays, Start(way) PROVE TypeOK'
  <2>1. DriverTypeOK'
    BY <1>6 DEF Start, DriverTypeOK
  <2>2. ChildTypeOK'
    BY <1>6 DEF Start, ChildTypeOK, ChildStates
  <2>3. ClusterTypeOK'
    BY <1>6, EmptyStorageType DEF Start, Formats, Formatted, ClusterTypeOK, Daemons,
       DriverTypeOK
  <2>4. HistoryTypeOK'
    BY <1>6, DecisionTypes DEF Start, Owed, HistoryTypeOK, DriverTypeOK
  <2> QED
    BY <2>1, <2>2, <2>3, <2>4
<1>7. CASE Deploy
  <2>1. DriverTypeOK'
    BY <1>7 DEF Deploy, DriverTypeOK, ExitChild, MainStates
  <2>2. ChildTypeOK'
    BY <1>7 DEF Deploy, ChildTypeOK, ExitChild, ChildStates
  <2>3. ClusterTypeOK'
    BY <1>7 DEF Deploy, ClusterTypeOK, ExitChild, CleanupProcesses, Daemons
  <2>4. HistoryTypeOK'
    BY <1>7 DEF Deploy, HistoryTypeOK, ExitChild, ThisVisit, Visit, DriverTypeOK
  <2> QED
    BY <2>1, <2>2, <2>3, <2>4
<1>8. CASE Configure
  <2>1. DriverTypeOK'
    BY <1>8 DEF Configure, DriverTypeOK, ExitChild, MainStates
  <2>2. ChildTypeOK'
    BY <1>8 DEF Configure, ChildTypeOK, ExitChild, ChildStates
  <2>3. ClusterTypeOK'
    BY <1>8 DEF Configure, ClusterTypeOK, ExitChild, CleanupProcesses
  <2>4. HistoryTypeOK'
    BY <1>8 DEF Configure, HistoryTypeOK, ExitChild, ThisVisit, Visit, DriverTypeOK
  <2> QED
    BY <2>1, <2>2, <2>3, <2>4
<1>9. CASE Prepare
  <2>1. DriverTypeOK'
    BY <1>9 DEF Prepare, DriverTypeOK
  <2>2. ChildTypeOK'
    BY <1>9 DEF Prepare, ChildTypeOK, ChildStates
  <2>3. ClusterTypeOK'
    BY <1>9 DEF Prepare, ClusterTypeOK, AfterPrepare, Storages, InputStates
  <2>4. HistoryTypeOK'
    BY <1>9 DEF Prepare, HistoryTypeOK
  <2> QED
    BY <2>1, <2>2, <2>3, <2>4
<1>10. CASE NextBenchmark
  <2>1. DriverTypeOK'
    BY <1>10 DEF NextBenchmark, DriverTypeOK
  <2>2. ChildTypeOK'
    BY <1>10, EmptySeq DEF NextBenchmark, ChildTypeOK, ChildStates
  <2>3. ClusterTypeOK'
    BY <1>10 DEF NextBenchmark, ClusterTypeOK
  <2>4. HistoryTypeOK'
    BY <1>10 DEF NextBenchmark, HistoryTypeOK
  <2> QED
    BY <2>1, <2>2, <2>3, <2>4
<1>11. CASE NextExecution
  <2>1. DriverTypeOK'
    BY <1>11 DEF NextExecution, DriverTypeOK
  <2>2. ChildTypeOK'
    BY <1>11 DEF NextExecution, ChildTypeOK, MoreExecutions, ChildStates
  <2>3. ClusterTypeOK'
    BY <1>11 DEF NextExecution, ClusterTypeOK
  <2>4. HistoryTypeOK'
    BY <1>11 DEF NextExecution, HistoryTypeOK
  <2> QED
    BY <2>1, <2>2, <2>3, <2>4
<1>12. CASE EndExecution
  <2>1. DriverTypeOK'
    BY <1>12 DEF EndExecution, DriverTypeOK
  <2>2. ChildTypeOK'
    BY <1>12 DEF EndExecution, ChildTypeOK, ChildStates
  <2>3. ClusterTypeOK'
    BY <1>12 DEF EndExecution, ClusterTypeOK
  <2>4. HistoryTypeOK'
    BY <1>12 DEF EndExecution, HistoryTypeOK
  <2> QED
    BY <2>1, <2>2, <2>3, <2>4
<1>13. CASE EndExecutions
  <2>1. DriverTypeOK'
    BY <1>13 DEF EndExecutions, DriverTypeOK
  <2>2. ChildTypeOK'
    BY <1>13 DEF EndExecutions, ChildTypeOK, ChildStates
  <2>3. ClusterTypeOK'
    BY <1>13 DEF EndExecutions, ClusterTypeOK
  <2>4. HistoryTypeOK'
    BY <1>13 DEF EndExecutions, HistoryTypeOK
  <2> QED
    BY <2>1, <2>2, <2>3, <2>4
<1>14. CASE WriteReport
  <2>1. DriverTypeOK'
    BY <1>14 DEF WriteReport, DriverTypeOK
  <2>2. ChildTypeOK'
    BY <1>14 DEF WriteReport, ChildTypeOK, ChildStates
  <2>3. ClusterTypeOK'
    BY <1>14 DEF WriteReport, ClusterTypeOK
  <2>4. HistoryTypeOK'
    BY <1>14 DEF WriteReport, HistoryTypeOK, ThisVisit, Visit, Line,
       DriverTypeOK, ChildTypeOK
  <2> QED
    BY <2>1, <2>2, <2>3, <2>4
<1>15. CASE FinishChild
  <2>1. DriverTypeOK'
    BY <1>15 DEF FinishChild, DriverTypeOK, MainStates
  <2>2. ChildTypeOK'
    BY <1>15 DEF FinishChild, ChildTypeOK, ChildStates
  <2>3. ClusterTypeOK'
    BY <1>15 DEF FinishChild, ClusterTypeOK, CleanupProcesses
  <2>4. HistoryTypeOK'
    BY <1>15 DEF FinishChild, HistoryTypeOK
  <2> QED
    BY <2>1, <2>2, <2>3, <2>4
<1>16. CASE LeaveSafeMode
  <2>1. DriverTypeOK'
    BY <1>16 DEF LeaveSafeMode, DriverTypeOK
  <2>2. ChildTypeOK'
    BY <1>16 DEF LeaveSafeMode, ChildTypeOK, ChildStates
  <2>3. ClusterTypeOK'
    BY <1>16 DEF LeaveSafeMode, ClusterTypeOK
  <2>4. HistoryTypeOK'
    BY <1>16 DEF LeaveSafeMode, HistoryTypeOK
  <2> QED
    BY <2>1, <2>2, <2>3, <2>4
<1>17. ASSUME NEW outcome \in Outcomes, RunBenchmark(outcome) PROVE TypeOK'
  <2>1. DriverTypeOK'
    BY <1>17 DEF RunBenchmark, DriverTypeOK
  <2>2. ChildTypeOK'
    BY <1>17 DEF RunBenchmark, Saved, ChildTypeOK, Finishes, Outcomes
  <2>3. ClusterTypeOK'
    BY <1>17 DEF RunBenchmark, ClusterTypeOK
  <2>4. HistoryTypeOK'
    BY <1>17 DEF RunBenchmark, HistoryTypeOK
  <2> QED
    BY <2>1, <2>2, <2>3, <2>4
<1>18. CASE UNCHANGED vars
  BY <1>18 DEF vars, DriverTypeOK, ChildTypeOK, ClusterTypeOK, HistoryTypeOK
<1> QED
  BY <1>1, <1>2, <1>3, <1>4, <1>5, <1>6, <1>7, <1>8, <1>9, <1>10, <1>11,
     <1>12, <1>13, <1>14, <1>15, <1>16, <1>17, <1>18
     DEF Next, Driver, Child, Workload, Terminated

\* Every variable keeps its type in every evaluation.
THEOREM TypeCorrect == Spec => []TypeOK
BY InitTypeOK, NextTypeOK, PTL DEF Spec

=============================================================================
