-------------------- MODULE EvaluationRefinement_proofs --------------------
(***************************************************************************)
(* Evaluation implements Campaign: whatever fails, the report of run.sh is *)
(* one that Campaign allows.                                               *)
(***************************************************************************)
EXTENDS EvaluationSafety_proofs, WellFoundedInduction

\* The arithmetic behind Launched.
LEMMA Products ==
  ASSUME NEW c \in Nat, NEW m \in Nat, NEW n \in Nat, c <= m
  PROVE  /\ c * n \in Nat /\ c * n <= m * n
         /\ c > 0 => (c - 1) * n \in Nat /\ (c - 1) * n + n = c * n
<1>1. c * n \in Nat /\ (c > 0 => (c - 1) * n \in Nat)
  OBVIOUS
<1>2. c > 0 => (c - 1) * n + n = c * n
  OBVIOUS
<1>3. c * n <= m * n
  OBVIOUS
<1> QED
  BY <1>1, <1>2, <1>3

-----------------------------------------------------------------------------
(***************************************************************************)
(* FINISH and the results of a workload.                                   *)
(***************************************************************************)
LEMMA TimesInit == Init => TimesInv
BY DEF Init, TimesInv, Measuring

LEMMA TimesNext ==
  ASSUME TypeOK, ControlInv, AloneInv, TimesInv, [Next]_vars
  PROVE  TimesInv'
<1> USE ConstantTypes
<1> USE DEF mainVars, loopVars, clusterVars, historyVars, TypeOK, ChildTypeOK,
            ControlInv, TimesInv, Measuring
<1>1. CASE InitBDEv
  BY <1>1 DEF InitBDEv
<1>2. CASE NextCluster
  BY <1>2 DEF NextCluster, LaunchChild
<1>3. CASE NextSolution
  BY <1>3 DEF NextSolution, LaunchChild, Exit
<1>4. CASE FinishBDEv
  BY <1>4 DEF FinishBDEv
<1>5. CASE Boot
  BY <1>5 DEF Boot, ExitChild
<1>6. ASSUME NEW way \in StartWays, Start(way) PROVE TimesInv'
  BY <1>6 DEF Start
<1>7. CASE Deploy
  BY <1>7 DEF Deploy, ExitChild
<1>8. CASE Configure
  BY <1>8 DEF Configure, ExitChild
<1>9. CASE Prepare
  BY <1>9 DEF Prepare
<1>10. CASE NextBenchmark
  BY <1>10 DEF NextBenchmark
<1>11. CASE NextExecution
  BY <1>11 DEF NextExecution, AloneInv
<1>12. CASE EndExecution
  BY <1>12 DEF EndExecution, Continue
<1>13. CASE EndExecutions
  BY <1>13 DEF EndExecutions, AloneInv
<1>14. CASE WriteReport
  BY <1>14 DEF WriteReport
<1>15. CASE FinishChild
  BY <1>15 DEF FinishChild
<1>16. CASE LeaveSafeMode
  BY <1>16 DEF LeaveSafeMode
<1>17. ASSUME NEW outcome \in Outcomes, RunBenchmark(outcome) PROVE TimesInv'
  <2>1. /\ DOMAIN times' = (DOMAIN times) \union {Len(times) + 1}
        /\ \A k \in DOMAIN times : times'[k] = times[k]
        /\ times'[Len(times) + 1] = outcome
    BY <1>17 DEF RunBenchmark, Saved
  <2>2. finish' <=> finish \/ outcome # "OK"
    BY <1>17 DEF RunBenchmark, Finishes, Outcomes
  <2> QED
    BY <1>17, <2>1, <2>2 DEF RunBenchmark
<1>18. CASE UNCHANGED vars
  BY <1>18 DEF vars
<1> QED
  BY <1>1, <1>2, <1>3, <1>4, <1>5, <1>6, <1>7, <1>8, <1>9, <1>10, <1>11,
     <1>12, <1>13, <1>14, <1>15, <1>16, <1>17, <1>18
     DEF Next, Driver, Child, Workload, Terminated

-----------------------------------------------------------------------------
(***************************************************************************)
(* How the steps move the variables of Campaign.                           *)
(***************************************************************************)
LEMMA LaunchedType ==
  ASSUME TypeOK, ControlInv
  PROVE  /\ Launched \in Int
         /\ main # "aborted" => Launched \in Nat
         /\ main = "child" => Launched > 0 /\ Number(ThisVisit) = Launched
         /\ main = "loop" /\ solution = NumSolutions /\ cluster = NumClusters
              => Launched = NumVisits
<1> USE ConstantTypes DEF TypeOK, DriverTypeOK, ControlInv
<1>1. cluster > 0 => /\ (cluster - 1) * NumSolutions \in Nat
                     /\ (cluster - 1) * NumSolutions + NumSolutions = cluster * NumSolutions
  BY Products
<1>2. CASE NoFramework
  BY <1>2 DEF Launched, Number, ThisVisit, NumVisits
<1>3. CASE ~NoFramework /\ cluster = 0
  BY <1>3 DEF Launched, NumVisits
<1>4. CASE ~NoFramework /\ cluster > 0
  BY <1>1, <1>4 DEF Launched, Number, ThisVisit, NumVisits
<1> QED
  BY <1>2, <1>3, <1>4

\* A visit is launched, and is not one too many.
LEMMA LaunchStep ==
  ASSUME TypeOK, ControlInv, main = "loop", main' = "child",
         NextCluster \/ NextSolution
  PROVE  Launched' = Launched + 1 /\ Launched < NumVisits
<1> USE ConstantTypes DEF TypeOK, DriverTypeOK, ControlInv
<1>1. CASE NextCluster
  <2>1. NoFramework /\ cluster' = cluster + 1
    BY <1>1 DEF NextCluster
  <2> QED
    BY <1>1, <2>1 DEF NextCluster, Launched, NumVisits
<1>2. CASE NextSolution
  <2>1. ~NoFramework /\ cluster > 0 /\ cluster' = cluster /\ solution' = solution + 1
    BY <1>2 DEF NextSolution, NoFramework
  <2>2. /\ (cluster - 1) * NumSolutions \in Nat
        /\ (cluster - 1) * NumSolutions + NumSolutions = cluster * NumSolutions
        /\ cluster * NumSolutions <= NumClusters * NumSolutions
        /\ NumClusters * NumSolutions \in Nat
    BY <2>1, Products
  <2> QED
    BY <1>2, <2>1, <2>2 DEF NextSolution, Launched, NumVisits
<1> QED
  BY <1>1, <1>2

\* The other steps launch nothing.
LEMMA KeepLaunched ==
  ASSUME TypeOK, ControlInv, [Next]_vars, ~(main = "loop" /\ main' = "child")
  PROVE  Launched' = Launched
<1> USE ConstantTypes
<1> USE DEF mainVars, vars, TypeOK, DriverTypeOK, ControlInv
<1>1. CASE NextCluster
  <2>1. /\ ~NoFramework /\ cluster' = cluster + 1 /\ solution' = 0
        /\ main' = "loop" /\ solution = NumSolutions
    BY <1>1 DEF NextCluster, LaunchChild
  <2>2. cluster > 0 =>
          /\ (cluster - 1) * NumSolutions \in Nat
          /\ (cluster - 1) * NumSolutions + NumSolutions = cluster * NumSolutions
    BY Products
  <2>3. cluster = 0 => (cluster' - 1) * NumSolutions = 0
    BY <2>1
  <2> QED
    BY <1>1, <2>1, <2>2, <2>3 DEF NextCluster, Launched
<1>2. CASE NextSolution
  <2>1. ~NoFramework /\ cluster > 0 /\ cluster' = cluster
        /\ solution' = solution + 1 /\ main' = "aborted"
    BY <1>2 DEF NextSolution, NoFramework, LaunchChild, Exit
  <2>2. (cluster - 1) * NumSolutions \in Nat
    BY <2>1, Products
  <2> QED
    BY <1>2, <2>1, <2>2 DEF NextSolution, Launched
<1>3. CASE ~NextCluster /\ ~NextSolution
  <2>1. cluster' = cluster /\ solution' = solution
    BY <1>3 DEF Next, Driver, Child, Workload, Terminated, InitBDEv, FinishBDEv,
       Boot, Start, Deploy, Configure, Prepare, NextBenchmark, NextExecution,
       EndExecution, EndExecutions, WriteReport, FinishChild, LeaveSafeMode,
       RunBenchmark
  <2>2. main' = "aborted" => main = "aborted" \/ cluster = 0
    BY <1>3 DEF Next, Driver, Child, Workload, Terminated, InitBDEv, FinishBDEv,
       Boot, Start, Deploy, Configure, Prepare, NextBenchmark, NextExecution,
       EndExecution, EndExecutions, WriteReport, FinishChild, LeaveSafeMode,
       RunBenchmark, ExitChild
  <2>3. main = "aborted" => main' = "aborted"
    BY <1>3 DEF Next, Driver, Child, Workload, Terminated, InitBDEv, FinishBDEv,
       Boot, Start, Deploy, Configure, Prepare, NextBenchmark, NextExecution,
       EndExecution, EndExecutions, WriteReport, FinishChild, LeaveSafeMode,
       RunBenchmark
  <2> QED
    BY <2>1, <2>2, <2>3 DEF Launched
<1> QED
  BY <1>1, <1>2, <1>3

-----------------------------------------------------------------------------
(***************************************************************************)
(* The report as its reader sees it.                                       *)
(***************************************************************************)
Entries == [visit : Int, bench : Nat, result : Promise!Results]

LEMMA EntryType == \A line \in Line : Entry(line) \in Entries
<1> SUFFICES ASSUME NEW line \in Line PROVE Entry(line) \in Entries
  OBVIOUS
<1>1. line.bench \in Nat /\ line.visit[1] \in Nat /\ line.visit[2] \in Nat
  BY ConstantTypes DEF Line, Visit
<1>2. (line.visit[1] - 1) * NumSolutions \in Int
  BY <1>1, ConstantTypes
<1>3. Number(line.visit) \in Int
  BY <1>1, <1>2 DEF Number
<1>4. Result(line) \in Promise!Results
  BY DEF Result, Promise!Results
<1> QED
  BY <1>1, <1>3, <1>4 DEF Entry, Entries

LEMMA SeenType ==
  ASSUME NEW lines \in Seq(Line)
  PROVE  /\ Seen(lines) \in Seq(Entries)
         /\ Len(Seen(lines)) = Len(lines)
         /\ Seen(lines) = <<>> <=> lines = <<>>
<1>1. DOMAIN lines = 1 .. Len(lines) /\ Len(lines) \in Nat
  OBVIOUS
<1>2. \A n \in 1 .. Len(lines) : Seen(lines)[n] \in Entries
  BY <1>1, EntryType DEF Seen
<1>3. Seen(lines) \in [1 .. Len(lines) -> Entries]
  BY <1>1, <1>2 DEF Seen
<1>4. Seen(lines) \in Seq(Entries)
  BY <1>1, <1>3, SeqDef
<1>5. Len(Seen(lines)) = Len(lines)
  BY <1>1, <1>3, <1>4
<1> QED
  BY <1>1, <1>4, <1>5

\* A line more in the report is a line more for its reader.
LEMMA SeenAppend ==
  ASSUME NEW lines \in Seq(Line), NEW line \in Line
  PROVE  Seen(Append(lines, line)) = Append(Seen(lines), Entry(line))
<1> DEFINE longer == Append(lines, line)
           other  == Append(Seen(lines), Entry(line))
<1>1. /\ longer \in Seq(Line) /\ Len(longer) = Len(lines) + 1
      /\ DOMAIN longer = 1 .. Len(lines) + 1
      /\ Len(lines) \in Nat /\ DOMAIN lines = 1 .. Len(lines)
      /\ longer[Len(lines) + 1] = line
      /\ \A n \in 1 .. Len(lines) : longer[n] = lines[n]
  OBVIOUS
<1>2. Seen(longer) \in Seq(Entries) /\ Len(Seen(longer)) = Len(lines) + 1
  BY <1>1, SeenType
<1>3. Seen(lines) \in Seq(Entries) /\ Len(Seen(lines)) = Len(lines)
  BY SeenType
<1>4. Entry(line) \in Entries
  BY EntryType
<1>5. /\ other \in Seq(Entries) /\ Len(other) = Len(lines) + 1
      /\ other[Len(lines) + 1] = Entry(line)
      /\ \A n \in 1 .. Len(lines) : other[n] = Seen(lines)[n]
  BY <1>1, <1>3, <1>4
<1>6. \A n \in 1 .. Len(lines) + 1 : Seen(longer)[n] = Entry(longer[n])
  BY <1>1 DEF Seen
<1>7. \A n \in 1 .. Len(lines) : Seen(lines)[n] = Entry(lines[n])
  BY <1>1 DEF Seen
<1>8. \A n \in 1 .. Len(lines) + 1 : Seen(longer)[n] = other[n]
  BY <1>1, <1>5, <1>6, <1>7
<1> HIDE DEF longer, other
<1>9. Seen(longer) = other
  BY <1>2, <1>5, <1>8, SeqEqual
<1> QED
  BY <1>9 DEF longer, other

-----------------------------------------------------------------------------
(***************************************************************************)
(* The report agrees with the two loops.                                   *)
(***************************************************************************)
LEMMA LastType ==
  ASSUME TypeOK
  PROVE  /\ Seen(report) = <<>> <=> report = <<>>
         /\ report # <<>> => Promise!Last \in Entries
         /\ Promise!Reported \in Nat
<1>1. /\ Seen(report) \in Seq(Entries)
      /\ Seen(report) = <<>> <=> report = <<>>
  BY SeenType DEF TypeOK, HistoryTypeOK
<1>2. report # <<>> => Promise!Last \in Entries
  BY <1>1 DEF Promise!Last
<1> QED
  BY <1>1, <1>2 DEF Promise!Reported, Entries

\* A step that launches nothing and reports nothing.
LEMMA QuietStep ==
  ASSUME Launched' = Launched, report' = report
  PROVE  /\ Promise!Last' = Promise!Last
         /\ Promise!Reported' = Promise!Reported
         /\ Promise!Failed' <=> Promise!Failed
         /\ Promise!Settled' <=> Promise!Settled
<1>1. Seen(report)' = Seen(report)
  BY DEF Seen, Entry, Number, Result
<1> QED
  BY <1>1 DEF Promise!Last, Promise!Reported, Promise!Failed, Promise!Settled

\* A new visit has reported nothing.
LEMMA FreshVisit ==
  ASSUME TypeOK, ReportInv, Launched \in Nat, Launched' = Launched + 1,
         report' = report
  PROVE  /\ Promise!Last' = Promise!Last
         /\ Promise!Reported' = 0
         /\ ~Promise!Failed'
<1>1. Seen(report)' = Seen(report)
  BY DEF Seen, Entry, Number, Result
<1>2. Promise!Last' = Promise!Last
  BY <1>1 DEF Promise!Last
<1>3. report # <<>> => Promise!Last.visit \in Int /\ Promise!Last.visit <= Launched
  BY LastType DEF ReportInv, Entries
<1>4. Promise!Reported' = 0
  BY <1>1, <1>2, <1>3, LastType DEF Promise!Reported
<1> QED
  BY <1>2, <1>4 DEF Promise!Failed

\* The line that WriteReport writes.
LEMMA WrittenLine ==
  ASSUME TypeOK, TypeOK', ControlInv, TimesInv, WriteReport
  PROVE  LET entry == [visit  |-> Launched, bench |-> bench,
                       result |-> IF finish THEN "bad" ELSE "good"]
         IN  /\ Seen(report)' = Append(Seen(report), entry)
             /\ Promise!Last' = entry
             /\ Seen(report)' # <<>>
<1> DEFINE line  == [visit |-> ThisVisit, bench |-> bench, times |-> times]
           entry == [visit  |-> Launched, bench |-> bench,
                     result |-> IF finish THEN "bad" ELSE "good"]
<1>1. line \in Line /\ report \in Seq(Line)
  BY ConstantTypes DEF TypeOK, DriverTypeOK, ChildTypeOK, HistoryTypeOK, Line,
     Visit, ThisVisit
<1>2. main = "child" /\ Number(ThisVisit) = Launched
  BY LaunchedType DEF WriteReport, ControlInv
<1>3. Result(line) = IF finish THEN "bad" ELSE "good"
  BY DEF Result, TimesInv, WriteReport
<1>4. Entry(line) = entry
  BY <1>2, <1>3 DEF Entry
<1>5. Seen(report') = Append(Seen(report), entry)
  BY <1>1, <1>4, SeenAppend DEF WriteReport
<1>6. Seen(report)' = Seen(report')
  BY DEF Seen, Entry, Number, Result
<1>7. Seen(report) \in Seq(Entries) /\ entry \in Entries
  BY <1>1, <1>4, SeenType, EntryType
<1> HIDE DEF entry
<1>8. /\ Append(Seen(report), entry) # <<>>
      /\ Append(Seen(report), entry)[Len(Append(Seen(report), entry))] = entry
  BY <1>7
<1> QED
  BY <1>5, <1>6, <1>8 DEF entry, Promise!Last

LEMMA ReportInit == Init => ReportInv
<1> SUFFICES ASSUME Init PROVE ReportInv
  OBVIOUS
<1>1. main = "init" /\ report = <<>>
  BY DEF Init
<1>2. Seen(report) = <<>>
  BY <1>1, EmptySeq, SeenType
<1> QED
  BY <1>1, <1>2 DEF ReportInv, Promise!Settled, Promise!Reported

\* Steps of the child that report nothing: only the loops move.
LEMMA ReportChildStep ==
  ASSUME TypeOK, ControlInv, TimesInv, ReportInv, [Next]_vars,
         main = "child", main' = "child", report' = report,
         (IF Measuring THEN bench - 1 ELSE bench)'
           = (IF Measuring THEN bench - 1 ELSE bench),
         (finish /\ ~Measuring)' <=> (finish /\ ~Measuring)
  PROVE  ReportInv'
BY KeepLaunched, QuietStep DEF ReportInv

\* Steps that leave or stay out of a child, and report nothing.
LEMMA ReportDriverStep ==
  ASSUME TypeOK, ControlInv, TimesInv, ReportInv, [Next]_vars,
         main' # "child", main' # "init" \/ main = "init", report' = report,
         Promise!Settled
  PROVE  ReportInv'
BY KeepLaunched, QuietStep DEF ReportInv

\* A child may be left before its first workload.
LEMMA SettledEarly ==
  ASSUME ControlInv, TimesInv, ReportInv,
         child \in {"boot", "start", "safemode", "deploy", "configure", "prepare"}
  PROVE  Promise!Settled
BY DEF ControlInv, TimesInv, ReportInv, Measuring, Promise!Settled

LEMMA ReportNext ==
  ASSUME TypeOK, TypeOK', ControlInv, ControlInv', AloneInv, TimesInv, TimesInv',
         ReportInv, [Next]_vars
  PROVE  ReportInv'
<1> USE DEF mainVars, loopVars, clusterVars, historyVars
<1>1. CASE InitBDEv
  <2>1. report' = report /\ main = "init" /\ main' # "child"
    BY <1>1 DEF InitBDEv, ReportInv
  <2> QED
    BY <2>1, ReportDriverStep DEF ReportInv
<1>2. CASE NextCluster \/ NextSolution
  <2>1. main = "loop" /\ report' = report /\ main' # "init"
    BY <1>2 DEF NextCluster, NextSolution, LaunchChild, Exit
  <2>2. CASE main' = "child"
    <3>1. child' = "boot" /\ bench' = 0 /\ ~finish'
      BY <1>2, <2>2, <2>1 DEF NextCluster, NextSolution, LaunchChild, Exit
    <3>2. Launched \in Nat /\ Launched' = Launched + 1
      BY <1>2, <2>1, <2>2, LaunchStep, LaunchedType
    <3>3. /\ Promise!Last' = Promise!Last
          /\ Promise!Reported' = 0
          /\ ~Promise!Failed'
      BY <2>1, <3>2, FreshVisit
    <3>4. report # <<>> => Promise!Last.visit \in Int /\ Promise!Last.visit <= Launched
      BY LastType DEF ReportInv, Entries
    <3> QED
      BY <2>1, <2>2, <3>1, <3>2, <3>3, <3>4 DEF ReportInv, Measuring
  <2>3. CASE main' # "child"
    BY <2>1, <2>3, ReportDriverStep DEF ReportInv
  <2> QED
    BY <2>2, <2>3
<1>3. CASE FinishBDEv
  <2>1. main = "loop" /\ main' = "finished" /\ report' = report
    BY <1>3 DEF FinishBDEv
  <2> QED
    BY <2>1, ReportDriverStep DEF ReportInv
<1>4. CASE Boot \/ Deploy \/ Configure \/ \E way \in StartWays : Start(way)
  <2>1. /\ main = "child" /\ report' = report /\ bench' = bench /\ finish' = finish
        /\ child \in {"boot", "start", "deploy", "configure"}
    BY <1>4 DEF Boot, Deploy, Configure, Start, ControlInv
  <2>2. \/ main' = "child" /\ child' \notin {"exec", "calls", "report"}
        \/ main' = "loop"
    BY <1>4, <2>1 DEF Boot, Deploy, Configure, Start, ExitChild
  <2> QED
    BY <2>1, <2>2, SettledEarly, ReportDriverStep, ReportChildStep DEF Measuring
<1>5. CASE Prepare \/ LeaveSafeMode
  <2>1. /\ main = "child" /\ report' = report /\ bench' = bench /\ finish' = finish
        /\ main' = "child" /\ ~Measuring /\ ~Measuring'
    BY <1>5 DEF Prepare, LeaveSafeMode, ControlInv, Measuring
  <2> QED
    BY <2>1, ReportChildStep
<1>6. CASE NextBenchmark
  <2>1. /\ main = "child" /\ main' = "child" /\ report' = report
        /\ ~Measuring /\ Measuring' /\ bench' = bench + 1 /\ ~finish
    BY <1>6 DEF NextBenchmark, ControlInv, Measuring, Continue
  <2>2. bench \in Nat
    BY ConstantTypes DEF TypeOK, ChildTypeOK
  <2> QED
    BY <2>1, <2>2, ReportChildStep
<1>7. CASE NextExecution \/ EndExecution \/ EndExecutions
           \/ \E outcome \in Outcomes : RunBenchmark(outcome)
  <2>1. /\ main = "child" /\ main' = "child" /\ report' = report
        /\ Measuring /\ Measuring' /\ bench' = bench
    BY <1>7 DEF NextExecution, EndExecution, EndExecutions, RunBenchmark,
       ControlInv, Measuring
  <2> QED
    BY <2>1, ReportChildStep
<1>8. CASE WriteReport
  <2>1. /\ main = "child" /\ main' = "child" /\ bench' = bench /\ finish' = finish
        /\ ~Measuring' /\ bench > 0 /\ bench \in Nat
    BY <1>8, ConstantTypes DEF WriteReport, ControlInv, Measuring, TimesInv, TypeOK,
       ChildTypeOK
  <2>2. Launched' = Launched /\ Launched \in Nat
    BY <2>1, KeepLaunched, LaunchedType
  <2> DEFINE entry == [visit  |-> Launched, bench |-> bench,
                       result |-> IF finish THEN "bad" ELSE "good"]
  <2>3. Promise!Last' = entry /\ Seen(report)' # <<>>
    BY <1>8, WrittenLine
  <2>4. Promise!Reported' = bench
    BY <2>2, <2>3 DEF Promise!Reported
  <2>5. Promise!Failed' <=> finish
    BY <2>1, <2>3, <2>4 DEF Promise!Failed
  <2> QED
    BY <2>1, <2>2, <2>3, <2>4, <2>5 DEF ReportInv
<1>9. CASE FinishChild
  <2>1. /\ main = "child" /\ main' = "loop" /\ report' = report /\ ~Measuring
        /\ finish \/ bench = Len(BenchmarkList)
    BY <1>9 DEF FinishChild, ControlInv, Measuring, Continue
  <2>2. Promise!Settled
    BY <2>1 DEF ReportInv, Promise!Settled
  <2> QED
    BY <2>1, <2>2, ReportDriverStep
<1>10. CASE UNCHANGED vars
  <2>1. UNCHANGED <<main, child, bench, finish, report>>
    BY <1>10 DEF vars
  <2> QED
    BY <2>1, ReportDriverStep, ReportChildStep DEF ReportInv, Measuring
<1> QED
  BY <1>1, <1>2, <1>3, <1>4, <1>5, <1>6, <1>7, <1>8, <1>9, <1>10
     DEF Next, Driver, Child, Workload, Terminated

-----------------------------------------------------------------------------
(***************************************************************************)
(* The refinement.                                                         *)
(***************************************************************************)
RefinementInv == SafetyInv /\ TimesInv /\ ReportInv

LEMMA RefinementInvariant == Spec => []RefinementInv
<1>1. Init => RefinementInv
  BY SafetyInit, TimesInit, ReportInit DEF RefinementInv
<1>2. RefinementInv /\ [Next]_vars => RefinementInv'
  BY SafetyNext, TimesNext, ReportNext DEF RefinementInv, SafetyInv
<1> QED
  BY <1>1, <1>2, PTL DEF Spec

LEMMA PromiseInit == Init => Promise!Init
<1> SUFFICES ASSUME Init PROVE Promise!Init
  OBVIOUS
<1>1. Launched = 0 /\ Over = "no"
  BY DEF Init, Launched, Over
<1>2. Seen(report) = <<>>
  BY EmptySeq, SeenType DEF Init
<1> QED
  BY <1>1, <1>2 DEF Promise!Init

\* Every step of the scripts is a step of the campaign, or none.
LEMMA PromiseStep ==
  ASSUME RefinementInv, RefinementInv', [Next]_vars
  PROVE  [Promise!Next]_(Promise!vars)
<1> USE DEF RefinementInv, SafetyInv, mainVars, loopVars, clusterVars, historyVars
<1>1. CASE main = "loop" /\ main' = "child"
  <2>1. NextCluster \/ NextSolution
    BY <1>1 DEF ControlInv, Next, Driver, Child, Workload, Terminated, InitBDEv,
       FinishBDEv, Boot, Start, Deploy, Configure, Prepare, NextBenchmark,
       NextExecution, EndExecution, EndExecutions, WriteReport, FinishChild,
       LeaveSafeMode, RunBenchmark, vars, Done
  <2>2. Launched' = Launched + 1 /\ Launched < NumVisits
    BY <1>1, <2>1, LaunchStep
  <2>3. Promise!Settled /\ Over = "no" /\ Over' = "no"
    BY <1>1 DEF ReportInv, Over
  <2>4. Seen(report)' = Seen(report)
    BY <2>1 DEF NextCluster, NextSolution, Seen, Entry, Number, Result
  <2>5. Promise!Launch
    BY <2>2, <2>3, <2>4 DEF Promise!Launch
  <2> QED
    BY <2>5 DEF Promise!Next
<1>2. CASE WriteReport
  <2> DEFINE result == IF finish THEN "bad" ELSE "good"
  <2>1. /\ main = "child" /\ main' = "child" /\ Measuring
        /\ bench \in 1 .. Len(BenchmarkList)
    BY <1>2, ConstantTypes DEF WriteReport, ControlInv, Measuring, TimesInv, TypeOK,
       ChildTypeOK
  <2>2. /\ Seen(report)' = Append(Seen(report), [visit |-> Launched, bench |-> bench,
                                                 result |-> result])
    BY <1>2, WrittenLine
  <2>3. Launched' = Launched /\ Launched > 0 /\ Over = "no" /\ Over' = "no"
    BY <2>1, KeepLaunched, LaunchedType DEF Over
  <2>4. /\ Promise!Reported = bench - 1 /\ ~Promise!Failed
        /\ bench - 1 < Len(BenchmarkList) /\ (bench - 1) + 1 = bench
    BY <2>1, ConstantTypes DEF ReportInv
  <2>5. Promise!Publish(result)
    BY <2>2, <2>3, <2>4 DEF Promise!Publish
  <2>6. result \in Promise!Results
    BY DEF Promise!Results
  <2> QED
    BY <2>5, <2>6 DEF Promise!Next
<1>3. CASE ~WriteReport /\ ~(main = "loop" /\ main' = "child")
  <2>1. report' = report
    BY <1>3 DEF ReportInv, Next, Driver, Child, Workload, Terminated, InitBDEv,
       NextCluster, NextSolution, FinishBDEv, Boot, Start, Deploy, Configure,
       Prepare, NextBenchmark, NextExecution, EndExecution, EndExecutions,
       FinishChild, LeaveSafeMode, RunBenchmark, vars
  <2>2. Seen(report)' = Seen(report)
    BY <2>1 DEF Seen, Entry, Number, Result
  <2>3. Launched' = Launched
    BY <1>3, KeepLaunched
  <2>4. CASE Over' = Over
    BY <2>2, <2>3, <2>4 DEF Promise!vars
  <2>5. CASE Over' # Over
    <3>1. /\ main \in {"init", "loop"} /\ main' \in {"aborted", "finished"}
          /\ main' = "finished" => /\ main = "loop" /\ solution = NumSolutions
                                   /\ cluster = NumClusters
      BY <2>5 DEF ControlInv, Over, Next, Driver, Child, Workload, Terminated, InitBDEv,
         NextCluster, NextSolution, FinishBDEv, Boot, Start, Deploy, Configure,
         Prepare, NextBenchmark, NextExecution, EndExecution, EndExecutions,
         WriteReport, FinishChild, LeaveSafeMode, RunBenchmark, LaunchChild, Exit,
         ExitChild, vars
    <3>2. Over = "no" /\ Over' \in Promise!Endings /\ Promise!Settled
      BY <3>1 DEF Over, Promise!Endings, ReportInv
    <3>3. Over' = "complete" => Launched = NumVisits
      BY <3>1, LaunchedType DEF Over
    <3>4. Promise!End(Over')
      BY <2>2, <2>3, <3>2, <3>3 DEF Promise!End
    <3> QED
      BY <3>2, <3>4 DEF Promise!Next
  <2> QED
    BY <2>4, <2>5
<1> QED
  BY <1>1, <1>2, <1>3

\* Whatever fails, the report of run.sh is one that Campaign allows.
THEOREM PromiseHolds == Spec => PromiseKept
<1>1. RefinementInv /\ RefinementInv' /\ [Next]_vars => [Promise!Next]_(Promise!vars)
  BY PromiseStep
<1> QED
  BY PromiseInit, RefinementInvariant, <1>1, PTL DEF Spec, PromiseKept, Promise!Spec

-----------------------------------------------------------------------------
(***************************************************************************)
(* The results that a line holds.                                          *)
(***************************************************************************)
LEMMA CallsType == \A b : Calls(b) \in Nat
BY EvaluationAssumption DEF Calls

\* The results of one execution more, and of none.
LEMMA Multiples ==
  ASSUME NEW e \in Nat, NEW c \in Nat
  PROVE  /\ e * c \in Nat /\ 0 * c = 0 /\ 1 * c = c /\ e * 0 = 0
         /\ (e + 1) * c = e * c + c
         /\ e > 0 /\ c > 0 => e * c > 0
OBVIOUS

\* A line without a failure.
LEMMA GoodLine ==
  ASSUME NEW line, line.times \in Seq(Outcomes), Runs(line),
         \A k \in DOMAIN line.times : line.times[k] = "OK",
         Len(line.times) = Executions * Calls(BenchmarkList[line.bench])
  PROVE  LineAccounted(line)
<1> DEFINE calls == Calls(BenchmarkList[line.bench])
<1>1. calls \in Nat /\ Executions \in Nat \ {0}
  BY CallsType, ConstantTypes
<1>2. {k \in DOMAIN line.times : line.times[k] # "OK"} = {}
  OBVIOUS
<1>3. Executions * calls = 0 <=> calls = 0
  BY <1>1, Multiples
<1>4. line.times = <<>> <=> Len(line.times) = 0
  BY EmptySeq
<1> QED
  BY <1>2, <1>3, <1>4 DEF LineAccounted, WholeExecutions

\* A line whose last execution failed.
LEMMA BadLine ==
  ASSUME NEW line, line.times \in Seq(Outcomes), Runs(line),
         NEW e \in 1 .. Executions, NEW bad \in DOMAIN line.times,
         line.times[bad] # "OK",
         Len(line.times) = e * Calls(BenchmarkList[line.bench]),
         \A k \in 1 .. (e - 1) * Calls(BenchmarkList[line.bench]) :
           line.times[k] = "OK"
  PROVE  LineAccounted(line)
<1> DEFINE calls == Calls(BenchmarkList[line.bench])
           failed == {k \in DOMAIN line.times : line.times[k] # "OK"}
<1>1. /\ calls \in Nat /\ e \in Nat /\ e - 1 \in Nat /\ (e - 1) * calls \in Nat
      /\ DOMAIN line.times = 1 .. Len(line.times)
  BY CallsType, ConstantTypes, Multiples, LenProperties
<1>2. \A k \in failed : k > (e - 1) * calls
  BY <1>1
<1>3. failed # {} /\ line.times # <<>>
  BY <1>1
<1>4. calls # 0
  BY <1>1, Multiples
<1> QED
  BY <1>2, <1>3, <1>4 DEF LineAccounted, WholeExecutions

\* The line of a workload that was not run.
LEMMA EmptyLine ==
  ASSUME NEW line, line.times = <<>>, ~Runs(line)
  PROVE  LineAccounted(line)
BY DEF LineAccounted, WholeExecutions

LEMMA LengthNext ==
  ASSUME SafetyInv, TimesInv, LengthInv, [Next]_vars
  PROVE  LengthInv'
<1> DEFINE calls == Calls(ThisBenchmark)
           Counting == child \in {"exec", "calls", "report"}
<1>0. /\ TypeOK /\ ControlInv /\ AloneInv /\ calls \in Nat
      /\ exec \in 1 .. Executions + 1 /\ call \in Nat /\ times \in Seq(Outcomes)
      /\ Len(times) \in Nat /\ DOMAIN times = 1 .. Len(times)
      /\ Executions \in Nat \ {0}
  BY CallsType, ConstantTypes, LenProperties DEF SafetyInv, TypeOK, ChildTypeOK
<1> USE <1>0 DEF mainVars, loopVars, clusterVars, historyVars
<1>a. ThisLine.times = times /\ Calls(BenchmarkList[ThisLine.bench]) = calls
  BY DEF ThisLine, ThisBenchmark
<1>b. Runs(ThisLine) <=> NoFramework \/ Supported(ThisFramework, ThisBenchmark)
  BY DEF Runs, ThisLine, ThisVisit, ThisFramework, ThisBenchmark
<1>1. CASE ~Counting'
  BY <1>1 DEF LengthInv
<1>2. CASE NextBenchmark
  <2>1. child' = "exec" /\ exec' = 1 /\ times' = <<>>
    BY <1>2 DEF NextBenchmark
  <2>2. Calls(ThisBenchmark)' \in Nat
    BY CallsType
  <2>3. Len(times') = 0 /\ (exec' - 1) * Calls(ThisBenchmark)' = 0
    BY <2>1, <2>2, Multiples
  <2> QED
    BY <2>1, <2>3 DEF LengthInv
<1>3. CASE NextExecution
  <2>1. /\ child = "exec" /\ exec <= Executions /\ exec' = exec + 1 /\ call' = 0
        /\ UNCHANGED <<config, mainVars, bench, times>>
        /\ child' = IF Runs(ThisLine) THEN "calls" ELSE "report"
    BY <1>3, <1>b DEF NextExecution, MoreExecutions
  <2>2. ThisLine' = ThisLine /\ Calls(ThisBenchmark)' = calls
    BY <2>1 DEF ThisLine, ThisVisit, ThisBenchmark
  <2>3. Len(times) = (exec - 1) * calls /\ (exec > 1 => Runs(ThisLine))
    BY <2>1 DEF LengthInv
  <2>4. CASE Runs(ThisLine)
    <3>1. \A k \in DOMAIN times : times[k] = "OK"
      BY <2>1 DEF TimesInv
    <3>2. exec' - 2 = exec - 1 /\ (exec - 1) * calls \in Nat
      BY <2>1, Multiples
    <3>3. \A k \in 1 .. (exec - 1) * calls : times[k] = "OK"
      BY <2>3, <3>1
    <3> QED
      BY <2>1, <2>2, <2>3, <2>4, <3>2, <3>3 DEF LengthInv
  <2>5. CASE ~Runs(ThisLine)
    <3>1. exec = 1
      BY <2>3, <2>5
    <3>2. Len(times) = 0
      BY <2>3, <3>1, Multiples
    <3>3. times = <<>>
      BY <3>2, EmptySeq
    <3>4. LineAccounted(ThisLine)
      BY <1>a, <2>5, <3>3, EmptyLine
    <3> QED
      BY <2>1, <2>2, <2>5, <3>4 DEF LengthInv
  <2> QED
    BY <2>4, <2>5
<1>4. ASSUME NEW outcome \in Outcomes, RunBenchmark(outcome) PROVE LengthInv'
  <2>1. /\ child = "calls" /\ child' = "calls" /\ call < calls /\ call' = call + 1
        /\ times' = Append(times, outcome)
        /\ UNCHANGED <<mainVars, bench, exec>>
    BY <1>4 DEF RunBenchmark, Saved
  <2>2. Runs(ThisLine)' <=> Runs(ThisLine)
    BY <2>1 DEF Runs, ThisLine, ThisVisit
  <2>3. Calls(ThisBenchmark)' = calls
    BY <2>1 DEF ThisBenchmark
  <2>4. /\ Len(times') = Len(times) + 1
        /\ \A k \in 1 .. Len(times) : times'[k] = times[k]
    BY <2>1, AppendProperties
  <2>5. /\ exec > 1 /\ Runs(ThisLine) /\ Len(times) = (exec - 2) * calls + call
        /\ \A k \in 1 .. (exec - 2) * calls : times[k] = "OK"
    BY <2>1 DEF LengthInv
  <2>6. (exec - 2) * calls \in Nat
    BY <2>5, Multiples
  <2>7. \A k \in 1 .. (exec - 2) * calls : times'[k] = "OK"
    BY <2>4, <2>5, <2>6
  <2>8. Len(times') = (exec - 2) * calls + (call + 1) /\ call + 1 <= calls
    BY <2>1, <2>4, <2>5, <2>6
  <2> QED
    BY <2>1, <2>2, <2>3, <2>5, <2>7, <2>8 DEF LengthInv
<1>5. CASE EndExecution
  <2>1. /\ child = "calls" /\ call = calls /\ UNCHANGED <<mainVars, bench, exec, times>>
        /\ child' = IF ~finish THEN "exec" ELSE "report"
    BY <1>5 DEF EndExecution, Continue
  <2>2. ThisLine' = ThisLine /\ Calls(ThisBenchmark)' = calls
    BY <2>1 DEF ThisLine, ThisVisit, ThisBenchmark
  <2>3. /\ exec > 1 /\ Runs(ThisLine) /\ Len(times) = (exec - 2) * calls + calls
        /\ \A k \in 1 .. (exec - 2) * calls : times[k] = "OK"
    BY <2>1 DEF LengthInv
  <2>4. exec - 2 \in Nat /\ (exec - 2) + 1 = exec - 1
    BY <2>3
  <2>5. Len(times) = (exec - 1) * calls
    BY <2>3, <2>4, Multiples
  <2>6. CASE ~finish
    BY <2>1, <2>2, <2>3, <2>5, <2>6 DEF LengthInv
  <2>7. CASE finish
    <3>1. PICK bad \in DOMAIN times : times[bad] # "OK"
      BY <2>1, <2>7 DEF TimesInv
    <3>2. exec - 1 \in 1 .. Executions /\ (exec - 1) - 1 = exec - 2
      BY <2>3
    <3>3. LineAccounted(ThisLine)
      BY <1>a, <2>3, <2>5, <3>1, <3>2, BadLine
    <3> QED
      BY <2>1, <2>2, <2>7, <3>3 DEF LengthInv
  <2> QED
    BY <2>6, <2>7
<1>6. CASE EndExecutions
  <2>1. /\ child = "exec" /\ exec > Executions /\ child' = "report"
        /\ UNCHANGED <<mainVars, bench, times>>
    BY <1>6 DEF EndExecutions, MoreExecutions
  <2>2. ThisLine' = ThisLine
    BY <2>1 DEF ThisLine, ThisVisit
  <2>3. exec - 1 = Executions /\ exec > 1
    BY <2>1
  <2>4. Len(times) = Executions * calls /\ Runs(ThisLine)
    BY <2>1, <2>3 DEF LengthInv
  <2>5. \A k \in DOMAIN times : times[k] = "OK"
    BY <2>1 DEF TimesInv
  <2>6. LineAccounted(ThisLine)
    BY <1>a, <2>4, <2>5, GoodLine
  <2> QED
    BY <2>1, <2>2, <2>6 DEF LengthInv
<1>7. CASE UNCHANGED vars
  BY <1>7 DEF vars, LengthInv, ThisBenchmark, ThisLine, ThisVisit
<1>8. Next => \/ ~Counting' \/ NextBenchmark \/ NextExecution \/ EndExecution
              \/ EndExecutions \/ UNCHANGED vars
              \/ \E outcome \in Outcomes : RunBenchmark(outcome)
  BY DEF Next, Driver, Child, Workload, Terminated, ControlInv, InitBDEv, NextCluster,
     NextSolution, FinishBDEv, LaunchChild, Exit, Boot, ExitChild, Start, Deploy,
     Configure, Prepare, WriteReport, FinishChild, LeaveSafeMode
<1> QED
  BY <1>1, <1>2, <1>3, <1>4, <1>5, <1>6, <1>7, <1>8

\* Lines are only added, by write_report.
LEMMA AccountedNext ==
  ASSUME SafetyInv, LengthInv, TimesAccounted, [Next]_vars
  PROVE  TimesAccounted'
<1>1. CASE WriteReport
  <2>1. LineAccounted(ThisLine) /\ report' = Append(report, ThisLine)
    BY <1>1 DEF WriteReport, LengthInv, ThisLine
  <2>2. report \in Seq(Line)
    BY DEF SafetyInv, TypeOK, HistoryTypeOK
  <2>3. /\ DOMAIN report' = (DOMAIN report) \union {Len(report) + 1}
        /\ \A n \in DOMAIN report : report'[n] = report[n]
        /\ report'[Len(report) + 1] = ThisLine
    BY <2>1, <2>2
  <2> QED
    BY <2>1, <2>3 DEF TimesAccounted
<1>2. CASE InitBDEv
  <2>1. report' = <<>> \/ report' = report
    BY <1>2 DEF InitBDEv
  <2> QED
    BY <2>1 DEF TimesAccounted
<1>3. Next => WriteReport \/ InitBDEv \/ report' = report
  BY DEF Next, Driver, Child, Workload, Terminated, vars, NextCluster, NextSolution,
     FinishBDEv, Boot, Start, Deploy, Configure, Prepare, NextBenchmark, NextExecution,
     EndExecution, EndExecutions, FinishChild, LeaveSafeMode, RunBenchmark
<1>4. CASE report' = report
  BY <1>4 DEF TimesAccounted
<1> QED
  BY <1>1, <1>2, <1>3, <1>4 DEF vars

\* Every line of the report accounts for whole executions, whatever fails.
THEOREM TimesAccountedHolds == Spec => []TimesAccounted
<1> DEFINE Inv == SafetyInv /\ TimesInv /\ LengthInv /\ TimesAccounted
<1>1. Init => Inv
  <2>1. Init => LengthInv
    BY DEF Init, LengthInv
  <2>2. Init => TimesAccounted
    BY DEF Init, TimesAccounted
  <2>3. Init => SafetyInv /\ TimesInv
    BY SafetyInit, TimesInit
  <2> QED
    BY <2>1, <2>2, <2>3
<1>2. Inv /\ [Next]_vars => Inv'
  BY SafetyNext, TimesNext, LengthNext, AccountedNext DEF SafetyInv
<1>3. Inv => TimesAccounted
  OBVIOUS
<1> QED
  BY <1>1, <1>2, <1>3, PTL DEF Spec

\* Whoever reads a line without a failure reads of calls that ran alone: an orphan
\* has set FINISH, and FINISH is set by the results that are in the line.
THEOREM GoodAloneHolds == Spec => []GoodAlone
<1>1. RefinementInv => GoodAlone
  <2> SUFFICES ASSUME RefinementInv, child \in {"calls", "report"}, orphan
               PROVE  \E k \in DOMAIN times : times[k] # "OK"
    BY DEF GoodAlone
  <2>1. main = "child"
    BY DEF RefinementInv, SafetyInv, ControlInv
  <2>2. finish
    BY <2>1 DEF RefinementInv, SafetyInv, AloneInv
  <2> QED
    BY <2>2 DEF RefinementInv, TimesInv
<1> QED
  BY <1>1, RefinementInvariant, PTL

-----------------------------------------------------------------------------
(***************************************************************************)
(* The end of the loops: Left is a measure, every step lowers it, and no   *)
(* measure can be lowered for ever.                                        *)
(***************************************************************************)
LEMMA NineNumbers ==
  ASSUME NEW a \in Nat, NEW b \in Nat, NEW c \in Nat, NEW d \in Nat, NEW e \in Nat,
         NEW f \in Nat, NEW g \in Nat, NEW h \in Nat, NEW i \in Nat
  PROVE  <<a, b, c, d, e, f, g, h, i>> \in Measures
BY DEF Measures

LEMMA LeftType ==
  ASSUME TypeOK, LengthInv
  PROVE  Left \in Measures
<1>1. NumClusters - cluster \in Nat /\ NumSolutions - solution \in Nat
  BY ConstantTypes DEF TypeOK, DriverTypeOK
<1>2. Len(BenchmarkList) - bench \in Nat /\ Executions + 1 - exec \in Nat
  BY ConstantTypes DEF TypeOK, ChildTypeOK
<1>3. child = "calls" => Calls(ThisBenchmark) - call + 1 \in Nat
  BY CallsType DEF TypeOK, ChildTypeOK, LengthInv
<1>4. MainLeft \in Nat /\ StagesLeft \in Nat /\ LineLeft \in Nat
  BY DEF MainLeft, StagesLeft, LineLeft
<1>5. /\ (IF main = "child" THEN 1 ELSE 0) \in Nat
      /\ (IF child = "calls" THEN Calls(ThisBenchmark) - call + 1 ELSE 0) \in Nat
  BY <1>3
<1> QED
  BY <1>1, <1>2, <1>4, <1>5, NineNumbers DEF Left

\* The components of the measure, before and after a step.
LEMMA LeftParts ==
  /\ Left[1] = MainLeft /\ Left[2] = NumClusters - cluster
  /\ Left[3] = NumSolutions - solution
  /\ Left[4] = (IF main = "child" THEN 1 ELSE 0) /\ Left[5] = StagesLeft
  /\ Left[6] = Len(BenchmarkList) - bench /\ Left[7] = LineLeft
  /\ Left[8] = Executions + 1 - exec
  /\ Left[9] = (IF child = "calls" THEN Calls(ThisBenchmark) - call + 1 ELSE 0)
BY DEF Left

LEMMA LeftPartsAfter ==
  /\ Left'[1] = MainLeft' /\ Left'[2] = NumClusters - cluster'
  /\ Left'[3] = NumSolutions - solution'
  /\ Left'[4] = (IF main' = "child" THEN 1 ELSE 0) /\ Left'[5] = StagesLeft'
  /\ Left'[6] = Len(BenchmarkList) - bench' /\ Left'[7] = LineLeft'
  /\ Left'[8] = Executions + 1 - exec'
  /\ Left'[9] = (IF child' = "calls" THEN Calls(ThisBenchmark)' - call' + 1 ELSE 0)
BY DEF Left

\* The first component that changes is found one component after the other.
LEMMA LowerFirst ==
  ASSUME NEW s \in Measures, NEW t \in Measures, NEW k \in 1 .. 9,
         t[k] < s[k], \A j \in 1 .. k - 1 : t[j] = s[j]
  PROVE  Lower(s, t)
BY DEF Lower

\* Every step of the two shells lowers the measure.
LEMMA ProgressStep ==
  ASSUME TypeOK, ControlInv, Left \in Measures, Left' \in Measures, [Next]_vars,
         ~ UNCHANGED vars
  PROVE  Lower(Left, Left')
<1>0. /\ NumClusters \in Nat /\ NumSolutions \in Nat /\ Len(BenchmarkList) \in Nat
      /\ Executions \in Nat
      /\ cluster \in Nat /\ solution \in Nat /\ bench \in Nat /\ exec \in Nat
      /\ call \in Nat
      /\ MainLeft \in Nat /\ StagesLeft \in Nat /\ LineLeft \in Nat
  BY ConstantTypes DEF TypeOK, DriverTypeOK, ChildTypeOK, MainLeft, StagesLeft,
     LineLeft
<1> DEFINE Shell == MainLeft' = MainLeft /\ UNCHANGED <<cluster, solution>>
           Visits == Shell /\ main = "child" /\ main' = "child"
           Stays == Visits /\ StagesLeft' = StagesLeft /\ bench' = bench
           calls == Calls(ThisBenchmark)
<1>a1. MainLeft' < MainLeft => Lower(Left, Left')
  <2> SUFFICES ASSUME MainLeft' < MainLeft PROVE Lower(Left, Left')
    OBVIOUS
  <2>1. Left'[1] < Left[1] /\ \A j \in 1 .. 1 - 1 : Left'[j] = Left[j]
    BY LeftParts, LeftPartsAfter
  <2> QED
    BY <2>1, LowerFirst
<1>a2. MainLeft' = MainLeft /\ cluster' = cluster + 1 => Lower(Left, Left')
  <2> SUFFICES ASSUME MainLeft' = MainLeft, cluster' = cluster + 1
               PROVE  Lower(Left, Left')
    OBVIOUS
  <2>1. NumClusters - (cluster + 1) < NumClusters - cluster
    BY <1>0
  <2>2. \A j \in 1 .. 2 - 1 : Left'[j] = Left[j]
    BY LeftParts, LeftPartsAfter
  <2>3. Left'[2] < Left[2]
    BY <2>1, LeftParts, LeftPartsAfter
  <2> QED
    BY <2>2, <2>3, LowerFirst
<1>a3. MainLeft' = MainLeft /\ cluster' = cluster /\ solution' = solution + 1
         => Lower(Left, Left')
  <2> SUFFICES ASSUME MainLeft' = MainLeft, cluster' = cluster, solution' = solution + 1
               PROVE  Lower(Left, Left')
    OBVIOUS
  <2>1. NumSolutions - (solution + 1) < NumSolutions - solution
    BY <1>0
  <2>2. \A j \in 1 .. 3 - 1 : Left'[j] = Left[j]
    BY LeftParts, LeftPartsAfter
  <2>3. Left'[3] < Left[3]
    BY <2>1, LeftParts, LeftPartsAfter
  <2> QED
    BY <2>2, <2>3, LowerFirst
<1>a4. Shell /\ main = "child" /\ main' # "child" => Lower(Left, Left')
  <2> SUFFICES ASSUME Shell, main = "child", main' # "child" PROVE Lower(Left, Left')
    OBVIOUS
  <2>1. Left'[4] < Left[4] /\ \A j \in 1 .. 4 - 1 : Left'[j] = Left[j]
    BY LeftParts, LeftPartsAfter
  <2> QED
    BY <2>1, LowerFirst
<1>a5. Visits /\ StagesLeft' < StagesLeft => Lower(Left, Left')
  <2> SUFFICES ASSUME Visits, StagesLeft' < StagesLeft PROVE Lower(Left, Left')
    OBVIOUS
  <2>1. Left'[5] < Left[5] /\ \A j \in 1 .. 5 - 1 : Left'[j] = Left[j]
    BY LeftParts, LeftPartsAfter
  <2> QED
    BY <2>1, LowerFirst
<1>a6. Visits /\ StagesLeft' = StagesLeft /\ bench' = bench + 1 => Lower(Left, Left')
  <2> SUFFICES ASSUME Visits, StagesLeft' = StagesLeft, bench' = bench + 1
               PROVE  Lower(Left, Left')
    OBVIOUS
  <2>1. Len(BenchmarkList) - (bench + 1) < Len(BenchmarkList) - bench
    BY <1>0
  <2>2. \A j \in 1 .. 6 - 1 : Left'[j] = Left[j]
    BY LeftParts, LeftPartsAfter
  <2>3. Left'[6] < Left[6]
    BY <2>1, LeftParts, LeftPartsAfter
  <2> QED
    BY <2>2, <2>3, LowerFirst
<1>a7. Stays /\ LineLeft' < LineLeft => Lower(Left, Left')
  <2> SUFFICES ASSUME Stays, LineLeft' < LineLeft PROVE Lower(Left, Left')
    OBVIOUS
  <2>1. Left'[7] < Left[7] /\ \A j \in 1 .. 7 - 1 : Left'[j] = Left[j]
    BY LeftParts, LeftPartsAfter
  <2> QED
    BY <2>1, LowerFirst
<1>a8. Stays /\ LineLeft' = LineLeft /\ exec' = exec + 1 => Lower(Left, Left')
  <2> SUFFICES ASSUME Stays, LineLeft' = LineLeft, exec' = exec + 1
               PROVE  Lower(Left, Left')
    OBVIOUS
  <2>1. Executions + 1 - (exec + 1) < Executions + 1 - exec
    BY <1>0
  <2>2. \A j \in 1 .. 8 - 1 : Left'[j] = Left[j]
    BY LeftParts, LeftPartsAfter
  <2>3. Left'[8] < Left[8]
    BY <2>1, LeftParts, LeftPartsAfter
  <2> QED
    BY <2>2, <2>3, LowerFirst
<1>a9. Stays /\ LineLeft' = LineLeft /\ exec' = exec /\ Left'[9] < Left[9]
         => Lower(Left, Left')
  <2> SUFFICES ASSUME Stays, LineLeft' = LineLeft, exec' = exec, Left'[9] < Left[9]
               PROVE  Lower(Left, Left')
    OBVIOUS
  <2>1. \A j \in 1 .. 9 - 1 : Left'[j] = Left[j]
    BY LeftParts, LeftPartsAfter
  <2> QED
    BY <2>1, LowerFirst
<1> USE DEF mainVars, loopVars, clusterVars, historyVars
<1>1. CASE InitBDEv
  BY <1>1, <1>a1 DEF InitBDEv, MainLeft
<1>2. CASE NextCluster
  <2>1. MainLeft' = MainLeft /\ cluster' = cluster + 1
    BY <1>2 DEF NextCluster, LaunchChild, MainLeft
  <2> QED
    BY <2>1, <1>a2
<1>3. CASE NextSolution
  <2>1. \/ MainLeft' = MainLeft /\ cluster' = cluster /\ solution' = solution + 1
        \/ MainLeft' < MainLeft
    BY <1>3 DEF NextSolution, LaunchChild, Exit, MainLeft
  <2> QED
    BY <2>1, <1>a1, <1>a3
<1>4. CASE FinishBDEv
  BY <1>4, <1>a1 DEF FinishBDEv, MainLeft
<1>5. CASE Boot \/ Deploy \/ Configure \/ FinishChild
  <2>1. /\ main = "child" /\ UNCHANGED <<cluster, solution>>
        /\ \/ main' = "loop"
           \/ main' = "child" /\ StagesLeft' < StagesLeft
    BY <1>5 DEF Boot, Deploy, Configure, FinishChild, ExitChild, ControlInv, StagesLeft
  <2> QED
    BY <2>1, <1>a4, <1>a5 DEF MainLeft
<1>6. CASE LeaveSafeMode \/ Prepare \/ \E way \in StartWays : Start(way)
  <2>1. /\ main = "child" /\ main' = "child" /\ UNCHANGED <<cluster, solution>>
        /\ StagesLeft' < StagesLeft
    BY <1>6 DEF LeaveSafeMode, Prepare, Start, ControlInv, StagesLeft
  <2> QED
    BY <2>1, <1>a5 DEF MainLeft
<1>7. CASE \/ NextBenchmark \/ NextExecution \/ EndExecution \/ EndExecutions
           \/ WriteReport \/ \E outcome \in Outcomes : RunBenchmark(outcome)
  <2>1. /\ main = "child" /\ main' = "child" /\ UNCHANGED <<cluster, solution>>
        /\ StagesLeft' = StagesLeft
    BY <1>7 DEF NextBenchmark, NextExecution, EndExecution, EndExecutions, WriteReport,
       RunBenchmark, ControlInv, StagesLeft
  <2>2. Visits /\ StagesLeft' = StagesLeft
    BY <2>1 DEF MainLeft
  <2> HIDE DEF Visits
  <2>3. CASE NextBenchmark
    BY <2>2, <2>3, <1>a6 DEF NextBenchmark
  <2>4. CASE NextExecution \/ EndExecutions \/ WriteReport
    <3>1. /\ bench' = bench
          /\ \/ LineLeft' < LineLeft
             \/ LineLeft' = LineLeft /\ exec' = exec + 1
      BY <2>4 DEF NextExecution, EndExecutions, WriteReport, LineLeft
    <3> QED
      BY <2>2, <3>1, <1>a7, <1>a8
  <2>5. CASE EndExecution \/ \E outcome \in Outcomes : RunBenchmark(outcome)
    <3>1. /\ bench' = bench /\ exec' = exec /\ child = "calls"
          /\ \/ LineLeft' < LineLeft
             \/ /\ LineLeft' = LineLeft
                /\ \/ child' = "exec" /\ call = calls
                   \/ child' = "calls" /\ call' = call + 1
      BY <2>5 DEF EndExecution, RunBenchmark, LineLeft
    <3>2. calls' = calls /\ calls \in Nat
      BY <3>1, CallsType DEF ThisBenchmark
    <3>3. LineLeft' = LineLeft => Left'[9] < Left[9]
      <4>1. Left[9] = calls - call + 1
        BY <3>1, LeftParts
      <4>2. CASE child' = "exec" /\ call = calls
        <5>1. Left'[9] = 0 /\ 0 < calls - call + 1
          BY <3>2, <4>2, LeftPartsAfter
        <5> QED
          BY <4>1, <5>1
      <4>3. CASE child' = "calls" /\ call' = call + 1
        <5>1. Left'[9] = calls - (call + 1) + 1
          BY <3>2, <4>3, LeftPartsAfter
        <5>2. calls - (call + 1) + 1 < calls - call + 1
          BY <1>0, <3>2
        <5> QED
          BY <4>1, <5>1, <5>2
      <4> QED
        BY <1>0, <3>1, <4>2, <4>3
    <3> QED
      BY <2>2, <3>1, <3>3, <1>a7, <1>a9
  <2> QED
    BY <1>7, <2>3, <2>4, <2>5
<1> QED
  BY <1>1, <1>2, <1>3, <1>4, <1>5, <1>6, <1>7
     DEF Next, Driver, Child, Workload, Terminated

\* Every step leaves less to do than before, whatever fails.
THEOREM ProgressHolds == Spec => Progress
<1> DEFINE Inv == SafetyInv /\ TimesInv /\ LengthInv
           Measured == Left \in Measures
<1>1. Init => Inv
  BY SafetyInit, TimesInit DEF Init, LengthInv
<1>2. Inv /\ [Next]_vars => Inv'
  BY SafetyNext, TimesNext, LengthNext DEF SafetyInv
<1>3. Inv => Measured
  BY LeftType DEF SafetyInv
<1>4. Inv /\ Measured /\ Measured' /\ [Next]_vars
        => [Lower(Left, Left') /\ {Left, Left'} \subseteq Measures]_vars
  BY ProgressStep DEF SafetyInv
<1> QED
  BY <1>1, <1>2, <1>3, <1>4, PTL DEF Spec, Progress

\* A measure cannot be lowered for ever: with ProgressHolds, an evaluation makes
\* finitely many steps that change anything, for all its constants.
THEOREM NoEndlessDescent ==
  ~ \E f \in [Nat -> Measures] : \A n \in Nat : Lower(f[n], f[n + 1])
<1> DEFINE Less  == {p \in Nat \X Nat : p[1] < p[2]}
           Order == LexProductOrdering(Less, Nat, 9)
<1>1. IsWellFoundedOn(Less, Nat)
  BY NatLessThanWellFounded DEF OpToRel
<1> HIDE DEF Less
<1>2. IsWellFoundedOn(Order, Measures)
  BY <1>1, WFLexProductOrdering DEF Measures
<1>3. ASSUME NEW s \in Measures, NEW t \in Measures, Lower(s, t)
      PROVE  <<t, s>> \in Order
  <2>1. PICK k \in 1 .. 9 : t[k] < s[k] /\ \A j \in 1 .. k - 1 : t[j] = s[j]
    BY <1>3 DEF Lower
  <2>2. <<t[k], s[k]>> \in Less
    BY <2>1 DEF Measures, Less
  <2> QED
    BY <2>1, <2>2 DEF LexProductOrdering, Measures
<1> SUFFICES ASSUME NEW f \in [Nat -> Measures],
                    \A n \in Nat : Lower(f[n], f[n + 1])
             PROVE  FALSE
  OBVIOUS
<1>4. \A n \in Nat : <<f[n + 1], f[n]>> \in Order
  <2> HIDE DEF Order
  <2> QED
    BY <1>3
<1> HIDE DEF Order
<1> QED
  BY <1>2, <1>4 DEF IsWellFoundedOn

-----------------------------------------------------------------------------
Report == INSTANCE Campaign_proofs WITH
  Visits <- NumVisits, Workloads <- Len(BenchmarkList),
  visit <- Launched, over <- Over, log <- Seen(report)

\* The report that write_report leaves is well formed, whatever fails.
THEOREM ReportHolds == Spec => []ReportWellFormed
<1>1. Report!CampaignAssumption
  BY ConstantTypes, Products DEF NumVisits, Report!CampaignAssumption
<1>2. Report!Spec => []Report!WellFormed
  BY <1>1, Report!CampaignReport
<1>3. Promise!Init => Report!Init
  BY DEF Report!Init, Promise!Init
<1>4. [Promise!Next]_(Promise!vars) => [Report!Next]_(Report!vars)
  BY DEF Report!Next, Report!vars, Report!Launch, Report!Publish, Report!End,
     Report!Settled, Report!Failed, Report!Reported, Report!Last, Report!Results,
     Report!Endings,
     Promise!Next, Promise!vars, Promise!Launch, Promise!Publish, Promise!End,
     Promise!Settled, Promise!Failed, Promise!Reported, Promise!Last,
     Promise!Results, Promise!Endings
<1>5. Report!WellFormed => ReportWellFormed
  BY DEF ReportWellFormed, Report!WellFormed, Report!Follows, Report!Closes, Report!Last,
     Promise!WellFormed, Promise!Follows, Promise!Closes, Promise!Last
<1> QED
  BY <1>2, <1>3, <1>4, <1>5, PromiseHolds, PTL DEF PromiseKept, Promise!Spec,
     Report!Spec

=============================================================================
