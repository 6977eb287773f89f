--------------------------- MODULE Campaign_proofs ---------------------------
(***************************************************************************)
(* The report of a campaign is well formed, whatever the number of visits  *)
(* and of workloads.                                                       *)
(***************************************************************************)
EXTENDS Campaign, SequenceTheorems, TLAPS

\* Reported is a number of workloads.
LEMMA ReportedType ==
  ASSUME CampaignAssumption, TypeOK PROVE Reported \in 0 .. Workloads
<1>1. log # <<>> => Last \in Lines
  BY DEF TypeOK, Last
<1> QED
  BY <1>1 DEF CampaignAssumption, Reported, Lines

LEMMA CampaignInit == ASSUME CampaignAssumption, Init PROVE CampaignInv
<1>1. TypeOK
  BY EmptySeq DEF CampaignAssumption, Init, TypeOK
<1>2. LogInv /\ WellFormed
  BY DEF Init, LogInv, WellFormed
<1> QED
  BY <1>1, <1>2 DEF CampaignInv

\* A line is added to the report and no other is touched.
LEMMA PublishedLine ==
  ASSUME CampaignAssumption, TypeOK, NEW result \in Results, Publish(result)
  PROVE  LET line == [visit |-> visit, bench |-> Reported + 1, result |-> result]
         IN  /\ line \in Lines
             /\ Len(log) \in Nat
             /\ Len(log') = Len(log) + 1
             /\ log'[Len(log) + 1] = line
             /\ Last' = line
             /\ \A n \in 1 .. Len(log) : log'[n] = log[n]
             /\ log' # <<>>
             /\ log # <<>> => Len(log) > 0
<1> USE DEF CampaignAssumption, TypeOK
<1>1. [visit |-> visit, bench |-> Reported + 1, result |-> result] \in Lines
  BY ReportedType DEF Publish, Lines
<1> QED
  BY <1>1 DEF Publish, Last

LEMMA CampaignTypes == ASSUME CampaignAssumption, TypeOK, [Next]_vars PROVE TypeOK'
<1> USE DEF CampaignAssumption, TypeOK
<1>1. CASE Launch
  BY <1>1 DEF Launch
<1>2. ASSUME NEW result \in Results, Publish(result) PROVE TypeOK'
  BY <1>2, PublishedLine DEF Publish
<1>3. ASSUME NEW how \in Endings, End(how) PROVE TypeOK'
  BY <1>3 DEF End
<1>4. CASE UNCHANGED vars
  BY <1>4 DEF vars
<1> QED
  BY <1>1, <1>2, <1>3, <1>4 DEF Next

LEMMA CampaignLog == ASSUME CampaignAssumption, CampaignInv, [Next]_vars PROVE LogInv'
<1> USE DEF CampaignAssumption, CampaignInv, LogInv, TypeOK
<1>0. log # <<>> => Last \in Lines
  BY DEF Last
<1>1. CASE Launch
  BY <1>0, <1>1 DEF Launch, Settled, Failed, Reported, Closes, Last, Lines
<1>2. ASSUME NEW result \in Results, Publish(result) PROVE LogInv'
  BY <1>2, PublishedLine DEF Publish
<1>3. ASSUME NEW how \in Endings, End(how) PROVE LogInv'
  BY <1>0, <1>3 DEF End, Settled, Failed, Reported, Closes, Last, Lines
<1>4. CASE UNCHANGED vars
  BY <1>4 DEF vars, Closes, Last
<1> QED
  BY <1>1, <1>2, <1>3, <1>4 DEF Next

LEMMA CampaignShape == ASSUME CampaignAssumption, CampaignInv, [Next]_vars PROVE WellFormed'
<1> USE DEF CampaignAssumption, CampaignInv, WellFormed
<1>1. CASE Launch
  BY <1>1 DEF Launch, Follows, Closes, Last
<1>2. ASSUME NEW result \in Results, Publish(result) PROVE WellFormed'
  <2> DEFINE line == [visit |-> visit, bench |-> Reported + 1, result |-> result]
  <2>1. log # <<>> => Last \in Lines
    BY DEF TypeOK, Last
  <2>2. log # <<>> => Follows(Last, line)
    BY <1>2, <2>1 DEF LogInv, TypeOK, Follows, Lines, Publish, Reported, Failed
  <2>3. /\ Len(log) \in Nat /\ Len(log') = Len(log) + 1
        /\ log'[Len(log) + 1] = line
        /\ \A n \in 1 .. Len(log) : log'[n] = log[n]
    BY <1>2, PublishedLine
  <2>4. ASSUME NEW n \in 1 .. Len(log') - 1 PROVE Follows(log'[n], log'[n + 1])
    <3>1. CASE n = Len(log)
      <4>1. log' # <<>> /\ log # <<>>
        BY <2>3, <3>1
      <4>2. log'[n] = Last /\ log'[n + 1] = line
        BY <2>3, <3>1 DEF Last
      <4> QED
        BY <2>2, <4>1, <4>2
    <3>2. CASE n < Len(log)
      <4>1. n \in 1 .. Len(log) - 1 /\ log'[n] = log[n] /\ log'[n + 1] = log[n + 1]
        BY <2>3, <3>2
      <4> QED
        BY <4>1 DEF Follows, Closes
    <3> QED
      BY <2>3, <3>1, <3>2
  <2>5. log'[1].bench = 1
    <3>1. CASE log = <<>>
      BY <2>3, <3>1 DEF Reported
    <3>2. CASE log # <<>>
      <4>1. 1 \in 1 .. Len(log)
        BY <3>2 DEF TypeOK
      <4> QED
        BY <2>3, <3>2, <4>1
    <3> QED
      BY <3>1, <3>2
  <2>6. over' = "no"
    BY <1>2 DEF Publish
  <2>7. (\A n \in 1 .. Len(log) - 1 : Follows(log[n], log[n + 1]))'
    BY <2>4 DEF Follows, Closes
  <2> QED
    BY <2>5, <2>6, <2>7
<1>3. ASSUME NEW how \in Endings, End(how) PROVE WellFormed'
  BY <1>3, CampaignLog DEF End, LogInv, Next, Follows, Closes, Last
<1>4. CASE UNCHANGED vars
  BY <1>4 DEF vars, Follows, Closes, Last
<1> QED
  BY <1>1, <1>2, <1>3, <1>4 DEF Next

\* The report of every campaign is well formed.
THEOREM CampaignReport ==
  ASSUME CampaignAssumption PROVE Spec => []WellFormed
<1>0. Init => CampaignInv
  BY CampaignInit
<1>1. CampaignInv /\ [Next]_vars => CampaignInv'
  BY CampaignTypes, CampaignLog, CampaignShape DEF CampaignInv
<1>2. CampaignInv => WellFormed
  BY DEF CampaignInv
<1> QED
  BY <1>0, <1>1, <1>2, PTL DEF Spec

=============================================================================
