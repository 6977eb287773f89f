---------------------------- MODULE Sampler_proofs ----------------------------
(***************************************************************************)
(* What a sampler promises holds for any number of files and any periods.  *)
(***************************************************************************)
EXTENDS Sampler, SequenceTheorems, TLAPS

\* One period more.
LEMMA OneMore ==
  ASSUME NEW n \in Nat, NEW p \in Nat
  PROVE  n * p \in Nat /\ (n + 1) * p = n * p + p
OBVIOUS

\* The samples before a new one are not touched, and the new one comes last.
LEMMA Appended ==
  ASSUME NEW s \in Seq(Nat), NEW t \in Nat
  PROVE  /\ Append(s, t) \in Seq(Nat)
         /\ Len(Append(s, t)) = Len(s) + 1
         /\ \A k \in DOMAIN s : Append(s, t)[k] = s[k]
         /\ Append(s, t)[Len(s) + 1] = t
         /\ DOMAIN Append(s, t) = DOMAIN s \union {Len(s) + 1}
BY AppendProperties, LenProperties

\* The latest sample is on schedule.
LEMMA LatestOK ==
  ASSUME SamplerAssumption, SamplerTypeOK, Scheduled
  PROVE  /\ Latest \in Nat /\ Len(times) \in Nat
         /\ Len(times) * MinPeriod <= Latest /\ Latest <= Len(times) * MaxPeriod
<1>1. Len(times) \in Nat /\ (times # <<>> => Len(times) \in DOMAIN times)
  BY EmptySeq, LenProperties DEF SamplerTypeOK
<1>2. CASE times = <<>>
  BY <1>2, EmptySeq DEF SamplerAssumption, Latest
<1>3. CASE times # <<>>
  BY <1>1, <1>3, ElementOfSeq DEF SamplerAssumption, Latest, Scheduled, SamplerTypeOK
<1> QED BY <1>2, <1>3

\* Whatever its samples, files and periods, a sampler keeps what it promises.
THEOREM SamplerInvariant ==
  ASSUME SamplerAssumption PROVE Spec => []SamplerInv
<1>1. Init => SamplerInv
  BY EmptySeq DEF SamplerAssumption, Init, SamplerInv, SamplerTypeOK, RowsAgree, Scheduled
<1>2. SamplerInv /\ [Next]_svars => SamplerInv'
  <2> SUFFICES ASSUME SamplerInv, [Next]_svars
               PROVE  SamplerInv'
    OBVIOUS
  <2> USE DEF SamplerAssumption, SamplerInv
  <2>1. CASE \E p \in MinPeriod .. MaxPeriod : Sample(p)
    <3>1. PICK p \in MinPeriod .. MaxPeriod : Sample(p)
      BY <2>1
    <3>2. Latest \in Nat /\ Len(times) \in Nat /\ p \in Nat /\ Latest + p \in Nat
      BY LatestOK
    <3>3. times' = Append(times, Latest + p) /\ shown' = shown /\ over' = over
      BY <3>1 DEF Sample
    <3>4. SamplerTypeOK'
      BY <3>2, <3>3, Appended DEF SamplerTypeOK
    <3>5. Len(times') = Len(times) + 1
      BY <3>2, <3>3, Appended DEF SamplerTypeOK
    <3>6. RowsAgree'
      BY <3>1, <3>2, <3>3, <3>5 DEF RowsAgree, Sample, AllShown, SamplerTypeOK
    <3>7. ASSUME NEW k \in DOMAIN times'
          PROVE  k * MinPeriod <= times'[k] /\ times'[k] <= k * MaxPeriod
      <4>1. CASE k \in DOMAIN times
        BY <3>2, <3>3, <4>1, Appended DEF Scheduled, SamplerTypeOK
      <4>2. CASE k = Len(times) + 1
        <5>1. times'[k] = Latest + p
          BY <3>2, <3>3, <4>2, Appended DEF SamplerTypeOK
        <5>2. /\ k * MinPeriod = Len(times) * MinPeriod + MinPeriod
              /\ k * MaxPeriod = Len(times) * MaxPeriod + MaxPeriod
          BY <3>2, <4>2, OneMore
        <5>3. /\ Len(times) * MinPeriod \in Nat /\ Len(times) * MaxPeriod \in Nat
              /\ Len(times) * MinPeriod <= Latest /\ Latest <= Len(times) * MaxPeriod
          BY <3>2, LatestOK, OneMore
        <5> QED BY <3>2, <5>1, <5>2, <5>3
      <4> QED BY <3>2, <3>3, <4>1, <4>2, Appended DEF SamplerTypeOK
    <3> QED BY <3>4, <3>6, <3>7 DEF Scheduled
  <2>2. CASE \E f \in 1 .. NumFiles : Show(f)
    BY <2>2, LenProperties DEF Show, SamplerTypeOK, RowsAgree, Scheduled
  <2>3. CASE Stop \/ Stopped \/ UNCHANGED svars
    BY <2>3 DEF Stop, Stopped, svars, SamplerTypeOK, RowsAgree, Scheduled
  <2> QED BY <2>1, <2>2, <2>3 DEF Next
<1> QED BY <1>1, <1>2, PTL DEF Spec

\* The rows of the files agree but for the last one, for any sampler.
THEOREM RowsAgreeHolds ==
  ASSUME SamplerAssumption PROVE Spec => []RowsAgree
<1>1. SamplerInv => RowsAgree
  BY DEF SamplerInv
<1> QED BY <1>1, SamplerInvariant, PTL

\* Samples are taken on schedule, by any sampler.
THEOREM ScheduledHolds ==
  ASSUME SamplerAssumption PROVE Spec => []Scheduled
<1>1. SamplerInv => Scheduled
  BY DEF SamplerInv
<1> QED BY <1>1, SamplerInvariant, PTL

=============================================================================
