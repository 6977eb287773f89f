------------------------------- MODULE Sampler -------------------------------
(***************************************************************************)
(* What a power monitor promises to whoever reads its files: samples at    *)
(* regular times, a row of each of them in every file, the files completed *)
(* one after the other before the next sample, and whole rows whenever the *)
(* monitor is stopped or killed (bin/rapl/rapl_plot).                      *)
(***************************************************************************)
EXTENDS Naturals, Sequences

CONSTANTS
  NumFiles,     \* files of a monitor
  MinPeriod,    \* least time between two samples
  MaxPeriod,    \* most time between two samples
  MaxSamples    \* bound: samples of a behaviour

\* What the theorems assume of them.
SamplerAssumption ==
  /\ NumFiles \in Nat \ {0}
  /\ MinPeriod \in Nat /\ MaxPeriod \in Nat /\ MinPeriod <= MaxPeriod
  /\ MaxSamples \in Nat

VARIABLES
  times,   \* the column TIME(s): when each sample was taken
  shown,   \* rows on disk, per file
  over     \* the monitor has stopped or was killed

svars == <<times, shown, over>>

\* When the last sample was taken.
Latest == IF times = <<>> THEN 0 ELSE times[Len(times)]

\* Every file has the row of every sample.
AllShown == \A f \in 1 .. NumFiles : shown[f] = Len(times)

Init ==
  /\ times = <<>>
  /\ shown = [f \in 1 .. NumFiles |-> 0]
  /\ over = "no"

\* The next sample, once the last one is in every file.
Sample(p) ==
  /\ over = "no" /\ AllShown
  /\ Len(times) < MaxSamples
  /\ times' = Append(times, Latest + p)
  /\ UNCHANGED <<shown, over>>

\* The row of the sample reaches file f, after the files before it.
Show(f) ==
  /\ over = "no"
  /\ shown[f] < Len(times)
  /\ \A g \in 1 .. f - 1 : shown[g] = Len(times)
  /\ shown' = [shown EXCEPT ![f] = Len(times)]
  /\ UNCHANGED <<times, over>>

\* The monitor ends or is killed, at any time.
Stop ==
  /\ over = "no" /\ over' = "yes"
  /\ UNCHANGED <<times, shown>>

\* Nothing is written after that.
Stopped == over = "yes" /\ UNCHANGED svars

Next ==
  \/ \E p \in MinPeriod .. MaxPeriod : Sample(p)
  \/ \E f \in 1 .. NumFiles : Show(f)
  \/ Stop \/ Stopped

Spec == Init /\ [][Next]_svars

-----------------------------------------------------------------------------
SamplerTypeOK ==
  /\ times \in Seq(Nat)
  /\ shown \in [1 .. NumFiles -> Nat]
  /\ over \in {"no", "yes"}

\* A reader of the files of a monitor, running or killed, finds them to differ
\* by the last row at most, the files that are written first having it.
RowsAgree ==
  \A f \in 1 .. NumFiles :
    /\ shown[f] \in {Len(times), Len(times) - 1}
    /\ \A g \in 1 .. f : shown[g] >= shown[f]

\* The k-th sample is k periods old, whatever time the rows took: the k-th rows
\* of two monitors can be added.
Scheduled ==
  \A k \in DOMAIN times :
    k * MinPeriod <= times[k] /\ times[k] <= k * MaxPeriod

SamplerInv == SamplerTypeOK /\ RowsAgree /\ Scheduled

=============================================================================
