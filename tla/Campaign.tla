------------------------------ MODULE Campaign ------------------------------
(***************************************************************************)
(* What an evaluation promises to the reader of its report.                *)
(*                                                                         *)
(* The visits (a framework on a cluster size) are made one after another   *)
(* and each at most once.  The lines of a visit name the workloads in the  *)
(* order of the list, none missing and none twice.  A visit reports either *)
(* nothing at all, or every workload up to the first that goes bad, or all *)
(* of them.  The evaluation ends after its last visit, unless it is given  *)
(* up between two visits.                                                  *)
(***************************************************************************)
EXTENDS Naturals, Sequences

CONSTANTS Visits,     \* number of visits
          Workloads   \* number of workloads

\* What the theorems assume of them.
CampaignAssumption == Visits \in Nat /\ Workloads \in Nat

VARIABLES visit,   \* visits launched so far
          over,    \* "no", or how the evaluation ended
          log      \* the report

vars == <<visit, over, log>>

Results == {"good", "bad"}
Endings == {"complete", "given up"}
Lines   == [visit : 1 .. Visits, bench : 1 .. Workloads, result : Results]

Last == log[Len(log)]

\* Workloads reported in this visit, and whether the last one went bad.
Reported == IF log # <<>> /\ Last.visit = visit THEN Last.bench ELSE 0
Failed   == Reported > 0 /\ Last.result = "bad"

\* Where a visit may be left; one that reported nothing was cut short.
Settled == Reported = 0 \/ Failed \/ Reported = Workloads

Init == visit = 0 /\ over = "no" /\ log = <<>>

Launch ==
  /\ over = "no" /\ Settled /\ visit < Visits
  /\ visit' = visit + 1
  /\ UNCHANGED <<over, log>>

Publish(result) ==
  /\ over = "no" /\ visit > 0 /\ ~Failed /\ Reported < Workloads
  /\ log' = Append(log, [visit |-> visit, bench |-> Reported + 1, result |-> result])
  /\ UNCHANGED <<visit, over>>

\* The end, or a host file or a framework that is missing.
End(how) ==
  /\ over = "no" /\ Settled
  /\ how = "complete" => visit = Visits
  /\ over' = how
  /\ UNCHANGED <<visit, log>>

Next ==
  \/ Launch
  \/ \E result \in Results : Publish(result)
  \/ \E how \in Endings : End(how)

Spec == Init /\ [][Next]_vars

-----------------------------------------------------------------------------
TypeOK ==
  /\ visit \in 0 .. Visits
  /\ over \in {"no"} \union Endings
  /\ log \in Seq(Lines)

\* A line after which a visit may be left.
Closes(line) == line.result = "bad" \/ line.bench = Workloads

\* The line that comes after another, of the same visit or of a later one.
Follows(last, line) ==
  IF line.visit = last.visit
    THEN last.result # "bad" /\ line.bench = last.bench + 1
    ELSE last.visit < line.visit /\ Closes(last) /\ line.bench = 1

\* The report, read on its own: the visits come in order, the lines of a visit
\* name the workloads from the first on, and a visit is left after a bad line, or
\* after the last workload, and never at any other line.
WellFormed ==
  /\ log # <<>> => log[1].bench = 1
  /\ \A n \in 1 .. Len(log) - 1 : Follows(log[n], log[n + 1])
  /\ over # "no" /\ log # <<>> => Closes(Last)

-----------------------------------------------------------------------------
\* A visit that is left was closed.
LogInv ==
  log # <<>> =>
    /\ Last.visit <= visit
    /\ Last.visit < visit \/ over # "no" => Closes(Last)

\* The inductive invariant behind WellFormed.
CampaignInv == TypeOK /\ LogInv /\ WellFormed

=============================================================================
