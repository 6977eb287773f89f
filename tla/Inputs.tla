------------------------------- MODULE Inputs -------------------------------
(***************************************************************************)
(* Which storage directory every workload reads its input from.            *)
(*                                                                         *)
(* benchmarks/common/conf/configure.sh turns the list of workloads into a  *)
(* set of GEN_* flags, one per workload that needs an input, and names one *)
(* directory per workload.  benchmarks/common/bin/prepare.sh generates the *)
(* directories, except that a workload whose input would equal the one of  *)
(* an earlier workload (a donor) is redirected to the donor's directory.   *)
(* Directories are identified with the workload they are named after.      *)
(***************************************************************************)
EXTENDS Naturals, Sequences

CONSTANT DataSize    \* size asked for each input (DATASIZE, PAGES, USERVISITS)

\* Workloads with a GEN_* flag that makes prepare.sh generate an input.
InputBenchmarks ==
  {"wordcount", "sort", "grep", "terasort", "tpcx_hs", "pagerank",
   "connected_components", "kmeans", "bayes", "aggregation", "join", "scan"}

\* Every workload name that configure.sh accepts.
BenchmarkNames == InputBenchmarks \union {"testdfsio", "command"}

ASSUME DataSizeAssumption == DataSize \in [InputBenchmarks -> Nat]

\* The GEN_* flags that are true for a sequence of workloads.
Gen(benchmarks) ==
  {b \in InputBenchmarks : \E k \in DOMAIN benchmarks : benchmarks[k] = b}

\* The donors of a workload, in the order in which prepare.sh tries them.
Donors(b) ==
  CASE b = "sort"                 -> <<"wordcount">>
    [] b = "grep"                 -> <<"wordcount", "sort">>
    [] b = "connected_components" -> <<"pagerank">>
    [] b = "join"                 -> <<"aggregation">>
    [] b = "scan"                 -> <<"aggregation", "join">>
    [] OTHER                      -> <<>>

-----------------------------------------------------------------------------
\* Fault: the flag is tested but not the size.
UsableIgnoringSize(gen, b, d) == d \in gen

\* A donor is usable when it is generated too and asks for the same size.
Usable(gen, b, d) == d \in gen /\ DataSize[b] = DataSize[d]

-----------------------------------------------------------------------------
\* The first usable donor of b, b itself when there is none.
Donor(gen, b) ==
  LET usable == {k \in DOMAIN Donors(b) : Usable(gen, b, Donors(b)[k])}
  IN  IF usable = {}
        THEN b
        ELSE Donors(b)[CHOOSE k \in usable : \A j \in usable : k <= j]

\* INPUT_<b> once prepare.sh is over.  The donor's own variable is copied, so
\* a donor that was redirected itself passes its redirection on.
InputDir(gen, b) == Donor(gen, Donor(gen, b))

\* The directories prepare.sh generates, given the ones that exist.
ToGenerate(gen, existing) ==
  {b \in gen : Donor(gen, b) = b} \ existing

=============================================================================
