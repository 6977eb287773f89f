---------------------------- MODULE MCEvaluation ----------------------------
(***************************************************************************)
(* Instances of Evaluation for TLC.                                        *)
(***************************************************************************)
EXTENDS Evaluation

CONSTANTS v1, v2    \* versions of Hadoop

Fw(name, hadoop) == [name |-> name, hadoop |-> hadoop, installed |-> TRUE]
Missing(name, hadoop) == [name |-> name, hadoop |-> hadoop, installed |-> FALSE]

\* Every input of size 1, except grep's.
MCDataSize == [b \in InputBenchmarks |-> IF b = "grep" THEN 2 ELSE 1]

\* The default timeout, except for sort (none) and grep (its own).
MCTimeoutOf ==
  [b \in BenchmarkNames |->
     CASE b = "sort" -> 0 [] b = "grep" -> 5 [] OTHER -> Unset]

\* Every workload gets the default timeout.
MCNoTimeouts == [b \in BenchmarkNames |-> Unset]

None == <<>>

OneSize  == <<4>>
TwoSizes == <<2, 4>>

\* The version changes and changes back; one framework of every life cycle.
Changing ==
  <<Fw("Flink-YARN", v1), Fw("Spark", v2), Fw("Hadoop-YARN", v1)>>

\* One version; the last framework is standalone.
SameVersion == <<Fw("RDMA-Hadoop-3", v1), Fw("Spark-YARN", v1), Fw("Flink", v1)>>

\* The second framework does not support testdfsio, the third is missing.
Uninstalled ==
  <<Fw("Hadoop-YARN", v1), Fw("Flink", v1), Missing("Spark", v2), Fw("Spark", v1)>>

OneWorkload == <<"wordcount">>
Reusing     == <<"wordcount", "sort", "grep">>
Io          == <<"testdfsio", "sort">>

=============================================================================
