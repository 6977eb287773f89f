---------------------------- MODULE MCMonitoring ----------------------------
(***************************************************************************)
(* Instances of Monitoring for TLC.                                        *)
(***************************************************************************)
EXTENDS Monitoring

\* The master and two slaves.
Cluster == <<"master", "slave1", "slave2">>

\* A host file with one node: the node is the master and its own slave.
OneNode == <<"master", "master">>

=============================================================================
