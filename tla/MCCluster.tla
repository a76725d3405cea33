------------------------------ MODULE MCCluster ------------------------------
(* An instance of Cluster for TLC.                                          *)
EXTENDS Cluster, TLC

Symmetric == Permutations(Clients) \cup Permutations(Targets)
=============================================================================
