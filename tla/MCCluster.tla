------------------------------ MODULE MCCluster ------------------------------
(***************************************************************************)
(* A small instance of Cluster.                                            *)
(***************************************************************************)
EXTENDS Cluster, TLC

\* Three nodes with one address each, and two keys that rank them differently.
TrioAddresses == [n \in {"n1", "n2", "n3"} |-> {n}]
TrioRank == [k \in {"k", "l"} |-> [n \in {"n1", "n2", "n3"} |->
    CASE n = "n1" -> IF k = "k" THEN 1 ELSE 3
      [] n = "n2" -> 2
      [] n = "n3" -> IF k = "k" THEN 3 ELSE 1]]

Symmetric == Permutations(Replicas) \cup Permutations(Coordinators)
=============================================================================
