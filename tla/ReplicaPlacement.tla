-------------------------- MODULE ReplicaPlacement --------------------------
(***************************************************************************)
(* Placement in the Zig runtime (cluster.zig).  Every process keeps its    *)
(* own array of nodes, filled in the order in which it learnt of them, and *)
(* computes the replicas of a key from it: replicasFor selects the best    *)
(* healthy node that is not selected yet, again and again.  A collision of *)
(* the 64-bit hash is left out: nodes have different scores for a key.     *)
(***************************************************************************)
EXTENDS Naturals, SequencesExt

CONSTANTS Processes,
          Nodes,
          Keys,
          Score,      \* placementScore: per key and node
          MaxNodes    \* max_nodes: capacity of the array

VARIABLE nodes  \* per process its array

vars == <<nodes>>

Init == nodes = [p \in Processes |-> <<>>]

Known(p) == {nodes[p][i].id : i \in DOMAIN nodes[p]}

register(p, n, healthy) ==
    /\ n \notin Known(p) /\ Len(nodes[p]) < MaxNodes
    /\ nodes' = [nodes EXCEPT ![p] = Append(@, [id |-> n, healthy |-> healthy])]

setHealthy(p, i, healthy) ==
    /\ i \in DOMAIN nodes[p]
    /\ nodes' = [nodes EXCEPT ![p][i].healthy = healthy]

-----------------------------------------------------------------------------
Candidates(p, selected) ==
    {i \in DOMAIN nodes[p] : nodes[p][i].healthy /\ \A j \in DOMAIN selected : selected[j] # i}

\* The scan keeps the first one unless a later one is strictly better.
Best(p, key, S) ==
    CHOOSE i \in S : \A j \in S \ {i} :
        LET mine == Score[key][nodes[p][i].id]
            other == Score[key][nodes[p][j].id]
        IN  mine > other \/ (mine = other /\ i < j)

InArrayOrder(p, key, factor) ==
    LET healthy == {i \in DOMAIN nodes[p] : nodes[p][i].healthy}
        better(i) == {j \in healthy : Score[key][nodes[p][j].id] > Score[key][nodes[p][i].id]}
    IN  SetToSortSeq({i \in healthy : Cardinality(better(i)) < factor}, LAMBDA i, j : i < j)
replicasFor(p, key, factor) ==
    LET select[n \in 0..factor] ==
            IF n = 0 THEN <<>>
            ELSE LET selected == select[n - 1]
                     S == Candidates(p, selected)
                 IN  IF S = {} THEN selected ELSE Append(selected, Best(p, key, S))
    IN  select[factor]

Next ==
    \E p \in Processes, healthy \in BOOLEAN :
        \/ \E n \in Nodes : register(p, n, healthy)
        \/ \E i \in 1..MaxNodes : setHealthy(p, i, healthy)

Spec == Init /\ [][Next]_vars

-----------------------------------------------------------------------------
Membership(p) == {nodes[p][i] : i \in DOMAIN nodes[p]}
Ids(p, indexes) == [i \in DOMAIN indexes |-> nodes[p][indexes[i]].id]

\* "No central leader is required to compute the same replica set from the same
\* membership": processes that know the same nodes with the same health select
\* the same nodes in the same order, whatever order they learnt of them in.
SameReplicas ==
    \A p, q \in Processes : Membership(p) = Membership(q) =>
        \A k \in Keys, r \in 1..MaxNodes :
            Ids(p, replicasFor(p, k, r)) = Ids(q, replicasFor(q, k, r))

\* What the repeated scan selects is what the rendezvous rule asks for: as many
\* distinct healthy nodes as there are, up to the factor, and no healthy node
\* that is left out has a better score than one of them.
BestHealthy ==
    \A p \in Processes, k \in Keys, r \in 1..MaxNodes :
        LET chosen == replicasFor(p, k, r)
            healthy == {i \in DOMAIN nodes[p] : nodes[p][i].healthy}
            left == healthy \ ToSet(chosen)
            score(i) == Score[k][nodes[p][i].id]
        IN  /\ IsInjective(chosen) /\ ToSet(chosen) \subseteq healthy
            /\ Len(chosen) < r => left = {}
            /\ \A i \in left, c \in ToSet(chosen) : score(i) < score(c)
=============================================================================
