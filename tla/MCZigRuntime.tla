---------------------------- MODULE MCZigRuntime ----------------------------
(***************************************************************************)
(* A small instance of ZigRuntime, with the dependency graph               *)
(* (DependencyGraph) and placement (ReplicaPlacement) as two more parts.   *)
(***************************************************************************)
EXTENDS ZigRuntime, TLC

VARIABLES enabled, edges, nodes

Symmetric == Permutations(Nodes)

Graph == INSTANCE DependencyGraph
    WITH FeatureSeq <- <<"ubiq", "crypto", "supervisor">>, MaxEdges <- 3

\* One node more than the array holds; the keys rank the nodes differently.
Scores == [x |-> [a |-> 1, b |-> 3, c |-> 2, d |-> 4], y |-> [a |-> 3, b |-> 1, c |-> 4, d |-> 2]]
Replication == INSTANCE ReplicaPlacement
    WITH Processes <- {1, 2}, Nodes <- {"a", "b", "c", "d"}, Keys <- {"x", "y"},
         Score <- Scores, MaxNodes <- 3

searches == <<enabled, edges, nodes>>
PartVars == <<RuntimeVars, searches>>

PartInit ==
    /\ part \in {"lock", "authority", "stream", "window", "health", "queue", "graph", "placement"}
    /\ RuntimeInit /\ Graph!Init /\ Replication!Init
    /\ part # "graph" => enabled = {}

PartNext ==
    \/ RuntimeNext /\ UNCHANGED searches
    \/ part = "graph" /\ Graph!Next /\ UNCHANGED <<RuntimeVars, nodes>>
    \/ part = "placement" /\ Replication!Next /\ UNCHANGED <<RuntimeVars, enabled, edges>>

PartSpec == PartInit /\ [][PartNext]_PartVars

-----------------------------------------------------------------------------
\* detectCycles finds a cycle exactly when some feature requires itself, and a
\* configuration that validate accepts has a bootstrap order.
GraphDecided == part = "graph" => Graph!CyclesFound /\ Graph!ValidatedBoots

\* The repeated scan of replicasFor selects distinct healthy nodes with the best
\* scores, as many as there are up to the factor, and processes that know the same
\* nodes with the same health select the same, whatever order they learnt of them
\* in.
PlacementFaithful ==
    part = "placement" => Replication!BestHealthy /\ Replication!SameReplicas
=============================================================================
