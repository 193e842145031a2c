------------------------------- MODULE Cluster -------------------------------
(***************************************************************************)
(* The cluster of the Go daemon: the leader's map (ClusterMap), the        *)
(* replicated state machine (ClusterReplicas) and one shard migration      *)
(* (ShardMove) to an SQL or a MongoDB destination.  They share no state: a *)
(* behaviour is one of a single part, named by the variable part, and the  *)
(* other parts stay as they start.                                         *)
(***************************************************************************)
EXTENDS ClusterMap, ClusterReplicas, ShardMove

\* The parameters of ShardMove are ones under which a migration is to keep its writes.
ASSUME MoveAssumption == MoveParameters

VARIABLE part

ClusterVars == <<part, vars, logVars, moveVars>>

ClusterInit ==
    /\ part \in {"map", "replicas", "move"}
    /\ Init /\ LogInit /\ MoveInit
    /\ part # "move" => kind = "sql" /\ src = dst

ClusterNext ==
    /\ UNCHANGED part
    /\ \/ part = "map" /\ Next /\ UNCHANGED <<logVars, moveVars>>
       \/ part = "replicas" /\ LogNext /\ UNCHANGED <<vars, moveVars>>
       \/ part = "move" /\ MoveNext /\ UNCHANGED <<vars, logVars>>

ClusterSpec == ClusterInit /\ [][ClusterNext]_ClusterVars
=============================================================================
