--------------------------- MODULE ClusterReplicas ---------------------------
(***************************************************************************)
(* The replicated state machine of cluster_raft.go: every replica applies  *)
(* the committed commands in order to its own copy of the cluster map,     *)
(* takes snapshots of it while it goes on applying, and starts again from  *)
(* a snapshot, its own after a restart or another replica's when it lags.  *)
(*                                                                         *)
(* Raft itself (agreement on the log, when snapshots are taken and sent)   *)
(* is external.  history holds the state after each command, as one        *)
(* machine that never stops would compute it.                              *)
(***************************************************************************)
EXTENDS Naturals, Sequences

CONSTANTS Replicas, Members, Values,
          Absent,   \* a node without an entry
          MaxLog    \* bound: committed commands

ASSUME ReplicaAssumption == MaxLog \in Nat /\ Absent \notin Values

VARIABLES
    log,       \* the committed commands
    history,   \* history[i + 1]: the state after the first i commands
    fsm,       \* per replica, the state of its clusterFSM
    applied,   \* per replica, the commands its state includes
    taking,    \* per replica, the snapshot being written
    snapshot   \* per replica, the newest snapshot in its store

logVars == <<log, history, fsm, applied, taking, snapshot>>

State == [epoch : Nat, nodes : [Members -> Values \cup {Absent}]]
Command == [op : {"upsert", "delete", "other"}, node : Members, value : Values]
newClusterFSM == [epoch |-> 0, nodes |-> [n \in Members |-> Absent]]
Snap(index, state) == [index |-> index, state |-> state]
Empty == Snap(0, newClusterFSM)

LogInit ==
    /\ log = <<>>
    /\ history = <<newClusterFSM>>
    /\ fsm = [r \in Replicas |-> newClusterFSM]
    /\ applied = [r \in Replicas |-> 0]
    /\ taking = [r \in Replicas |-> Empty]
    /\ snapshot = [r \in Replicas |-> Empty]

\* Apply: an upsert or a delete changes the map and counts; anything else is an
\* error and changes nothing.
Put(s, n, v) == [epoch |-> s.epoch + 1, nodes |-> [s.nodes EXCEPT ![n] = v]]
Uncounted(s, n) == [epoch |-> s.epoch, nodes |-> [s.nodes EXCEPT ![n] = Absent]]
Dropped(s, n) == Put(s, n, Absent)
Apply(s, cmd) ==
    CASE cmd.op = "upsert" -> Put(s, cmd.node, cmd.value)
      [] cmd.op = "delete" -> Dropped(s, cmd.node)
      [] OTHER -> s

Commit(cmd) ==
    /\ Len(log) < MaxLog
    /\ log' = Append(log, cmd)
    /\ history' = Append(history, Apply(history[Len(history)], cmd))
    /\ UNCHANGED <<fsm, applied, taking, snapshot>>

ApplyNext(r) ==
    /\ applied[r] < Len(log)
    /\ fsm' = [fsm EXCEPT ![r] = Apply(fsm[r], log[applied[r] + 1])]
    /\ applied' = [applied EXCEPT ![r] = applied[r] + 1]
    /\ UNCHANGED <<log, history, taking, snapshot>>

\* Snapshot encodes the state under the lock; Persist writes those bytes later.
Snapshot(r) ==
    /\ applied[r] > snapshot[r].index /\ taking[r] = Empty
    /\ taking' = [taking EXCEPT ![r] = Snap(applied[r], fsm[r])]
    /\ UNCHANGED <<log, history, fsm, applied, snapshot>>

LateState(r) == Snap(taking[r].index, fsm[r])
Encoded(r) == taking[r]
Persist(r) ==
    /\ taking[r] # Empty
    /\ snapshot' = [snapshot EXCEPT ![r] =
                       IF taking[r].index > snapshot[r].index THEN Encoded(r) ELSE @]
    /\ taking' = [taking EXCEPT ![r] = Empty]
    /\ UNCHANGED <<log, history, fsm, applied>>

\* A failed write cancels the sink.
PersistFails(r) ==
    /\ taking[r] # Empty
    /\ taking' = [taking EXCEPT ![r] = Empty]
    /\ UNCHANGED <<log, history, fsm, applied, snapshot>>

\* Restore replaces the whole state.
Install(r, q) ==
    /\ snapshot[q].index > applied[r]
    /\ fsm' = [fsm EXCEPT ![r] = snapshot[q].state]
    /\ applied' = [applied EXCEPT ![r] = snapshot[q].index]
    /\ snapshot' = [snapshot EXCEPT ![r] = snapshot[q]]
    /\ UNCHANGED <<log, history, taking>>

Restart(r) ==
    /\ fsm' = [fsm EXCEPT ![r] = snapshot[r].state]
    /\ applied' = [applied EXCEPT ![r] = snapshot[r].index]
    /\ taking' = [taking EXCEPT ![r] = Empty]
    /\ UNCHANGED <<log, history, snapshot>>

LogNext ==
    \/ \E cmd \in Command : Commit(cmd)
    \/ \E r \in Replicas :
         \/ ApplyNext(r) \/ Snapshot(r) \/ Persist(r) \/ PersistFails(r) \/ Restart(r)
         \/ \E q \in Replicas : Install(r, q)

LogSpec == LogInit /\ [][LogNext]_logVars

-----------------------------------------------------------------------------
\* Every replica's state is the one an uninterrupted machine has after the same
\* commands, whatever it restarted or was restored from; so is every snapshot.
ReplicasAgree ==
    \A r \in Replicas :
        /\ fsm[r] = history[applied[r] + 1]
        /\ snapshot[r].state = history[snapshot[r].index + 1]

\* The epoch that State and Placement report identifies the map: two replicas
\* that report the same epoch report the same nodes, even when one has seen
\* commands that the other has not.
EpochIdentifiesMap ==
    \A r, q \in Replicas : fsm[r].epoch = fsm[q].epoch => fsm[r].nodes = fsm[q].nodes
=============================================================================
