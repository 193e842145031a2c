----------------------------- MODULE ClusterMap -----------------------------
(***************************************************************************)
(* Cluster membership of the Go runtime (cluster_raft.go).  The leader     *)
(* keeps two things in step: the Raft configuration (AddVoter,             *)
(* RemoveServer) and the replicated map of nodes that Placement chooses    *)
(* from.  Join and Remove change one after the other and may end in        *)
(* between; Heartbeat writes an entry; ReapStale copies the map and then   *)
(* writes the entries it found stale, one by one.                          *)
(*                                                                         *)
(* Raft is external: a committed command takes effect at once, and         *)
(* ClusterReplicas shows what each replica makes of the log.  Time is an   *)
(* entry's heartbeat growing older than maxAge (Lapse).  Nodes are the     *)
(* members that come and go; the servers that keep the quorum are not      *)
(* among them.                                                             *)
(***************************************************************************)
EXTENDS Naturals, FiniteSets

CONSTANTS Nodes,
          AddressesOf,   \* per node, the addresses it may run at
          Keys,
          Rank,          \* rendezvousScore: per key a numbering of the nodes
          Replication,   \* replicas of a key
          Calls,         \* goroutines in Join, Remove or ReapStale
          None,
          MaxChanges     \* bound: starts and stops of nodes, calls cut short

ASSUME MapAssumption ==
    /\ Rank \in [Keys -> [Nodes -> Nat]]
    /\ Replication \in Nat \ {0} /\ MaxChanges \in Nat
    /\ IsFiniteSet(Nodes)

VARIABLES
    alive,    \* per node, the address its process runs at, or None
    voters,   \* Raft configuration: per node its address, or None
    entries,  \* the replicated map: per node its entry, or None
    call,     \* per goroutine: the operation, its next step and its data
    changes

vars == <<alive, voters, entries, call, changes>>

Idle == [op |-> "none", node |-> None, address |-> None, at |-> "idle", todo |-> {}, copy |-> None]
Entry(address, healthy, fresh) == [address |-> address, healthy |-> healthy, fresh |-> fresh]
NoEntries == [n \in Nodes |-> None]

Init ==
    /\ alive = [n \in Nodes |-> None]
    /\ voters = [n \in Nodes |-> None]
    /\ entries = NoEntries
    /\ call = [c \in Calls |-> Idle]
    /\ changes = 0

Changed == changes < MaxChanges /\ changes' = changes + 1
Goto(c, step) == call' = [call EXCEPT ![c].at = step]
Finish(c) == call' = [call EXCEPT ![c] = Idle]
At(c, op, step) == call[c].op = op /\ call[c].at = step

\* The FSM's "upsert".
Upsert(n, e) == entries' = [entries EXCEPT ![n] = e]

-----------------------------------------------------------------------------
\* The nodes' processes start at an address, and stop.
Start(n, a) ==
    /\ alive[n] = None /\ Changed
    /\ alive' = [alive EXCEPT ![n] = a]
    /\ UNCHANGED <<voters, entries, call>>

Stop(n) ==
    /\ alive[n] # None /\ Changed
    /\ alive' = [alive EXCEPT ![n] = None]
    /\ UNCHANGED <<voters, entries, call>>

KnownOnly(n) == alive[n] # None /\ entries[n] # None
HeartbeatDue(n) == alive[n] # None
Heartbeat(n) ==
    /\ HeartbeatDue(n)
    /\ Upsert(n, Entry(alive[n], TRUE, TRUE))
    /\ UNCHANGED <<alive, voters, call, changes>>

Lapse(n) ==
    /\ entries[n] # None /\ entries[n].fresh
    /\ Upsert(n, [entries[n] EXCEPT !.fresh = FALSE])
    /\ UNCHANGED <<alive, voters, call, changes>>

-----------------------------------------------------------------------------
\* Join: the configuration is read; a server of the same id or address that is
\* not exactly this one has to go first.
Conflicts(n, a) == {m \in Nodes : voters[m] # None /\ (m = n \/ voters[m] = a)}
Join(c, n) ==
    /\ call[c] = Idle /\ alive[n] # None
    /\ voters[n] # alive[n]
    /\ call' = [call EXCEPT ![c] = [Idle EXCEPT !.op = "join", !.node = n, !.address = alive[n],
                                    !.at = "remove", !.todo = Conflicts(n, alive[n])]]
    /\ UNCHANGED <<alive, voters, entries, changes>>

RemoveConflict(c, m) ==
    /\ At(c, "join", "remove") /\ m \in call[c].todo
    /\ voters' = [voters EXCEPT ![m] = None]
    /\ call' = [call EXCEPT ![c].todo = @ \ {m}]
    /\ UNCHANGED <<alive, entries, changes>>

\* Raft refuses a second server at an address.
AddVoter(c) ==
    /\ At(c, "join", "remove") /\ call[c].todo = {}
    /\ LET n == call[c].node
           a == call[c].address
       IN  IF \E m \in Nodes \ {n} : voters[m] = a
           THEN Finish(c) /\ UNCHANGED voters
           ELSE Goto(c, "upsert") /\ voters' = [voters EXCEPT ![n] = a]
    /\ UNCHANGED <<alive, entries, changes>>

UpsertJoined(c) ==
    /\ At(c, "join", "upsert")
    /\ Upsert(call[c].node, Entry(call[c].address, TRUE, TRUE))
    /\ Finish(c)
    /\ UNCHANGED <<alive, voters, changes>>

\* Remove: out of the configuration, then out of the map.
Remove(c, n) ==
    /\ call[c] = Idle /\ voters[n] # None /\ alive[n] = None
    /\ voters' = [voters EXCEPT ![n] = None]
    /\ call' = [call EXCEPT ![c] = [Idle EXCEPT !.op = "remove", !.node = n, !.at = "delete"]]
    /\ UNCHANGED <<alive, entries, changes>>

Delete(c) ==
    /\ At(c, "remove", "delete")
    /\ Upsert(call[c].node, None)
    /\ Finish(c)
    /\ UNCHANGED <<alive, voters, changes>>

\* ReapStale: a copy of the map, then the stale entries of the copy.
Stale == {n \in Nodes : entries[n] # None /\ entries[n].healthy /\ ~entries[n].fresh}
ReapStale(c) ==
    /\ call[c] = Idle /\ Stale # {}
    /\ call' = [call EXCEPT ![c] = [Idle EXCEPT !.op = "reap", !.at = "upsert",
                                    !.todo = Stale, !.copy = entries]]
    /\ UNCHANGED <<alive, voters, entries, changes>>

Unhealthy(e) == [e EXCEPT !.healthy = FALSE]
MarkUnhealthy(c, n) ==
    /\ At(c, "reap", "upsert") /\ n \in call[c].todo
    /\ Upsert(n, Unhealthy(call[c].copy[n]))
    /\ IF call[c].todo = {n} THEN Finish(c) ELSE call' = [call EXCEPT ![c].todo = @ \ {n}]
    /\ UNCHANGED <<alive, voters, changes>>

\* The leadership moves on, or a Raft call times out: the operation ends here.
CutShort(c) ==
    /\ call[c] # Idle /\ Changed
    /\ Finish(c)
    /\ UNCHANGED <<alive, voters, entries>>

-----------------------------------------------------------------------------
\* Placement: the healthy nodes with the highest scores of the key.
Healthy == {n \in Nodes : entries[n] # None /\ entries[n].healthy}
Above(k, n, S) == {m \in S : Rank[k][m] > Rank[k][n]}
ModuloCount(k, S) == {n \in S : (Rank[k][n] + Cardinality(S)) % 3 < Replication}
Top(k, S) == {n \in S : Cardinality(Above(k, n, S)) < Replication}
Enough == Cardinality(Healthy) >= Replication
Placement(k) == IF Enough THEN Top(k, Healthy) ELSE {}

Step(c) ==
    \/ AddVoter(c) \/ UpsertJoined(c) \/ Delete(c)
    \/ \E n \in Nodes : RemoveConflict(c, n) \/ MarkUnhealthy(c, n)

Next ==
    \/ \E n \in Nodes :
         \/ \E a \in AddressesOf[n] : Start(n, a)
         \/ Stop(n) \/ Heartbeat(n) \/ Lapse(n)
         \/ \E c \in Calls : Join(c, n) \/ Remove(c, n)
    \/ \E c \in Calls : ReapStale(c) \/ CutShort(c) \/ Step(c)

\* Processes that run send heartbeats, a silent entry grows old, calls go on,
\* and the leader reaps again and again, between other calls.
Fairness ==
    /\ \A n \in Nodes : WF_vars(Heartbeat(n)) /\ WF_vars(alive[n] = None /\ Lapse(n))
    /\ \A c \in Calls : WF_vars(Step(c)) /\ SF_vars(ReapStale(c))

Spec == Init /\ [][Next]_vars
FairSpec == Spec /\ Fairness

-----------------------------------------------------------------------------
\* Every variable holds a value of its type; what ReapStale is about to write is
\* the copy of an entry that was healthy and stale.
TypeOK ==
    /\ \A n \in Nodes : {alive[n], voters[n]} \subseteq AddressesOf[n] \cup {None}
    /\ \A n \in Nodes : entries[n] # None =>
          entries[n].address \in AddressesOf[n] /\ entries[n].healthy \in BOOLEAN
    /\ \A c \in Calls : call[c].op = "reap" =>
          \A n \in call[c].todo : LET e == call[c].copy[n] IN e # None /\ e.healthy /\ ~e.fresh
    /\ changes \in 0..MaxChanges

\* A node that keeps running is offered to Placement again and again at its
\* current address, although its Join was cut short before the upsert, or
\* ReapStale wrote an old copy over its heartbeat.
MemberRecovers ==
    \A n \in Nodes : \A a \in AddressesOf[n] :
        <>[](alive[n] = a) => []<>(entries[n] # None /\ entries[n].healthy /\ entries[n].address = a)

\* A node that has stopped is not offered any more in the end, whether it was
\* removed, replaced at its address, brought back by ReapStale or never removed.
SilentDropped ==
    \A n \in Nodes : <>[](alive[n] = None) => <>[](n \notin Healthy)

\* As long as there are enough healthy nodes, losing some moves no replica that
\* was not theirs, and new ones take over replicas only for themselves: what
\* Placement's rendezvous hashing is for.
PlacementStable ==
    [][\A k \in Keys : Enough /\ Enough' =>
         /\ Healthy' \subseteq Healthy => Placement(k) \cap Healthy' \subseteq Placement(k)'
         /\ Healthy \subseteq Healthy' => Placement(k)' \cap Healthy \subseteq Placement(k)]_vars
=============================================================================
