-------------------------- MODULE ClusterAuthority --------------------------
(***************************************************************************)
(* The fencing authority of the Zig runtime and the two things it guards:  *)
(* Membership of cluster_control.zig with its epoch and fence generation,  *)
(* the ReplicaQueue of cluster_replication.zig whose records carry both,   *)
(* and the Migration of shard_migration.zig that carries the fence.  Each  *)
(* call is given the current values by its caller.                         *)
(*                                                                         *)
(* A heartbeat older than the timeout is fresh = FALSE (Lapse).  losses,   *)
(* expelled, and the losses kept in records and migration are history for  *)
(* the properties.                                                         *)
(***************************************************************************)
EXTENDS Naturals, Sequences, FiniteSets

CONSTANTS Nodes, Events,
          Capacity,    \* of the membership and of the replica queue
          MaxChanges   \* bound: changes of the epoch or the fence

VARIABLES
    members,            \* the joined nodes: healthy, fresh
    epoch, fence_generation,
    view,               \* per node, the epoch and generation it last learned
    expelled,           \* nodes that left or expired since they learned it
    losses,             \* members lost so far, and fences advanced
    entries,            \* the replica queue
    migration

vars == <<members, epoch, fence_generation, view, expelled, losses, entries, migration>>
membership == <<members, epoch, fence_generation, view, expelled, losses>>

Joined(n) == n \in DOMAIN members
Fresh == [healthy |-> TRUE, fresh |-> TRUE]

Init ==
    /\ members = [n \in {} |-> Fresh]
    /\ epoch = 0 /\ fence_generation = 0
    /\ view = [n \in Nodes |-> [epoch |-> 0, generation |-> 0]]
    /\ expelled = {} /\ losses = 0
    /\ entries = <<>>
    /\ migration = [state |-> "none", fence |-> 0, checkpoint |-> FALSE, losses |-> 0]

-----------------------------------------------------------------------------
\* Membership.
Bounded == epoch + fence_generation < MaxChanges

join(n) ==
    /\ Bounded /\ ~Joined(n) /\ Cardinality(DOMAIN members) < Capacity
    /\ members' = [m \in DOMAIN members \cup {n} |-> IF m = n THEN Fresh ELSE members[m]]
    /\ epoch' = epoch + 1
    /\ view' = [view EXCEPT ![n].epoch = epoch + 1]
    /\ UNCHANGED <<fence_generation, expelled, losses, entries, migration>>

\* Losing members advances the epoch and the fence together.
EpochOnly(S) ==
    /\ epoch' = epoch + 1 /\ UNCHANGED fence_generation
    /\ expelled' = expelled \cup S /\ losses' = losses + 1
Lost(S) ==
    /\ epoch' = epoch + 1 /\ fence_generation' = fence_generation + 1
    /\ expelled' = expelled \cup S /\ losses' = losses + 1

leave(n) ==
    /\ Bounded /\ Joined(n)
    /\ members' = [m \in DOMAIN members \ {n} |-> members[m]]
    /\ Lost({n})
    /\ UNCHANGED <<view, entries, migration>>

heartbeat(n) ==
    /\ Joined(n) /\ view[n].epoch = epoch
    /\ members' = [members EXCEPT ![n] = Fresh]
    /\ UNCHANGED <<epoch, fence_generation, view, expelled, losses, entries, migration>>

Expired == {n \in DOMAIN members : members[n].healthy /\ ~members[n].fresh}
expireUnhealthy ==
    /\ Bounded /\ Expired # {}
    /\ members' = [n \in DOMAIN members |->
                     [members[n] EXCEPT !.healthy = members[n].healthy /\ n \notin Expired]]
    /\ Lost(Expired)
    /\ UNCHANGED <<view, entries, migration>>

advanceFence ==
    /\ Bounded
    /\ fence_generation' = fence_generation + 1
    /\ losses' = losses + 1
    /\ UNCHANGED <<members, epoch, view, expelled, entries, migration>>

validateWrite(n, generation) ==
    Joined(n) /\ members[n].healthy /\ generation = fence_generation

\* A member is told the current epoch and generation; time passes.
Learn(n) ==
    /\ Joined(n) /\ members[n].healthy
    /\ view' = [view EXCEPT ![n] = [epoch |-> epoch, generation |-> fence_generation]]
    /\ expelled' = expelled \ {n}
    /\ UNCHANGED <<members, epoch, fence_generation, losses, entries, migration>>

Lapse(n) ==
    /\ Joined(n) /\ members[n].fresh
    /\ members' = [members EXCEPT ![n].fresh = FALSE]
    /\ UNCHANGED <<epoch, fence_generation, view, expelled, losses, entries, migration>>

-----------------------------------------------------------------------------
\* ReplicaQueue.  The record was made under the source node's view.
Current(e, g) == e = epoch /\ g = fence_generation
Refused(event, target, sequence) ==
    \E i \in DOMAIN entries :
        entries[i].target = target /\ (entries[i].event = event \/ sequence <= entries[i].sequence)

enqueue(source, target, event, sequence) ==
    /\ source # target
    /\ Current(view[source].epoch, view[source].generation)
    /\ ~Refused(event, target, sequence)
    /\ Len(entries) < Capacity
    /\ entries' = Append(entries, [event |-> event, target |-> target, sequence |-> sequence,
                                   epoch |-> epoch, generation |-> fence_generation,
                                   state |-> "pending", losses |-> losses])
    /\ UNCHANGED <<membership, migration>>

validateAuthority(entry) == Current(entry.epoch, entry.generation)

Mark(i, from, to) ==
    /\ i \in DOMAIN entries /\ entries[i].state = from
    /\ validateAuthority(entries[i])
    /\ entries' = [entries EXCEPT ![i].state = to]
    /\ UNCHANGED <<membership, migration>>
markDelivered(i) == Mark(i, "pending", "delivered")
markApplied(i) == Mark(i, "delivered", "applied")

-----------------------------------------------------------------------------
\* Migration.  A plan is made with the fence of its time; a migration that a
\* fence change has stopped is left behind for a new one.
Plan ==
    /\ migration' = [state |-> "planned", fence |-> fence_generation,
                     checkpoint |-> FALSE, losses |-> losses]
    /\ UNCHANGED <<membership, entries>>

Fenced == migration.fence = fence_generation
Advance(from, to) ==
    /\ migration.state = from /\ Fenced
    /\ migration' = [migration EXCEPT !.state = to]
    /\ UNCHANGED <<membership, entries>>

begin == Advance("planned", "copying")
saveCheckpoint ==
    /\ migration.state = "copying" /\ Fenced
    /\ migration' = [migration EXCEPT !.checkpoint = TRUE]
    /\ UNCHANGED <<membership, entries>>
finishCopy == migration.checkpoint /\ Advance("copying", "verifying")
verify == Advance("verifying", "ready_to_cutover") \/ Advance("verifying", "failed")
cutover == Advance("ready_to_cutover", "cutover")
rollback ==
    /\ migration.state \notin {"none", "cutover", "rolled_back"} /\ Fenced
    /\ migration' = [migration EXCEPT !.state = "rolled_back"]
    /\ UNCHANGED <<membership, entries>>

MembershipNext ==
    \/ \E n \in Nodes : join(n) \/ leave(n) \/ heartbeat(n) \/ Learn(n) \/ Lapse(n)
    \/ expireUnhealthy \/ advanceFence
QueueNext ==
    \/ \E s, t \in Nodes, e \in Events, q \in 1..Capacity : enqueue(s, t, e, q)
    \/ \E i \in 1..Capacity : markDelivered(i) \/ markApplied(i)
MigrationNext ==
    Plan \/ begin \/ saveCheckpoint \/ finishCopy \/ verify \/ cutover \/ rollback

Next == MembershipNext \/ QueueNext \/ MigrationNext

Spec == Init /\ [][Next]_vars

-----------------------------------------------------------------------------
\* No replica record is delivered or applied once a member has been lost or the
\* fence has been advanced after its enqueue; the queue keeps it as it was.
MarkedUnderAuthority ==
    \A i \in DOMAIN entries :
       entries'[i].state # entries[i].state => entries[i].losses = losses

\* A migration cuts over only with a checkpoint and only if no member was lost and
\* no fence advanced at any time since it was planned.
CutoverUnderOneFence ==
    migration.state # "cutover" /\ migration'.state = "cutover" =>
       migration.checkpoint /\ migration.losses = losses

\* What was started before a member was lost or the fence advanced is void: a node
\* that has left or expired since it learned its generation does not pass
\* validateWrite with it, also after it has come back and is healthy again, and the
\* queue and the migration take no step under the authority that was lost.
LostAuthorityVoid ==
    /\ [](\A n \in expelled : ~validateWrite(n, view[n].generation))
    /\ [][MarkedUnderAuthority /\ CutoverUnderOneFence]_vars
=============================================================================
