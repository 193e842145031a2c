-------------------------- MODULE ZigRuntimeProofs --------------------------
(***************************************************************************)
(* Parts of the Zig runtime, for any number of workers, nodes, keys and    *)
(* messages: the lock table orders the writes it guards, authority that    *)
(* was lost is void, a stream has no gaps, the replay window and the       *)
(* idempotency table let nothing through twice, disabled transports do not *)
(* start, and the queue hands out no item beyond its quarantine.           *)
(***************************************************************************)
EXTENDS ZigRuntime, Sequences, FiniteSetTheorems, TLAPS

Lock == [owner : Workers, left : Nat, generation : Nat, active : BOOLEAN]

\* The inductive invariant: a generation is the number of its grant, the lock of
\* a key carries the newest grant of the key, and what the store holds is not
\* newer than that.
FenceInvariant ==
    /\ granted \in Nat /\ granted <= MaxAcquires
    /\ next_generation = (IF granted + 1 = Width THEN 1 ELSE granted + 1)
    /\ DOMAIN locks \subseteq Keys
    /\ locks \in [DOMAIN locks -> Lock]
    /\ \A k \in DOMAIN locks : locks[k].generation <= granted
    /\ \A g \in grants : g.key \in Keys /\ g.number \in Nat /\ g.generation = g.number
    /\ stored \in [Keys -> Nat]
    /\ \A k \in Keys : stored[k] # 0 => k \in DOMAIN locks /\ stored[k] <= locks[k].generation

\* At the start there is no lock and no grant.
LEMMA FenceInit == Init => FenceInvariant
<1> SUFFICES ASSUME Init PROVE FenceInvariant
    BY Zenon
<1>1. DOMAIN locks = {}
    BY Zenon DEF Init
<1> QED BY <1>1, LockAssumption DEF Init, FenceInvariant

\* A new grant has a number no lock and no write has yet.
LEMMA AcquireStep ==
    ASSUME FenceInvariant, NEW w \in Workers, NEW k \in Keys, acquire(w, k)
    PROVE  FenceInvariant'
<1> DEFINE new == [owner |-> w, left |-> TTL, generation |-> granted + 1, active |-> TRUE]
<1>1. granted + 1 # Width /\ next_generation = granted + 1
    BY LockAssumption DEF FenceInvariant, acquire
<1>2. /\ granted' = granted + 1 /\ granted' \in Nat /\ granted' <= MaxAcquires
      /\ next_generation' = (IF granted' + 1 = Width THEN 1 ELSE granted' + 1)
    BY <1>1, LockAssumption DEF FenceInvariant, acquire, Advance
<1>3. /\ DOMAIN locks' = DOMAIN locks \cup {k}
      /\ locks'[k] = new
      /\ \A i \in DOMAIN locks \ {k} : locks'[i] = locks[i]
      /\ locks' = [i \in DOMAIN locks' |-> locks'[i]]
    BY Zenon, <1>1 DEF acquire, Put
<1>4. new \in Lock /\ new.generation = granted + 1
    BY LockAssumption DEF Lock, FenceInvariant
<1> HIDE DEF new
<1>5. \A i \in DOMAIN locks' : locks'[i] \in Lock /\ locks'[i].generation <= granted'
  <2> SUFFICES ASSUME NEW i \in DOMAIN locks'
               PROVE  locks'[i] \in Lock /\ locks'[i].generation <= granted'
      BY Zenon
  <2>1. CASE i = k
      BY <1>2, <1>3, <1>4, <2>1
  <2>2. CASE i # k
    <3>1. locks'[i] = locks[i] /\ locks[i] \in Lock /\ locks[i].generation <= granted
        BY Zenon, <1>3, <2>2 DEF FenceInvariant
    <3> QED BY <1>2, <3>1 DEF Lock, FenceInvariant
  <2> QED BY Zenon, <2>1, <2>2
<1>6. DOMAIN locks' \subseteq Keys /\ locks' \in [DOMAIN locks' -> Lock]
    BY Zenon, <1>3, <1>5 DEF FenceInvariant
<1>7. \A g \in grants' : g.key \in Keys /\ g.number \in Nat /\ g.generation = g.number
    BY <1>1, <1>2 DEF acquire, FenceInvariant
<1>8. stored' = stored
    BY Zenon DEF acquire
<1>9. ASSUME NEW i \in Keys, stored'[i] # 0
      PROVE  i \in DOMAIN locks' /\ stored'[i] <= locks'[i].generation
  <2>1. i \in DOMAIN locks /\ stored[i] <= locks[i].generation /\ stored[i] \in Nat
      BY Zenon, <1>8, <1>9 DEF FenceInvariant
  <2>2. locks[i].generation \in Nat /\ locks[i].generation <= granted /\ granted \in Nat
      BY Zenon, <2>1 DEF FenceInvariant, Lock
  <2>3. CASE i = k
      BY <1>3, <1>4, <1>8, <2>1, <2>2, <2>3
  <2>4. CASE i # k
      BY Zenon, <1>3, <1>8, <2>1, <2>4
  <2> QED BY Zenon, <2>3, <2>4
<1> QED BY Zenon, <1>2, <1>5, <1>6, <1>7, <1>8, <1>9 DEF FenceInvariant

\* Renewing, releasing, reaping and the clock leave the generations alone.
LEMMA KeepStep ==
    ASSUME FenceInvariant,
           reapExpired \/ Tick \/ (\E w \in Workers, k \in Keys : renew(w, k) \/ release(w, k))
    PROVE  FenceInvariant'
<1>1. UNCHANGED <<next_generation, grants, granted, stored>>
    BY Zenon DEF reapExpired, Tick, renew, release
<1>2. /\ DOMAIN locks' = DOMAIN locks
      /\ locks' \in [DOMAIN locks -> Lock]
      /\ \A i \in DOMAIN locks : locks'[i].generation = locks[i].generation
  <2>1. CASE reapExpired
      BY Zenon, <2>1 DEF reapExpired, FenceInvariant, Lock
  <2>2. CASE Tick
      BY <2>2 DEF Tick, FenceInvariant, Lock
  <2>3. CASE \E w \in Workers, k \in Keys : renew(w, k) \/ release(w, k)
    <3>1. PICK w \in Workers, k \in Keys : renew(w, k) \/ release(w, k)
        BY Zenon, <2>3
    <3>2. k \in DOMAIN locks /\ locks[k] \in Lock
        BY Zenon, <3>1 DEF renew, release, Live, Found, FenceInvariant
    <3>3. PICK lock \in Lock : /\ lock.generation = locks[k].generation
                               /\ locks' = [locks EXCEPT ![k] = lock]
      <4>1. CASE renew(w, k)
        <5>1. [locks[k] EXCEPT !.left = TTL] \in Lock
            BY Zenon, <3>2, LockAssumption DEF Lock
        <5> QED BY Zenon, <3>2, <4>1, <5>1 DEF renew, Lock
      <4>2. CASE release(w, k)
        <5>1. [locks[k] EXCEPT !.active = FALSE] \in Lock
            BY Zenon, <3>2 DEF Lock
        <5> QED BY Zenon, <3>2, <4>2, <5>1 DEF release, Lock
      <4> QED BY Zenon, <3>1, <4>1, <4>2
    <3> QED BY Zenon, <3>2, <3>3 DEF FenceInvariant
  <2> QED BY Zenon, <2>1, <2>2, <2>3
<1> QED BY Zenon, <1>1, <1>2 DEF FenceInvariant

\* A grant that passes validateFence is the newest of its key.
LEMMA WriteStep ==
    ASSUME FenceInvariant, NEW g \in grants, Write(g)
    PROVE  FenceInvariant' /\ \A k \in Keys : stored'[k] >= stored[k]
<1>1. /\ g.key \in Keys /\ g.number \in Nat
      /\ g.key \in DOMAIN locks /\ locks[g.key].generation = g.number
    BY Zenon DEF Write, validateFence, Live, Found, FenceInvariant
<1>2. stored[g.key] \in Nat /\ stored[g.key] <= g.number
    BY <1>1 DEF FenceInvariant
<1>3. UNCHANGED <<locks, next_generation, grants, granted>>
    BY Zenon DEF Write
<1>4. /\ stored' \in [Keys -> Nat] /\ stored'[g.key] = g.number
      /\ \A k \in Keys \ {g.key} : stored'[k] = stored[k]
    BY Zenon, <1>1 DEF Write, FenceInvariant
<1>5. FenceInvariant'
    BY <1>1, <1>3, <1>4 DEF FenceInvariant
<1>6. \A k \in Keys : stored'[k] >= stored[k]
    BY <1>2, <1>4 DEF FenceInvariant
<1> QED BY Zenon, <1>5, <1>6

\* Every step keeps the invariant and the order of the writes.
LEMMA FenceStep ==
    ASSUME FenceInvariant, [Next]_vars
    PROVE  FenceInvariant' /\ [\A k \in Keys : stored'[k] >= stored[k]]_stored
<1>1. CASE UNCHANGED vars
    BY Zenon, <1>1 DEF vars, FenceInvariant
<1>2. ASSUME NEW w \in Workers, NEW k \in Keys, acquire(w, k)
      PROVE  FenceInvariant' /\ stored' = stored
    BY Zenon, <1>2, AcquireStep DEF acquire
<1>3. CASE reapExpired \/ Tick \/ (\E w \in Workers, k \in Keys : renew(w, k) \/ release(w, k))
  <2>1. stored' = stored
      BY Zenon, <1>3 DEF reapExpired, Tick, renew, release
  <2> QED BY Zenon, <1>3, <2>1, KeepStep
<1>4. ASSUME NEW g \in grants, Write(g)
      PROVE  FenceInvariant' /\ \A k \in Keys : stored'[k] >= stored[k]
    BY Zenon, <1>4, WriteStep
<1>5. ASSUME NEW g \in grants, Forget(g)
      PROVE  FenceInvariant' /\ stored' = stored
    BY Zenon, <1>5 DEF Forget, FenceInvariant
<1> QED BY Zenon, <1>1, <1>2, <1>3, <1>4, <1>5 DEF Next

\* The invariant holds along every behaviour.
THEOREM FenceInductive == Spec => []FenceInvariant
<1>1. FenceInvariant /\ [Next]_vars => FenceInvariant'
    BY Zenon, FenceStep
<1> QED BY <1>1, FenceInit, PTL DEF Spec

\* The store behind validateFence never applies a write of an older grant after
\* one of a newer grant.
THEOREM FencingKeepsOrder == Spec => WritesInGrantOrder
<1>1. FenceInvariant /\ [Next]_vars => [\A k \in Keys : stored'[k] >= stored[k]]_stored
    BY Zenon, FenceStep
<1> QED BY <1>1, FenceInductive, PTL DEF Spec, WritesInGrantOrder

\* The table stays within its capacity, a lease within its length, and no
\* generation is zero.
TableInvariant ==
    /\ FenceInvariant
    /\ IsFiniteSet(DOMAIN locks) /\ Cardinality(DOMAIN locks) <= Capacity
    /\ \A k \in DOMAIN locks : locks[k].left <= TTL /\ locks[k].generation >= 1

\* Steps that leave the keys of the table, and the generations, alone.
LEMMA SameTable ==
    ASSUME TableInvariant, DOMAIN locks' = DOMAIN locks,
           \A k \in DOMAIN locks :
               locks'[k].left <= TTL /\ locks'[k].generation = locks[k].generation
    PROVE  /\ IsFiniteSet(DOMAIN locks') /\ Cardinality(DOMAIN locks') <= Capacity
           /\ \A k \in DOMAIN locks' : locks'[k].left <= TTL /\ locks'[k].generation >= 1
BY Zenon DEF TableInvariant

LEMMA TableKept ==
    ASSUME TableInvariant, [Next]_vars
    PROVE  TableInvariant'
<1>1. FenceInvariant'
    BY Zenon, FenceStep DEF TableInvariant
<1> DEFINE Bounded == /\ IsFiniteSet(DOMAIN locks) /\ Cardinality(DOMAIN locks) <= Capacity
                      /\ \A k \in DOMAIN locks : locks[k].left <= TTL /\ locks[k].generation >= 1
<1>2. \A k \in DOMAIN locks : /\ locks[k] \in Lock /\ locks[k].left \in Nat /\ locks[k].left <= TTL
                              /\ locks[k].generation \in Nat /\ locks[k].generation >= 1
    BY Zenon DEF TableInvariant, FenceInvariant, Lock
<1>3. ASSUME NEW w \in Workers, NEW k \in Keys, acquire(w, k) PROVE Bounded'
  <2>1. /\ DOMAIN locks' = DOMAIN locks \cup {k}
        /\ locks'[k].left = TTL /\ locks'[k].generation = next_generation
        /\ \A i \in DOMAIN locks \ {k} : locks'[i] = locks[i]
      BY Zenon, <1>3 DEF acquire, Put
  <2>2. next_generation >= 1
      BY LockAssumption DEF TableInvariant, FenceInvariant
  <2>3. IsFiniteSet(DOMAIN locks')
      BY Zenon, <2>1, FS_AddElement DEF TableInvariant
  <2>4. Cardinality(DOMAIN locks') <= Capacity
    <3>1. CASE k \in DOMAIN locks
      <4>1. DOMAIN locks' = DOMAIN locks
          BY Zenon, <2>1, <3>1
      <4> QED BY Zenon, <4>1 DEF TableInvariant
    <3>2. CASE k \notin DOMAIN locks
      <4>1. Cardinality(DOMAIN locks) < Capacity
          BY Zenon, <1>3, <3>2 DEF acquire, Acquirable, Found
      <4>2. Cardinality(DOMAIN locks') = Cardinality(DOMAIN locks) + 1
          BY Zenon, <2>1, <3>2, FS_AddElement DEF TableInvariant
      <4>3. Cardinality(DOMAIN locks) \in Nat
          BY Zenon, FS_CardinalityType DEF TableInvariant
      <4> QED BY <4>1, <4>2, <4>3, LockAssumption
    <3> QED BY Zenon, <3>1, <3>2
  <2>5. \A i \in DOMAIN locks' : locks'[i].left <= TTL /\ locks'[i].generation >= 1
      BY <1>2, <2>1, <2>2, LockAssumption
  <2> QED BY Zenon, <2>3, <2>4, <2>5
<1>4. ASSUME NEW w \in Workers, NEW k \in Keys, renew(w, k) \/ release(w, k) PROVE Bounded'
  <2>1. /\ k \in DOMAIN locks /\ DOMAIN locks' = DOMAIN locks
        /\ \A i \in DOMAIN locks \ {k} : locks'[i] = locks[i]
        /\ locks'[k] = [locks[k] EXCEPT !.left = TTL] \/ locks'[k] = [locks[k] EXCEPT !.active = FALSE]
      BY Zenon, <1>4 DEF renew, release, Live, Found
  <2>2. locks'[k].left <= TTL /\ locks'[k].generation = locks[k].generation
      BY <1>2, <2>1, LockAssumption DEF Lock
  <2> QED BY Zenon, <1>2, <2>1, <2>2, SameTable
<1>5. ASSUME reapExpired \/ Tick PROVE Bounded'
  <2>1. /\ DOMAIN locks' = DOMAIN locks
        /\ \A i \in DOMAIN locks : locks'[i].left <= TTL /\ locks'[i].generation = locks[i].generation
      BY <1>2, <1>5, LockAssumption DEF reapExpired, Tick, Lock
  <2> QED BY Zenon, <2>1, SameTable
<1>6. ASSUME UNCHANGED locks PROVE Bounded'
    BY Zenon, <1>6 DEF TableInvariant
<1>7. ASSUME NEW g \in grants, Write(g) \/ Forget(g) PROVE Bounded'
    BY Zenon, <1>6, <1>7 DEF Write, Forget
<1>8. Bounded'
    BY Zenon, <1>3, <1>4, <1>5, <1>6, <1>7 DEF Next, vars
<1> QED BY Zenon, <1>1, <1>8 DEF TableInvariant

\* For any capacity, lease length and width, and fewer acquisitions than the width:
\* the lock table holds what its types allow, at most Capacity locks, and never the
\* generation zero, also when the counter wraps (acquire).
THEOREM LockTypes == Spec => []TypeOK
<1>1. Init => TableInvariant
  <2> SUFFICES ASSUME Init PROVE TableInvariant
      BY Zenon
  <2>1. DOMAIN locks = {}
      BY Zenon DEF Init
  <2> QED BY <2>1, FenceInit, FS_EmptySet, LockAssumption DEF TableInvariant
<1>2. TableInvariant /\ [Next]_vars => TableInvariant'
    BY Zenon, TableKept
<1>3. TableInvariant => TypeOK
    BY LockAssumption DEF TableInvariant, FenceInvariant, Lock, TypeOK
<1> QED BY <1>1, <1>2, <1>3, PTL DEF Spec

-----------------------------------------------------------------------------
\* Membership, replica queue and migration.

AuthorityEntry ==
    [event : Events, target : Nodes, sequence : Nat, epoch : Nat, generation : Nat,
     state : {"pending", "delivered", "applied"}, losses : Nat]

\* The fence counts the losses, so that whoever holds the current generation has
\* learned it, been recorded or been planned after the last loss.
AuthorityInvariant ==
    /\ epoch \in Nat /\ fence_generation \in Nat /\ losses = fence_generation
    /\ view \in [Nodes -> [epoch : Nat, generation : Nat]] /\ expelled \subseteq Nodes
    /\ DOMAIN members \subseteq Nodes
    /\ \A n \in Nodes : view[n].generation <= fence_generation
    /\ \A n \in expelled : view[n].generation < fence_generation
    /\ replicated \in Seq(AuthorityEntry)
    /\ \A i \in DOMAIN replicated : replicated[i].generation = replicated[i].losses
    /\ migration.fence = migration.losses
    /\ migration.state \in {"verifying", "ready_to_cutover"} => migration.checkpoint = TRUE
    /\ migration \in [state : {"none", "planned", "copying", "verifying", "ready_to_cutover",
                               "failed", "cutover", "rolled_back"},
                      fence : Nat, checkpoint : BOOLEAN, losses : Nat]

\* Members come, go and lapse, and learn the generation.
LEMMA MembershipStep ==
    ASSUME AuthorityInvariant, Authority!MembershipNext
    PROVE  AuthorityInvariant'
<1>1. UNCHANGED <<replicated, migration>>
    BY Zenon DEF Authority!MembershipNext, Authority!join, Authority!leave, Authority!heartbeat,
           Authority!Learn, Authority!Lapse, Authority!expireUnhealthy, Authority!advanceFence
<1> DEFINE Inv ==
    /\ epoch \in Nat /\ fence_generation \in Nat /\ losses = fence_generation
    /\ view \in [Nodes -> [epoch : Nat, generation : Nat]] /\ expelled \subseteq Nodes
    /\ DOMAIN members \subseteq Nodes
    /\ \A n \in Nodes : view[n].generation <= fence_generation
    /\ \A n \in expelled : view[n].generation < fence_generation
<1>2. Inv
    BY Zenon DEF AuthorityInvariant
<1>3. SUFFICES Inv'
    BY Zenon, <1>1 DEF AuthorityInvariant
<1>4. ASSUME NEW S \in SUBSET Nodes, Authority!Lost(S), UNCHANGED view,
             DOMAIN members' \subseteq Nodes
      PROVE  Inv'
    BY <1>2, <1>4 DEF Authority!Lost
<1>5. ASSUME NEW n \in Nodes, Authority!join(n) PROVE Inv'
  <2>1. /\ view' = [view EXCEPT ![n].epoch = epoch + 1] /\ epoch' = epoch + 1
        /\ DOMAIN members' = DOMAIN members \cup {n}
        /\ UNCHANGED <<fence_generation, expelled, losses>>
      BY Zenon, <1>5 DEF Authority!join
  <2>2. /\ view' \in [Nodes -> [epoch : Nat, generation : Nat]]
        /\ \A m \in Nodes : view'[m].generation = view[m].generation
      BY <1>2, <2>1
  <2> QED BY Zenon, <1>2, <2>1, <2>2
<1>6. ASSUME NEW n \in Nodes, Authority!leave(n) PROVE Inv'
  <2>1. {n} \in SUBSET Nodes /\ DOMAIN members' \subseteq Nodes
      BY Zenon, <1>2, <1>6 DEF Authority!leave
  <2> QED BY Zenon, <1>4, <1>6, <2>1 DEF Authority!leave
<1>7. ASSUME NEW n \in Nodes, Authority!heartbeat(n) \/ Authority!Lapse(n) PROVE Inv'
    BY Zenon, <1>2, <1>7 DEF Authority!heartbeat, Authority!Lapse
<1>8. ASSUME NEW n \in Nodes, Authority!Learn(n) PROVE Inv'
  <2>1. /\ view' = [view EXCEPT ![n] = [epoch |-> epoch, generation |-> fence_generation]]
        /\ expelled' = expelled \ {n} /\ UNCHANGED <<members, epoch, fence_generation, losses>>
      BY Zenon, <1>8 DEF Authority!Learn
  <2>2. [epoch |-> epoch, generation |-> fence_generation] \in [epoch : Nat, generation : Nat]
      BY Zenon, <1>2
  <2>3. view'[n].generation = fence_generation /\ \A m \in Nodes \ {n} : view'[m] = view[m]
      BY Zenon, <1>2, <2>1
  <2> QED BY <1>2, <2>1, <2>2, <2>3
<1>9. CASE Authority!expireUnhealthy
  <2>1. Authority!Expired \in SUBSET Nodes /\ DOMAIN members' \subseteq Nodes
      BY Zenon, <1>2, <1>9 DEF Authority!expireUnhealthy, Authority!Expired
  <2> QED BY Zenon, <1>4, <1>9, <2>1 DEF Authority!expireUnhealthy
<1>10. CASE Authority!advanceFence
    BY <1>2, <1>10 DEF Authority!advanceFence
<1> QED BY Zenon, <1>5, <1>6, <1>7, <1>8, <1>9, <1>10 DEF Authority!MembershipNext

\* Records are made and marked.
LEMMA QueueStep ==
    ASSUME AuthorityInvariant, Authority!QueueNext
    PROVE  AuthorityInvariant' /\ UNCHANGED migration
<1>1. UNCHANGED <<epoch, fence_generation, losses, view, expelled, members, migration>>
    BY Zenon DEF Authority!QueueNext, Authority!enqueue, Authority!markDelivered,
           Authority!markApplied, Authority!Mark, Authority!membership
<1>2. SUFFICES /\ replicated' \in Seq(AuthorityEntry)
               /\ \A i \in DOMAIN replicated' : replicated'[i].generation = replicated'[i].losses
    BY Zenon, <1>1 DEF AuthorityInvariant
<1>3. /\ replicated \in Seq(AuthorityEntry)
      /\ \A i \in DOMAIN replicated : replicated[i].generation = replicated[i].losses
    BY Zenon DEF AuthorityInvariant
<1>4. ASSUME NEW s \in Nodes, NEW t \in Nodes, NEW e \in Events, NEW q \in 1..QueueCapacity,
             Authority!enqueue(s, t, e, q)
      PROVE  /\ replicated' \in Seq(AuthorityEntry)
             /\ \A i \in DOMAIN replicated' : replicated'[i].generation = replicated'[i].losses
  <2> DEFINE new == [event |-> e, target |-> t, sequence |-> q, epoch |-> epoch,
                     generation |-> fence_generation, state |-> "pending", losses |-> losses]
  <2>1. replicated' = Append(replicated, new)
      BY Zenon, <1>4 DEF Authority!enqueue
  <2>2. new \in AuthorityEntry /\ new.generation = new.losses
      BY DEF AuthorityEntry, AuthorityInvariant
  <2> HIDE DEF new
  <2> QED BY <1>3, <2>1, <2>2
<1>5. ASSUME NEW i \in 1..QueueCapacity, NEW from, NEW to \in {"delivered", "applied"},
             Authority!Mark(i, from, to)
      PROVE  /\ replicated' \in Seq(AuthorityEntry)
             /\ \A j \in DOMAIN replicated' : replicated'[j].generation = replicated'[j].losses
  <2> DEFINE new == [replicated[i] EXCEPT !.state = to]
  <2>1. replicated' = [replicated EXCEPT ![i] = new] /\ i \in DOMAIN replicated
      BY Zenon, <1>5 DEF Authority!Mark
  <2>2. replicated[i] \in AuthorityEntry
      BY <1>3, <2>1
  <2>3. new \in AuthorityEntry /\ new.generation = new.losses
      BY Zenon, <1>3, <2>1, <2>2 DEF AuthorityEntry
  <2> HIDE DEF new
  <2> QED BY <1>3, <2>1, <2>3
<1> QED BY Zenon, <1>4, <1>5 DEF Authority!QueueNext, Authority!markDelivered, Authority!markApplied

\* The migration moves: to the cutover with a checkpoint and its own fence only.
LEMMA MigrationStep ==
    ASSUME AuthorityInvariant, Authority!MigrationNext
    PROVE  /\ AuthorityInvariant' /\ UNCHANGED replicated
           /\ migration.state # "cutover" /\ migration'.state = "cutover" =>
                 migration.checkpoint = TRUE /\ migration.losses = losses
<1> DEFINE States == {"none", "planned", "copying", "verifying", "ready_to_cutover", "failed",
                      "cutover", "rolled_back"}
           Type == [state : States, fence : Nat, checkpoint : BOOLEAN, losses : Nat]
           OK(m) == /\ m \in Type /\ m.fence = m.losses
                    /\ m.state \in {"verifying", "ready_to_cutover"} => m.checkpoint = TRUE
<1>1. UNCHANGED <<epoch, fence_generation, losses, view, expelled, members, replicated>>
    BY Zenon DEF Authority!MigrationNext, Authority!Plan, Authority!begin, Authority!saveCheckpoint,
           Authority!finishCopy, Authority!verify, Authority!cutover, Authority!rollback,
           Authority!Advance, Authority!membership
<1>2. OK(migration) /\ fence_generation \in Nat /\ losses = fence_generation
    BY Zenon DEF AuthorityInvariant
<1>3. SUFFICES /\ OK(migration')
               /\ migration.state # "cutover" /\ migration'.state = "cutover" =>
                     migration.checkpoint = TRUE /\ migration.losses = losses
    BY Zenon, <1>1 DEF AuthorityInvariant
<1>4. CASE Authority!Plan
    BY Zenon, <1>2, <1>4 DEF Authority!Plan
<1>5. ASSUME NEW to \in States, migration.fence = fence_generation,
             migration' = [migration EXCEPT !.state = to],
             to \in {"verifying", "ready_to_cutover", "cutover"} => migration.checkpoint = TRUE
      PROVE  /\ OK(migration')
             /\ migration'.state = "cutover" =>
                   migration.checkpoint = TRUE /\ migration.losses = losses
  <2>1. /\ migration' \in Type /\ migration'.state = to /\ migration'.fence = migration.fence
        /\ migration'.losses = migration.losses /\ migration'.checkpoint = migration.checkpoint
      BY Zenon, <1>2, <1>5
  <2> QED BY Zenon, <1>2, <1>5, <2>1
<1>6. CASE Authority!saveCheckpoint
    BY Zenon, <1>2, <1>6 DEF Authority!saveCheckpoint
<1>7. CASE Authority!rollback
    BY Zenon, <1>2, <1>5, <1>7 DEF Authority!rollback, Authority!Fenced
<1>8. CASE Authority!begin \/ Authority!finishCopy \/ Authority!verify \/ Authority!cutover
  <2>1. migration.checkpoint = TRUE <=> migration.checkpoint
      BY Zenon, <1>2
  <2> QED BY Zenon, <1>2, <1>5, <1>8, <2>1
             DEF Authority!begin, Authority!finishCopy, Authority!verify, Authority!cutover,
                 Authority!Advance, Authority!Fenced
<1> QED BY Zenon, <1>4, <1>6, <1>7, <1>8 DEF Authority!MigrationNext

\* For any nodes, events and capacities, in whatever order members are lost, come
\* back and learn, fences advance and calls are made: what was started before a
\* member was lost or the fence advanced is void.
THEOREM LostAuthorityIsVoid == Authority!Spec => LostAuthorityVoid
<1>1. Authority!Init => AuthorityInvariant
    BY DEF Authority!Init, AuthorityInvariant, AuthorityEntry
<1>2. AuthorityInvariant /\ UNCHANGED Authority!vars => AuthorityInvariant'
    BY Zenon DEF AuthorityInvariant, Authority!vars
<1>3. AuthorityInvariant /\ [Authority!Next]_Authority!vars => AuthorityInvariant'
    BY Zenon, <1>2, MembershipStep, QueueStep, MigrationStep DEF Authority!Next
<1>4. AuthorityInvariant =>
        \A n \in expelled : ~Authority!validateWrite(n, view[n].generation)
    BY DEF AuthorityInvariant, Authority!validateWrite
<1>5. AuthorityInvariant /\ [Authority!Next]_Authority!vars =>
        \A i \in DOMAIN replicated :
           replicated'[i].state # replicated[i].state => replicated[i].losses = losses
  <2> SUFFICES ASSUME AuthorityInvariant, [Authority!Next]_Authority!vars,
                      NEW i \in DOMAIN replicated, replicated'[i].state # replicated[i].state
               PROVE  replicated[i].losses = losses
      BY Zenon
  <2>1. CASE UNCHANGED replicated
      BY Zenon, <2>1
  <2>2. ASSUME NEW j \in 1..QueueCapacity, NEW from, NEW to, Authority!Mark(j, from, to)
        PROVE  replicated[i].losses = losses
    <3>1. i = j
        BY Zenon, <2>2 DEF Authority!Mark, AuthorityInvariant
    <3> QED BY Zenon, <2>2, <3>1
               DEF Authority!Mark, Authority!validateAuthority, Authority!Current,
                   AuthorityInvariant
  <2>3. ASSUME NEW r, replicated' = Append(replicated, r) PROVE FALSE
      BY <2>3 DEF AuthorityInvariant
  <2>4. CASE \E s, t \in Nodes, e \in Events, q \in 1..QueueCapacity :
                Authority!enqueue(s, t, e, q)
      BY Zenon, <2>3, <2>4 DEF Authority!enqueue
  <2>5. CASE Authority!MembershipNext
      BY Zenon, <2>1, <2>5
         DEF Authority!MembershipNext, Authority!join, Authority!leave, Authority!heartbeat,
             Authority!Learn, Authority!Lapse, Authority!expireUnhealthy,
             Authority!advanceFence
  <2>6. CASE Authority!MigrationNext
      BY Zenon, <2>1, <2>6, MigrationStep
  <2> QED BY Zenon, <2>1, <2>2, <2>4, <2>5, <2>6
             DEF Authority!Next, Authority!QueueNext, Authority!vars, Authority!markDelivered,
                 Authority!markApplied
<1>6. AuthorityInvariant /\ [Authority!Next]_Authority!vars =>
        (migration.state # "cutover" /\ migration'.state = "cutover" =>
           migration.checkpoint /\ migration.losses = losses)
  <2>1. Authority!MembershipNext => UNCHANGED migration
      BY Zenon DEF Authority!MembershipNext, Authority!join, Authority!leave, Authority!heartbeat,
             Authority!Learn, Authority!Lapse, Authority!expireUnhealthy,
             Authority!advanceFence
  <2> QED BY Zenon, <2>1, QueueStep, MigrationStep DEF Authority!Next, Authority!vars
<1> QED BY <1>1, <1>3, <1>4, <1>5, <1>6, PTL
        DEF Authority!Spec, LostAuthorityVoid, Authority!LostAuthorityVoid,
            Authority!MarkedUnderAuthority,
            Authority!CutoverUnderOneFence

-----------------------------------------------------------------------------
\* Streams.

\* What has been accepted lies below accepted_sequence, or was accepted before a
\* resumption.
StreamInvariant ==
    /\ accepted_sequence \in 0..MaxItems /\ resumes \in Nat
    /\ times \in [1..MaxItems -> Nat]
    /\ \A i \in 1..MaxItems :
          /\ i <= accepted_sequence => times[i] > 0 /\ times[i] <= 1 + resumes
          /\ i > accepted_sequence => times[i] <= resumes

\* For any number of items and of resumptions, whatever is lost, repeated and
\* resumed: the receiver has no gap, and repeats are due to resumptions.
THEOREM StreamTakesOnce == Stream!Spec => [](Stream!NoGap /\ Stream!RepeatsNeedResume)
<1> MaxItems \in Nat /\ MaxResumes \in Nat
    BY Zenon, RuntimeAssumption DEF StreamParameters
<1>1. Stream!Init => StreamInvariant
    BY DEF Stream!Init, StreamInvariant
<1>2. StreamInvariant /\ [Stream!Next]_Stream!vars => StreamInvariant'
  <2> SUFFICES ASSUME StreamInvariant, [Stream!Next]_Stream!vars PROVE StreamInvariant'
      BY Zenon
  <2> USE DEF StreamInvariant
  <2>1. CASE UNCHANGED <<accepted_sequence, times, resumes>>
      BY Zenon, <2>1
  <2>2. ASSUME NEW i \in 1..MaxItems, Stream!accept(i) PROVE StreamInvariant'
      BY <2>2 DEF Stream!accept, Stream!Expected
  <2>3. ASSUME NEW last \in 0..MaxItems, Stream!resumeFrom(last) PROVE StreamInvariant'
      BY <2>3 DEF Stream!resumeFrom, Stream!Resumable
  <2> QED BY Zenon, <2>1, <2>2, <2>3
             DEF Stream!Next, Stream!Send, Stream!pause, Stream!end, Stream!Lose, Stream!vars
<1>3. StreamInvariant => Stream!NoGap /\ Stream!RepeatsNeedResume
    BY DEF StreamInvariant, Stream!NoGap, Stream!RepeatsNeedResume
<1> QED BY <1>1, <1>2, <1>3, PTL DEF Stream!Spec

-----------------------------------------------------------------------------
\* The replay window and the idempotency table.

WindowEntry == [nonce : Nonces, left : Nat]

\* A nonce that is barred has an entry that lives as long, and a key that is
\* settled has an outcome.
WindowInvariant ==
    /\ window \in Seq(WindowEntry) /\ barred \in [Nonces -> Nat]
    /\ \A n \in Nonces : barred[n] > 0 =>
          \E i \in DOMAIN window : window[i].nonce = n /\ window[i].left >= barred[n]
    /\ records \in [Keys -> Window!Outcomes \cup {"dispatched", Absent}]
    /\ working \in [Workers -> Keys \cup {Absent}]
    /\ \A k \in done : k \in Keys /\ records[k] \in Window!Outcomes

\* The instance has its own copy of the definition of Cardinality.
LEMMA SameCardinality == \A S : Window!Cardinality(S) = Cardinality(S)
    BY Zenon DEF Window!Cardinality, Cardinality

\* The fields of the entries.
LEMMA EntryFields ==
    ASSUME WindowInvariant
    PROVE  \A i \in DOMAIN window :
              window[i] \in WindowEntry /\ window[i].left \in Nat /\ window[i].nonce \in Nonces
<1>1. ASSUME NEW i \in DOMAIN window PROVE window[i] \in WindowEntry
  <2>1. window \in Seq(WindowEntry)
      BY Zenon DEF WindowInvariant
  <2> QED BY <2>1
<1> QED BY Zenon, <1>1 DEF WindowEntry

\* Moving the live entries to the front loses none of them.
LEMMA ReapKeeps ==
    ASSUME WindowInvariant, Window!reap
    PROVE  /\ window' \in Seq(WindowEntry)
           /\ \A i \in Window!Kept : \E w \in DOMAIN window' : window'[w] = window[i]
<1>1. /\ window \in Seq(WindowEntry) /\ Window!Kept \subseteq DOMAIN window
      /\ Window!Cardinality(Window!Kept) \in Nat
  <2>1. /\ window \in Seq(WindowEntry)
        /\ Window!Kept \subseteq 1..Len(window) /\ Len(window) \in Nat
      BY DEF Window!Kept, WindowInvariant
  <2>2. IsFiniteSet(Window!Kept)
    <3>1. IsFiniteSet(1..Len(window))
        BY <2>1, FS_Interval
    <3> QED BY Zenon, <2>1, <3>1, FS_Subset
  <2> QED BY <2>1, <2>2, FS_CardinalityType, SameCardinality
<1>2. PICK from \in [1..Window!Cardinality(Window!Kept) -> Window!Kept] :
         Window!InOrder(from) /\ window' = [w \in DOMAIN from |-> window[from[w]]]
    BY Zenon DEF Window!reap
<1>3. DOMAIN from = 1..Window!Cardinality(Window!Kept)
    BY Zenon
<1>4. ASSUME NEW w \in 1..Window!Cardinality(Window!Kept) PROVE window[from[w]] \in WindowEntry
  <2>1. from[w] \in DOMAIN window
      BY Zenon, <1>1
  <2> QED BY Zenon, <1>1, <2>1, EntryFields
<1>5. window' \in Seq(WindowEntry)
  <2>1. window' \in [1..Window!Cardinality(Window!Kept) -> WindowEntry]
      BY Zenon, <1>2, <1>3, <1>4
  <2> QED BY <1>1, <2>1
<1>6. \A i \in Window!Kept : \E w \in DOMAIN from : from[w] = i
    BY Zenon, <1>2 DEF Window!InOrder
<1> QED BY Zenon, <1>2, <1>5, <1>6

\* The window: reaping drops no entry that still bars its nonce, and accepting adds
\* one for the nonce it bars.
LEMMA WindowStep ==
    ASSUME WindowParameters, WindowInvariant,
           Window!reap \/ Window!Tick \/ \E n \in Nonces, ttl \in TTLs : Window!accept(n, ttl)
    PROVE  WindowInvariant'
<1>1. UNCHANGED <<records, working, done>>
    BY Zenon DEF Window!reap, Window!Tick, Window!accept, Window!table
<1> DEFINE Barred(n) == barred[n] > 0 =>
              \E i \in DOMAIN window : window[i].nonce = n /\ window[i].left >= barred[n]
<1>2. /\ window \in Seq(WindowEntry) /\ barred \in [Nonces -> Nat] /\ \A n \in Nonces : Barred(n)
      /\ \A i \in DOMAIN window : window[i].left \in Nat /\ window[i].nonce \in Nonces
    BY Zenon, EntryFields DEF WindowInvariant
<1>3. SUFFICES /\ window' \in Seq(WindowEntry) /\ barred' \in [Nonces -> Nat]
               /\ \A n \in Nonces : Barred(n)'
    BY Zenon, <1>1 DEF WindowInvariant
<1>4. CASE Window!reap
  <2>1. /\ window' \in Seq(WindowEntry) /\ barred' = barred
        /\ \A i \in Window!Kept : \E w \in DOMAIN window' : window'[w] = window[i]
      BY Zenon, <1>4, ReapKeeps DEF Window!reap
  <2>2. ASSUME NEW n \in Nonces, barred[n] > 0
        PROVE  \E w \in DOMAIN window' : window'[w].nonce = n /\ window'[w].left >= barred[n]
    <3>1. PICK i \in DOMAIN window : window[i].nonce = n /\ window[i].left >= barred[n]
        BY Zenon, <1>2, <2>2
    <3>2. i \in Window!Kept
        BY <1>2, <2>2, <3>1 DEF Window!Kept
    <3> QED BY Zenon, <2>1, <3>1, <3>2
  <2> QED BY Zenon, <1>2, <2>1, <2>2
<1>5. CASE Window!Tick
  <2>1. \A m \in Nat : /\ Window!Less(m) \in Nat
                       /\ Window!Less(m) > 0 => m > 0 /\ Window!Less(m) = m - 1
      BY DEF Window!Less
  <2>5. ASSUME NEW i \in DOMAIN window
        PROVE  LET e == [window[i] EXCEPT !.left = Window!Less(window[i].left)] IN
               /\ e \in WindowEntry /\ e.nonce = window[i].nonce
               /\ e.left = Window!Less(window[i].left)
      BY Zenon, <1>2, <2>1, EntryFields DEF WindowEntry
  <2>2. /\ DOMAIN window' = DOMAIN window
        /\ \A i \in DOMAIN window : window'[i].nonce = window[i].nonce
                                  /\ window'[i].left = Window!Less(window[i].left)
        /\ window' \in Seq(WindowEntry)
    <3> DEFINE e(i) == [window[i] EXCEPT !.left = Window!Less(window[i].left)]
    <3>1. window' = [i \in DOMAIN window |-> e(i)] /\ DOMAIN window = 1..Len(window)
          /\ Len(window) \in Nat
        BY <1>2, <1>5 DEF Window!Tick
    <3>2. \A i \in DOMAIN window : e(i) \in WindowEntry /\ e(i).nonce = window[i].nonce
                                  /\ e(i).left = Window!Less(window[i].left)
        BY Zenon, <2>5
    <3> HIDE DEF e
    <3>3. window' \in [1..Len(window) -> WindowEntry]
        BY Zenon, <3>1, <3>2
    <3> QED BY <3>1, <3>2, <3>3
  <2>3. barred' = [n \in Nonces |-> Window!Less(barred[n])] /\ barred' \in [Nonces -> Nat]
      BY Zenon, <1>2, <1>5, <2>1 DEF Window!Tick
  <2>4. ASSUME NEW n \in Nonces, barred'[n] > 0
        PROVE  \E i \in DOMAIN window' : window'[i].nonce = n /\ window'[i].left >= barred'[n]
    <3>1. barred[n] \in Nat /\ barred[n] > 0 /\ barred'[n] = barred[n] - 1
        BY Zenon, <1>2, <2>1, <2>3, <2>4
    <3>2. PICK i \in DOMAIN window : window[i].nonce = n /\ window[i].left >= barred[n]
        BY Zenon, <1>2, <3>1
    <3>3. Window!Less(window[i].left) >= barred[n] - 1
        BY <1>2, <3>1, <3>2 DEF Window!Less
    <3> QED BY Zenon, <2>2, <3>1, <3>2, <3>3
  <2> QED BY Zenon, <2>2, <2>3, <2>4
<1>6. ASSUME NEW n \in Nonces, NEW ttl \in TTLs, Window!accept(n, ttl)
      PROVE  /\ window' \in Seq(WindowEntry) /\ barred' \in [Nonces -> Nat]
             /\ \A m \in Nonces : Barred(m)'
  <2>1. ttl \in Nat /\ Window!Entry(n, ttl) \in WindowEntry
        /\ Window!Entry(n, ttl).nonce = n /\ Window!Entry(n, ttl).left = ttl
      BY Zenon DEF WindowParameters, WindowEntry, Window!Entry
  <2>2. barred' = [barred EXCEPT ![n] = ttl] /\ barred' \in [Nonces -> Nat]
      BY Zenon, <1>2, <1>6, <2>1 DEF Window!accept
  <2>3. /\ window' \in Seq(WindowEntry) /\ DOMAIN window \subseteq DOMAIN window'
        /\ \E i \in DOMAIN window' : window'[i] = Window!Entry(n, ttl)
        /\ \A i \in DOMAIN window : window[i].left > 0 => window'[i] = window[i]
    <3>1. CASE window' = Append(window, Window!Entry(n, ttl))
        BY <1>2, <2>1, <3>1
    <3>2. CASE \E i \in DOMAIN window :
                 Window!Reusable(i) /\ window' = [window EXCEPT ![i] = Window!Entry(n, ttl)]
      <4>1. PICK i \in DOMAIN window :
                 Window!Reusable(i) /\ window' = [window EXCEPT ![i] = Window!Entry(n, ttl)]
          BY Zenon, <3>2
      <4>2. window[i].left = 0
          BY Zenon, <4>1 DEF Window!Reusable
      <4> QED BY <1>2, <2>1, <4>1, <4>2
    <3> QED BY Zenon, <1>6, <3>1, <3>2 DEF Window!accept
  <2>4. ASSUME NEW m \in Nonces, barred'[m] > 0
        PROVE  \E i \in DOMAIN window' : window'[i].nonce = m /\ window'[i].left >= barred'[m]
    <3>1. CASE m = n
        BY <1>2, <2>1, <2>2, <2>3, <3>1
    <3>2. CASE m # n
      <4>1. barred'[m] = barred[m] /\ barred[m] \in Nat
          BY Zenon, <1>2, <2>2, <3>2
      <4>2. PICK i \in DOMAIN window : window[i].nonce = m /\ window[i].left >= barred[m]
          BY Zenon, <1>2, <2>4, <4>1
      <4>3. window[i].left > 0
          BY <1>2, <2>4, <4>1, <4>2
      <4> QED BY Zenon, <2>3, <4>1, <4>2, <4>3
    <3> QED BY Zenon, <3>1, <3>2
  <2> QED BY Zenon, <2>2, <2>3, <2>4
<1> QED BY Zenon, <1>4, <1>5, <1>6

\* The idempotency table: only what has no outcome is begun, so that no settled key
\* loses its outcome.
LEMMA TableStep ==
    ASSUME WindowParameters, WindowInvariant, NEW w \in Workers,
           \/ \E k \in Keys : Window!begin(w, k)
           \/ \E outcome \in Window!Outcomes : Window!settle(w, outcome)
           \/ Window!Die(w)
    PROVE  WindowInvariant'
<1>1. UNCHANGED <<window, barred>>
    BY Zenon DEF Window!begin, Window!settle, Window!Die, Window!window
<1>2. /\ records \in [Keys -> Window!Outcomes \cup {"dispatched", Absent}]
      /\ working \in [Workers -> Keys \cup {Absent}]
      /\ \A k \in done : k \in Keys /\ records[k] \in Window!Outcomes
    BY Zenon DEF WindowInvariant
<1>3. SUFFICES /\ records' \in [Keys -> Window!Outcomes \cup {"dispatched", Absent}]
               /\ working' \in [Workers -> Keys \cup {Absent}]
               /\ \A k \in done' : k \in Keys /\ records'[k] \in Window!Outcomes
    BY Zenon, <1>1 DEF WindowInvariant
<1>4. ASSUME NEW k \in Keys, Window!begin(w, k)
      PROVE  /\ records' \in [Keys -> Window!Outcomes \cup {"dispatched", Absent}]
             /\ working' \in [Workers -> Keys \cup {Absent}]
             /\ \A j \in done' : j \in Keys /\ records'[j] \in Window!Outcomes
  <2>1. k \notin done
      BY Zenon, <1>2, <1>4 DEF Window!begin, Window!Dispatchable, WindowParameters, Window!Outcomes
  <2> QED BY Zenon, <1>2, <1>4, <2>1 DEF Window!begin
<1>5. CASE \E outcome \in Window!Outcomes : Window!settle(w, outcome)
    BY <1>2, <1>5 DEF Window!settle
<1>6. CASE Window!Die(w)
    BY Zenon, <1>2, <1>6 DEF Window!Die
<1> QED BY Zenon, <1>4, <1>5, <1>6

\* For any window, table and workers: within the lifetime of a nonce the window
\* does not accept it again, and a settled key is not dispatched.
THEOREM WindowTakesOnce ==
    Window!Spec => [][Window!AcceptsUnbarred /\ Window!DispatchesUndone]_Window!vars
<1> WindowParameters
    BY Zenon, RuntimeAssumption
<1>1. Window!Init => WindowInvariant
    BY DEF Window!Init, WindowInvariant, WindowParameters
<1>2. WindowInvariant /\ [Window!Next]_Window!vars => WindowInvariant'
  <2>1. WindowInvariant /\ UNCHANGED Window!vars => WindowInvariant'
      BY Zenon DEF WindowInvariant, Window!vars
  <2> QED BY Zenon, <2>1, WindowStep, TableStep DEF Window!Next
<1>3. WindowInvariant => Window!AcceptsUnbarred
  <2> SUFFICES ASSUME WindowInvariant, NEW n \in Nonces, NEW ttl \in TTLs, Window!accept(n, ttl)
               PROVE  barred[n] = 0
      BY Zenon DEF Window!AcceptsUnbarred
  <2>1. ASSUME barred[n] > 0 PROVE FALSE
      BY <2>1, EntryFields DEF WindowInvariant, Window!accept, Window!Replayed
  <2> QED BY <2>1 DEF WindowInvariant
<1>4. WindowInvariant /\ [Window!Next]_Window!vars => Window!DispatchesUndone
  <2> SUFFICES ASSUME WindowInvariant, [Window!Next]_Window!vars, NEW w \in Workers,
                      working'[w] \notin {working[w], Absent}
               PROVE  working'[w] \notin done
      BY Zenon DEF Window!DispatchesUndone
  <2>1. PICK v \in Workers, k \in Keys : Window!begin(v, k)
      BY Zenon DEF Window!Next, Window!accept, Window!reap, Window!Tick, Window!settle, Window!Die,
             Window!vars, Window!table, WindowInvariant
  <2>2. working'[w] = k
      BY Zenon, <2>1 DEF Window!begin, WindowInvariant
  <2> QED BY Zenon, <2>1, <2>2
             DEF Window!begin, Window!Dispatchable, WindowInvariant, WindowParameters,
                 Window!Outcomes
<1> QED BY <1>1, <1>2, <1>3, <1>4, PTL DEF Window!Spec

-----------------------------------------------------------------------------
\* The transport registry.

\* A transport that is left out is disabled, and no publication on it is under way.
HealthInvariant ==
    /\ health \in [Kinds -> {"stopped", "starting", "healthy", "degraded", "unhealthy",
                           "disabled"}]
    /\ pending \in [Kinds -> Nat]
    /\ allowed \subseteq Kinds
    /\ \A k \in Kinds \ allowed : health[k] = "disabled" /\ pending[k] = 0

\* Whatever adapters and publications report, a transport that the configuration
\* leaves out does not start, provided that initialize waits for the publications
\* under way.
THEOREM DisabledStayDisabled ==
    ASSUME Late = FALSE
    PROVE  Transports!Spec => []DisabledDoesNotStart
<1>1. Transports!Init => HealthInvariant
    BY DEF Transports!Init, HealthInvariant
<1>2. HealthInvariant /\ [Transports!Next]_Transports!vars => HealthInvariant'
  <2> SUFFICES ASSUME HealthInvariant, [Transports!Next]_Transports!vars PROVE HealthInvariant'
      BY Zenon
  <2> USE DEF HealthInvariant
  <2>1. CASE UNCHANGED Transports!vars
      BY Zenon, <2>1 DEF Transports!vars
  <2>2. ASSUME NEW S \in SUBSET Kinds, Transports!Initialized(S) PROVE HealthInvariant'
      BY Zenon, <2>2 DEF Transports!Initialized
  <2>3. ASSUME NEW k \in Kinds,
               \/ Transports!start(k) \/ Transports!markHealthy(k)
               \/ Transports!Publish(k) \/ Transports!recordReconnect(k)
        PROVE  HealthInvariant'
      BY <2>3
         DEF Transports!start, Transports!markHealthy, Transports!Publish,
             Transports!recordReconnect, Transports!Becomes, Transports!Reconnectable
  <2>4. ASSUME NEW k \in Kinds, NEW ok \in BOOLEAN, Transports!recordPublish(k, ok)
        PROVE  HealthInvariant'
    <3>1. k \in allowed
        BY <2>4 DEF Transports!recordPublish
    <3>2. pending[k] - 1 \in Nat
        BY <2>4 DEF Transports!recordPublish
    <3> QED BY Zenon, <2>4, <3>1, <3>2 DEF Transports!recordPublish, Transports!Becomes
  <2>5. ASSUME NEW S \in SUBSET Kinds, NEW T \in SUBSET Kinds,
               Transports!initializeWithConfig(S, T)
        PROVE  HealthInvariant'
    <3>1. T \cap S \in SUBSET Kinds /\ Transports!Initialized(T \cap S)
        BY Zenon, <2>5 DEF Transports!initializeWithConfig
    <3> QED BY Zenon, <2>2, <3>1
  <2> QED BY Zenon, <2>1, <2>2, <2>3, <2>4, <2>5 DEF Transports!Next, Transports!initialize
<1>3. HealthInvariant => DisabledDoesNotStart
    BY Zenon DEF HealthInvariant, DisabledDoesNotStart, Transports!DisabledDoesNotStart
<1> QED BY <1>1, <1>2, <1>3, PTL DEF Transports!Spec

-----------------------------------------------------------------------------
\* The semantic queue.

\* An item, and what the policy allows of it.
Item == [attempts : Nat, leased : Nat, quarantined : BOOLEAN]
ItemOK(item) ==
    /\ item \in Item /\ item.attempts <= MaxAttempts + 1 /\ item.leased <= LeaseLength
    /\ item.quarantined = (item.attempts > MaxAttempts)

\* The inductive invariant.
QueueInvariant ==
    /\ items \in Seq(Item) /\ Len(items) <= ItemCapacity
    /\ held \in [1..ItemCapacity -> Nat]
    /\ \A i \in DOMAIN items : ItemOK(items[i])

\* A step that leaves the number of items alone.
LEMMA ItemsStep ==
    ASSUME QueueInvariant, DOMAIN items' = DOMAIN items,
           items' = [i \in DOMAIN items' |-> items'[i]],
           \A i \in DOMAIN items : ItemOK(items'[i])
    PROVE  /\ items' \in Seq(Item) /\ Len(items') <= ItemCapacity
           /\ \A i \in DOMAIN items' : ItemOK(items'[i])
<1>1. DOMAIN items = 1..Len(items) /\ Len(items) \in Nat
    BY DEF QueueInvariant
<1>2. items' \in [1..Len(items) -> Item]
    BY Zenon, <1>1 DEF ItemOK
<1>3. items' \in Seq(Item) /\ Len(items') = Len(items)
    BY <1>1, <1>2
<1> QED BY Zenon, <1>3 DEF QueueInvariant

\* For any capacity, lease length and number of attempts: the queue never holds
\* more than Capacity items, and an item is handed out once more than max_attempts
\* and then never.
THEOREM QueueTypes == Semantic!Spec => []Semantic!TypeOK
<1> QueueParameters
    BY Zenon, RuntimeAssumption
<1>1. Semantic!Init => QueueInvariant
    BY DEF Semantic!Init, QueueInvariant, QueueParameters
<1>2. QueueInvariant /\ [Semantic!Next]_Semantic!vars => QueueInvariant'
  <2> SUFFICES ASSUME QueueInvariant, [Semantic!Next]_Semantic!vars PROVE QueueInvariant'
      BY Zenon
  <2> DEFINE ItemsOK == /\ items \in Seq(Item) /\ Len(items) <= ItemCapacity
                        /\ \A i \in DOMAIN items : ItemOK(items[i])
  <2>1. \A i \in DOMAIN items : items[i] \in Item /\ ItemOK(items[i])
      BY Zenon DEF QueueInvariant, ItemOK
  <2>2. CASE Semantic!enqueue
    <3> DEFINE new == [attempts |-> 0, leased |-> 0, quarantined |-> FALSE]
    <3>1. ItemOK(new) /\ new \in Item
      <4>1. new \in Item /\ new.attempts = 0 /\ new.leased = 0 /\ new.quarantined = FALSE
          BY Zenon DEF Item
      <4>2. (0 > MaxAttempts) = FALSE /\ 0 <= MaxAttempts + 1 /\ 0 <= LeaseLength
          BY DEF QueueParameters
      <4> HIDE DEF new
      <4> QED BY <4>1, <4>2, Zenon DEF ItemOK
    <3>2. items' = Append(items, new) /\ held' = held /\ Len(items) < ItemCapacity
        BY Zenon, <2>2 DEF Semantic!enqueue
    <3> HIDE DEF new
    <3>3. /\ items' \in Seq(Item) /\ Len(items') = Len(items) + 1
          /\ \A i \in DOMAIN items' : items'[i] = IF i \in DOMAIN items THEN items[i] ELSE new
        BY <3>1, <3>2 DEF QueueInvariant
    <3>4. Len(items') <= ItemCapacity
        BY <3>2, <3>3 DEF QueueInvariant, QueueParameters
    <3> QED BY Zenon, <2>1, <3>1, <3>2, <3>3, <3>4 DEF QueueInvariant
  <2>3. CASE Semantic!Tick
    <3>1. held' = held /\ items' = [i \in DOMAIN items |-> [items[i] EXCEPT !.leased = Semantic!Running(items[i].leased)]]
        BY Zenon, <2>3 DEF Semantic!Tick
    <3>2. ASSUME NEW i \in DOMAIN items PROVE ItemOK(items'[i])
      <4>1. items'[i] = [items[i] EXCEPT !.leased = Semantic!Running(items[i].leased)]
          BY Zenon, <3>1
      <4>2. Semantic!Running(items[i].leased) \in Nat /\ Semantic!Running(items[i].leased) <= LeaseLength
          BY <2>1 DEF Semantic!Running, ItemOK, Item, QueueParameters
      <4> QED BY Zenon, <2>1, <4>1, <4>2 DEF ItemOK, Item
    <3>3. DOMAIN items' = DOMAIN items /\ items' = [i \in DOMAIN items' |-> items'[i]]
        BY Zenon, <3>1
    <3> QED BY Zenon, <3>1, <3>2, <3>3, ItemsStep DEF QueueInvariant
  <2>4. ASSUME NEW i \in 1..ItemCapacity, Semantic!next(i) PROVE QueueInvariant'
    <3> DEFINE again == [attempts |-> items[i].attempts + 1, leased |-> LeaseLength,
                         quarantined |-> Semantic!TooOften(items[i].attempts + 1)]
    <3>1. /\ i \in DOMAIN items /\ ~items[i].quarantined
          /\ items' = [items EXCEPT ![i] = again] /\ held' = [held EXCEPT ![i] = held[i] + 1]
        BY Zenon, <2>4 DEF Semantic!next, Semantic!Selected, Semantic!Eligible
    <3>2. items[i].attempts <= MaxAttempts /\ items[i].attempts \in Nat
        BY <2>1, <3>1 DEF ItemOK, Item, QueueParameters
    <3>3. ItemOK(again)
        BY <3>2 DEF ItemOK, Item, Semantic!TooOften, QueueParameters
    <3> HIDE DEF again
    <3>4. /\ DOMAIN items' = DOMAIN items /\ items' = [j \in DOMAIN items' |-> items'[j]]
          /\ \A j \in DOMAIN items : ItemOK(items'[j])
        BY Zenon, <2>1, <3>1, <3>3 DEF QueueInvariant
    <3>5. held' \in [1..ItemCapacity -> Nat]
        BY <3>1 DEF QueueInvariant
    <3> QED BY Zenon, <3>4, <3>5, ItemsStep DEF QueueInvariant
  <2>5. ASSUME NEW i \in 1..ItemCapacity, Semantic!settle(i) PROVE QueueInvariant'
    <3>1. /\ items' = [items EXCEPT ![i].leased = 0] /\ held[i] > 0
          /\ held' = [held EXCEPT ![i] = held[i] - 1]
        BY Zenon, <2>5 DEF Semantic!settle
    <3>2. ASSUME NEW j \in DOMAIN items PROVE ItemOK(items'[j])
      <4>1. items'[j] = items[j] \/ items'[j] = [items[j] EXCEPT !.leased = 0]
          BY Zenon, <3>1 DEF QueueInvariant
      <4> QED BY <2>1, <4>1 DEF ItemOK, Item, QueueParameters
    <3>3. DOMAIN items' = DOMAIN items /\ items' = [j \in DOMAIN items' |-> items'[j]]
        BY Zenon, <3>1
    <3>4. held' \in [1..ItemCapacity -> Nat]
        BY <3>1 DEF QueueInvariant
    <3> QED BY Zenon, <3>2, <3>3, <3>4, ItemsStep DEF QueueInvariant
  <2>6. ASSUME NEW i \in 1..ItemCapacity, Semantic!Abandon(i) PROVE QueueInvariant'
    <3>1. items' = items /\ held' \in [1..ItemCapacity -> Nat]
        BY <2>6 DEF Semantic!Abandon, QueueInvariant
    <3> QED BY Zenon, <3>1 DEF QueueInvariant
  <2>7. CASE UNCHANGED Semantic!vars
      BY Zenon, <2>7 DEF Semantic!vars, QueueInvariant
  <2> QED BY Zenon, <2>2, <2>3, <2>4, <2>5, <2>6, <2>7 DEF Semantic!Next
<1>3. QueueInvariant => Semantic!TypeOK
    BY DEF QueueInvariant, ItemOK, Item, Semantic!TypeOK, QueueParameters
<1> QED BY <1>1, <1>2, <1>3, PTL DEF Semantic!Spec
-----------------------------------------------------------------------------
\* The runtime.

\* A behaviour of the runtime is one of each of its parts.
LEMMA RuntimeParts ==
    RuntimeSpec => Spec /\ Authority!Spec /\ Stream!Spec /\ Window!Spec /\ Semantic!Spec
<1>1. RuntimeInit => Init /\ Authority!Init /\ Stream!Init /\ Window!Init /\ Semantic!Init
    BY Zenon DEF RuntimeInit
<1>2. [RuntimeNext]_RuntimeVars => [Next]_vars
    BY Zenon DEF RuntimeNext, RuntimeVars
<1>3. [RuntimeNext]_RuntimeVars => [Authority!Next]_Authority!vars
    BY Zenon DEF RuntimeNext, RuntimeVars, authorityPart, Authority!vars
<1>4. [RuntimeNext]_RuntimeVars => [Stream!Next]_Stream!vars
    BY Zenon DEF RuntimeNext, RuntimeVars, streamPart, Stream!vars
<1>5. [RuntimeNext]_RuntimeVars => [Window!Next]_Window!vars
    BY Zenon DEF RuntimeNext, RuntimeVars, windowPart, Window!vars
<1>6. [RuntimeNext]_RuntimeVars => [Semantic!Next]_Semantic!vars
    BY Zenon DEF RuntimeNext, RuntimeVars, queuePart, Semantic!vars
<1> QED BY <1>1, <1>2, <1>3, <1>4, <1>5, <1>6, PTL
        DEF RuntimeSpec, Spec, Authority!Spec, Stream!Spec, Window!Spec, Semantic!Spec

\* For any items, resumptions, nonces, lifetimes, keys and workers: neither a stream
\* nor the replay window nor the idempotency table takes again what it has taken.
THEOREM RuntimeTakesOnce == RuntimeSpec => TakenOnce
<1> QED BY RuntimeParts, StreamTakesOnce, WindowTakesOnce, PTL DEF TakenOnce

\* For any workers, keys, capacities and numbers of attempts: the lock table and
\* the semantic queue keep within their limits.
THEOREM RuntimeKeepsLimits == RuntimeSpec => []LimitsKept
<1>1. TypeOK /\ Semantic!TypeOK => LimitsKept
    BY Zenon DEF LimitsKept
<1> QED BY <1>1, RuntimeParts, LockTypes, QueueTypes, PTL
=============================================================================
