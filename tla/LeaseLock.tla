------------------------------ MODULE LeaseLock ------------------------------
(***************************************************************************)
(* LeaseLockTable of lock.zig: workers acquire keys for a time, and a      *)
(* store that is handed a worker's generation asks validateFence whether   *)
(* the write may still happen.  Workers may stall, forget that they hold a *)
(* key and acquire it again; their writes may arrive late.                 *)
(*                                                                         *)
(* An expiry time is kept as the time left.  Generations are numbers below *)
(* Width, 2^64 in the code, and acquires are fewer than generations.       *)
(***************************************************************************)
EXTENDS Naturals, FiniteSets

CONSTANTS Workers, Keys,
          Capacity,     \* locks in the table
          TTL,          \* lease length in clock ticks
          Width,        \* generations are numbers below Width
          MaxAcquires   \* bound: successful acquires

ASSUME LockAssumption ==
    Capacity \in Nat /\ TTL \in Nat \ {0} /\ Width \in Nat \ {0, 1} /\ MaxAcquires \in 0..(Width - 1)

VARIABLES
    locks,            \* per key in the table: owner, time left, generation, active
    next_generation,
    grants,           \* generations in workers' hands: owner, key, generation, number
    granted,          \* acquires so far
    stored            \* per key, the number of the grant behind the last write

vars == <<locks, next_generation, grants, granted, stored>>

Init ==
    /\ locks = [k \in {} |-> 0]
    /\ next_generation = 1
    /\ grants = {} /\ granted = 0
    /\ stored = [k \in Keys |-> 0]

Found(k) == k \in DOMAIN locks
Live(k) == Found(k) /\ locks[k].active /\ locks[k].left > 0
Put(k, lock) == locks' = [i \in DOMAIN locks \cup {k} |-> IF i = k THEN lock ELSE locks[i]]

\* takeGeneration: zero is skipped when the counter wraps.
Advance(g) == IF g + 1 = Width THEN 1 ELSE g + 1

Acquirable(k) == ~Live(k) /\ (Found(k) \/ Cardinality(DOMAIN locks) < Capacity)
acquire(w, k) ==
    /\ granted < MaxAcquires /\ Acquirable(k)
    /\ Put(k, [owner |-> w, left |-> TTL, generation |-> next_generation, active |-> TRUE])
    /\ next_generation' = Advance(next_generation)
    /\ granted' = granted + 1
    /\ grants' = grants \cup {[owner |-> w, key |-> k, generation |-> next_generation,
                               number |-> granted + 1]}
    /\ UNCHANGED stored

renew(w, k) ==
    /\ Live(k) /\ locks[k].owner = w
    /\ locks' = [locks EXCEPT ![k].left = TTL]
    /\ UNCHANGED <<next_generation, grants, granted, stored>>

release(w, k) ==
    /\ Found(k) /\ locks[k].active /\ locks[k].owner = w
    /\ locks' = [locks EXCEPT ![k].active = FALSE]
    /\ UNCHANGED <<next_generation, grants, granted, stored>>

reapExpired ==
    /\ locks' = [k \in DOMAIN locks |->
                   [locks[k] EXCEPT !.active = locks[k].active /\ locks[k].left > 0]]
    /\ UNCHANGED <<next_generation, grants, granted, stored>>

OwnerOnly(g) == Live(g.key) /\ locks[g.key].owner = g.owner
validateFence(g) ==
    Live(g.key) /\ locks[g.key].generation = g.generation /\ locks[g.key].owner = g.owner

\* The store's side of a write that carries the grant.
Write(g) ==
    /\ g \in grants /\ validateFence(g)
    /\ stored' = [stored EXCEPT ![g.key] = g.number]
    /\ UNCHANGED <<locks, next_generation, grants, granted>>

Forget(g) ==
    /\ g \in grants
    /\ grants' = grants \ {g}
    /\ UNCHANGED <<locks, next_generation, granted, stored>>

Tick ==
    /\ \E k \in DOMAIN locks : locks[k].left > 0
    /\ locks' = [k \in DOMAIN locks |->
                   [locks[k] EXCEPT !.left = IF locks[k].left > 0 THEN locks[k].left - 1 ELSE 0]]
    /\ UNCHANGED <<next_generation, grants, granted, stored>>

Next ==
    \/ \E w \in Workers, k \in Keys : acquire(w, k) \/ renew(w, k) \/ release(w, k)
    \/ \E g \in grants : Write(g) \/ Forget(g)
    \/ reapExpired \/ Tick

Spec == Init /\ [][Next]_vars

\* Time passes; nobody has to release, renew or reap.
FairSpec == Spec /\ WF_vars(Tick)

-----------------------------------------------------------------------------
\* Every variable holds a value of its type; no generation is zero.
TypeOK ==
    /\ DOMAIN locks \subseteq Keys /\ Cardinality(DOMAIN locks) <= Capacity
    /\ \A k \in DOMAIN locks :
          locks[k].left \in 0..TTL /\ locks[k].generation \in 1..(Width - 1)
    /\ next_generation \in 1..(Width - 1)
    /\ granted \in 0..MaxAcquires

\* The store never applies a
\* write of a grant older than one whose write it has applied: the stale worker
\* is rejected by validateFence, also when it is an earlier life of the present owner.
WritesInGrantOrder == [][\A k \in Keys : stored'[k] >= stored[k]]_stored

\* A key in the table can be acquired again and again unless its lease is
\* renewed: a worker that stalls or crashes holds it for the lease at most.
StalledFreed ==
    \A k \in Keys : <>[][\A w \in Workers : ~renew(w, k)]_vars => []<>(Found(k) => Acquirable(k))
=============================================================================
