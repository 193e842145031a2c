---------------------------- MODULE MemoryBroker ----------------------------
(***************************************************************************)
(* The bounded reference broker of the Zig runtime (MemoryBroker in        *)
(* src/ubiq/delivery.zig): an array of delivery records that only grows,   *)
(* claimed from the front, with a lease per record.                        *)
(*                                                                         *)
(* A record keeps its last lease when the lease expires, so that the next  *)
(* claim can count attempts, and drops it when it is settled.  Frames name *)
(* a record and a worker only: there is no fencing token, and neither      *)
(* receipt nor settlement looks at the deadline.                           *)
(***************************************************************************)
EXTENDS Integers

CONSTANTS Keys,       \* idempotency keys of published envelopes
          Workers,
          NoWorker,   \* a record without a lease
          NoKey,      \* an array slot that is not used yet
          Capacity,   \* size of the array
          Durations,  \* lease durations
          MaxTime,    \* bound: last instant passed to the broker
          MaxAttempt  \* bound: leases per record

ASSUME BrokerAssumption ==
    /\ NoWorker \notin Workers /\ NoKey \notin Keys
    /\ Capacity \in Nat
    /\ Durations \subseteq Nat \ {0}
    /\ MaxTime \in Nat /\ MaxAttempt \in Nat

VARIABLES
    len,      \* records in use are 1..len
    key,      \* envelope.idempotency_key of each record
    state,    \* DeliveryState of each record
    owner,    \* lease.owner, NoWorker when lease is null
    until,    \* lease.until_ms
    attempt,  \* lease.attempt
    granted,  \* history: how many leases each record was given
    leases,   \* history: every lease claim returned
    clock     \* the now_ms callers pass

vars == <<len, key, state, owner, until, attempt, granted, leases, clock>>

Slots == 1..Capacity
InFlight == {"leased", "received"}
SettledStates == {"settled_ok", "settled_error"}
DeliveryStates == {"published", "expired"} \cup InFlight \cup SettledStates

-----------------------------------------------------------------------------
Init ==
    /\ len = 0
    /\ key = [i \in Slots |-> NoKey]
    /\ state = [i \in Slots |-> "published"]
    /\ owner = [i \in Slots |-> NoWorker]
    /\ until = [i \in Slots |-> 0]
    /\ attempt = [i \in Slots |-> 0]
    /\ granted = [i \in Slots |-> 0]
    /\ leases = {}
    /\ clock = 0

\* findByIdempotencyKey: settled records are searched as well.
Known(k) == \E i \in 1..len : key[i] = k

HasRoom == len < Capacity

\* A known key returns its index; a full array is QueueFull.
publish(k) ==
    /\ ~Known(k)
    /\ HasRoom
    /\ len' = len + 1
    /\ key' = [key EXCEPT ![len + 1] = k]
    /\ state' = [state EXCEPT ![len + 1] = "published"]
    /\ owner' = [owner EXCEPT ![len + 1] = NoWorker]
    /\ UNCHANGED <<until, attempt, granted, leases, clock>>

Claimable(i) == i \in 1..len /\ state[i] \in {"published", "expired"}

ForgetsAttempts(i) == IF state[i] = "published" THEN attempt[i] + 1 ELSE 1
NextAttempt(i) == IF owner[i] # NoWorker THEN attempt[i] + 1 ELSE 1

\* The first claimable record from the front of the array.
ScanFinds(i) == Claimable(i) /\ \A j \in 1..(i - 1) : ~Claimable(j)

claim(w, d) ==
    \E i \in Slots :
        /\ ScanFinds(i)
        /\ clock + d <= MaxTime /\ granted[i] < MaxAttempt
        /\ state' = [state EXCEPT ![i] = "leased"]
        /\ owner' = [owner EXCEPT ![i] = w]
        /\ until' = [until EXCEPT ![i] = clock + d]
        /\ attempt' = [attempt EXCEPT ![i] = NextAttempt(i)]
        /\ granted' = [granted EXCEPT ![i] = @ + 1]
        /\ leases' = leases \cup {[slot |-> i, worker |-> w,
                                   attempt |-> NextAttempt(i), until |-> clock + d]}
        /\ UNCHANGED <<len, key, clock>>

\* recordAt and requireOwner.
OwnedBy(i, w) == i \in 1..len /\ owner[i] = w

markReceived(i, w) ==
    /\ OwnedBy(i, w)
    /\ state[i] = "leased"
    /\ state' = [state EXCEPT ![i] = "received"]
    /\ UNCHANGED <<len, key, owner, until, attempt, granted, leases, clock>>

settle(i, w, result) ==
    /\ OwnedBy(i, w)
    /\ state[i] \in InFlight
    /\ state' = [state EXCEPT ![i] = result]
    /\ owner' = [owner EXCEPT ![i] = NoWorker]
    /\ UNCHANGED <<len, key, until, attempt, granted, leases, clock>>

\* Lease.active is now_ms < until_ms.
Early(i) == until[i] <= clock + 1
Inactive(i) == until[i] <= clock
LapsedAny(i) == i \in 1..len /\ state[i] # "published" /\ Inactive(i)
Lapsed(i) == i \in 1..len /\ state[i] \in InFlight /\ Inactive(i)

reapExpired ==
    /\ \E i \in Slots : Lapsed(i)
    /\ state' = [i \in Slots |-> IF Lapsed(i) THEN "expired" ELSE state[i]]
    /\ UNCHANGED <<len, key, owner, until, attempt, granted, leases, clock>>

Tick ==
    /\ clock < MaxTime
    /\ clock' = clock + 1
    /\ UNCHANGED <<len, key, state, owner, until, attempt, granted, leases>>

Next ==
    \/ \E k \in Keys : publish(k)
    \/ \E w \in Workers, d \in Durations : claim(w, d)
    \/ \E i \in Slots, w \in Workers : markReceived(i, w)
    \/ \E i \in Slots, w \in Workers, r \in SettledStates : settle(i, w, r)
    \/ reapExpired
    \/ Tick

Spec == Init /\ [][Next]_vars

\* The embedding runtime keeps calling reapExpired as time passes.
FairSpec == Spec /\ WF_vars(Tick) /\ WF_vars(reapExpired)

-----------------------------------------------------------------------------
Lease == [slot : Slots, worker : Workers, attempt : Nat, until : Nat]

\* Every field of a record holds a value of its type.
TypeOK ==
    /\ len \in 0..Capacity
    /\ key \in [Slots -> Keys \cup {NoKey}]
    /\ state \in [Slots -> DeliveryStates]
    /\ owner \in [Slots -> Workers \cup {NoWorker}]
    /\ until \in [Slots -> Nat]
    /\ attempt \in [Slots -> Nat]
    /\ granted \in [Slots -> Nat]
    /\ leases \subseteq Lease
    /\ clock \in Nat

\* Two workers never hold unexpired leases on one record: a record is claimed
\* again only after reapExpired found its lease inactive.
OneLiveLease ==
    \A l, m \in leases :
        l.slot = m.slot /\ l.until > clock /\ m.until > clock => l = m

\* A record's lease carries the number of times it has been claimed: the count
\* survives expiry because reapExpired leaves the lease in place, so no two
\* leases of a record have the same attempt.
AttemptsCounted ==
    /\ \A i \in 1..len : owner[i] # NoWorker => attempt[i] = granted[i]
    /\ \A l, m \in leases : l.slot = m.slot /\ l.attempt = m.attempt => l = m

\* One idempotency key never occupies two records, also after the first was
\* settled, so its effect is settled at most once (publish).
KeysDistinct == \A i, j \in 1..len : key[i] = key[j] => i = j

\* No record is leased before every record published ahead of it has been
\* leased at least once, whatever expires or settles in between (claim scans
\* from the front).
FrontFirst ==
    \A i, j \in 1..len : i < j /\ granted[j] > 0 => granted[i] > 0

\* The array of records is what publish and claim promise: it keeps to its
\* capacity, the attempt number of a record counts its claims and no two leases
\* share one, no idempotency key occupies two records, and records are leased for
\* the first time in the order of their publication.
RecordsInOrder == TypeOK /\ AttemptsCounted /\ KeysDistinct /\ FrontFirst

\* Every lease ends in settlement or in an expired record (reapExpired treats
\* leased and received records alike).
LeaseResolves ==
    \A i \in Slots :
        state[i] \in InFlight ~> state[i] \in SettledStates \cup {"expired"}

\* The broker is an implementation of the settlement protocol.  An expired
\* record still carries its old lease, which holds nothing any more.
Protocol == INSTANCE ExecutionSettlement
    WITH Items <- Slots,
         phase <- [i \in Slots |-> IF i <= len THEN state[i] ELSE "absent"],
         holder <- [i \in Slots |-> IF state[i] \in InFlight THEN owner[i] ELSE NoWorker],
         attempt <- granted
ImplementsProtocol == Protocol!Spec
=============================================================================
