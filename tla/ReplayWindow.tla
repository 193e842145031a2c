---------------------------- MODULE ReplayWindow ----------------------------
(***************************************************************************)
(* ReplayWindow and IdempotencyTable of security_runtime.zig, as a runtime *)
(* uses them in front of an operation: the nonce of a delivery is checked  *)
(* against the window; the idempotency key says whether the operation is   *)
(* still to be dispatched or what became of it.  The window's array may    *)
(* hold a nonce twice, once expired; an expiry is kept as the time left.   *)
(* There is one operation and one payload per key.                         *)
(***************************************************************************)
EXTENDS Naturals, Sequences, FiniteSets

CONSTANTS Nonces, Keys, Workers,
          Capacity,        \* entries of the window
          TableCapacity,   \* records of the idempotency table
          TTLs,            \* lifetimes callers ask for
          Absent

VARIABLES
    entries,    \* the window
    barred,     \* per nonce, the time it may not be accepted again
    records,    \* the idempotency table: per key its outcome, or Absent
    working,    \* per worker, the key it is dispatched for, or Absent
    done        \* keys that have been settled

vars == <<entries, barred, records, working, done>>
window == <<entries, barred>>
table == <<records, working, done>>

Init ==
    /\ entries = <<>> /\ barred = [n \in Nonces |-> 0]
    /\ records = [k \in Keys |-> Absent]
    /\ working = [w \in Workers |-> Absent] /\ done = {}

-----------------------------------------------------------------------------
\* ReplayWindow.
Entry(n, ttl) == [nonce |-> n, left |-> ttl]
Replayed(n) == \E i \in DOMAIN entries : entries[i].left > 0 /\ entries[i].nonce = n

\* The first of the entries that expire earliest.
Oldest(i) ==
    /\ i \in DOMAIN entries
    /\ \A j \in DOMAIN entries :
         \/ entries[i].left < entries[j].left
         \/ entries[i].left = entries[j].left /\ i <= j

EvenLive(i) == Oldest(i)
Reusable(i) == Oldest(i) /\ entries[i].left = 0
accept(n, ttl) ==
    /\ ~Replayed(n)
    /\ \/ /\ Len(entries) < Capacity
          /\ entries' = Append(entries, Entry(n, ttl))
       \/ /\ Len(entries) = Capacity
          /\ \E i \in DOMAIN entries :
               Reusable(i) /\ entries' = [entries EXCEPT ![i] = Entry(n, ttl)]
    /\ barred' = [barred EXCEPT ![n] = ttl]
    /\ UNCHANGED table

\* The live entries are moved to the front, in their order.
Kept == {i \in DOMAIN entries : entries[i].left > 0}
InOrder(from) ==
    /\ Kept = {from[w] : w \in DOMAIN from}
    /\ \A v, w \in DOMAIN from : v < w => from[v] < from[w]
reap ==
    /\ \E from \in [1..Cardinality(Kept) -> Kept] :
         InOrder(from) /\ entries' = [w \in DOMAIN from |-> entries[from[w]]]
    /\ UNCHANGED <<barred, table>>

Less(left) == IF left > 0 THEN left - 1 ELSE 0
Tick ==
    /\ entries' = [i \in DOMAIN entries |-> [entries[i] EXCEPT !.left = Less(entries[i].left)]]
    /\ barred' = [n \in Nonces |-> Less(barred[n])]
    /\ UNCHANGED table

-----------------------------------------------------------------------------
\* IdempotencyTable.  A worker that is answered dispatched runs the operation and
\* settles; the answer does not tell the first worker from a second one.
Known == {k \in Keys : records[k] # Absent}
Dispatchable(k) ==
    \/ records[k] = "dispatched"
    \/ records[k] = Absent /\ Cardinality(Known) < TableCapacity
begin(w, k) ==
    /\ working[w] = Absent /\ Dispatchable(k)
    /\ records' = [records EXCEPT ![k] = "dispatched"]
    /\ working' = [working EXCEPT ![w] = k]
    /\ UNCHANGED <<done, window>>

settle(w, outcome) ==
    /\ working[w] # Absent
    /\ records' = [records EXCEPT ![working[w]] = outcome]
    /\ done' = done \cup {working[w]}
    /\ working' = [working EXCEPT ![w] = Absent]
    /\ UNCHANGED window

\* A worker that dies leaves the record as it is.
Die(w) ==
    /\ working[w] # Absent
    /\ working' = [working EXCEPT ![w] = Absent]
    /\ UNCHANGED <<records, done, window>>

Outcomes == {"effect_unknown", "settled_success", "settled_failure"}

Next ==
    \/ \E n \in Nonces, ttl \in TTLs : accept(n, ttl)
    \/ reap \/ Tick
    \/ \E w \in Workers : \/ \E k \in Keys : begin(w, k)
                          \/ \E outcome \in Outcomes : settle(w, outcome)
                          \/ Die(w)

Spec == Init /\ [][Next]_vars

-----------------------------------------------------------------------------
\* The window never accepts a nonce again within the lifetime it was accepted
\* for, also when its array is full and entries are being reused: it refuses
\* rather than forget a nonce that is still barred.
AcceptsUnbarred == \A n \in Nonces, ttl \in TTLs : accept(n, ttl) => barred[n] = 0

\* Once an outcome has been settled for a key, no worker is sent off to run its
\* operation: workers that were sent off twice did so before the first settlement.
DispatchesUndone ==
    \A w \in Workers : working'[w] \notin {working[w], Absent} => working'[w] \notin done
=============================================================================
