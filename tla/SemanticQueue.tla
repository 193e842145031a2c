---------------------------- MODULE SemanticQueue ----------------------------
(***************************************************************************)
(* SemanticQueue of contracts.zig: a bounded array whose items are handed  *)
(* out under a lease, counted, and quarantined when handed out too often.  *)
(* settle only ends the lease: the item stays in the array and is handed   *)
(* out again.  Consumers may settle late, when the item is leased again,   *)
(* or never.  A lease is kept as the time left.                            *)
(***************************************************************************)
EXTENDS Naturals, Sequences

CONSTANTS Capacity, LeaseLength, MaxAttempts,
          MaxHeld   \* bound: handed-out items consumers still hold

VARIABLES
    items,
    held,      \* per item, the consumers it was handed to that still hold it
    priority   \* the policy's flag

vars == <<items, held, priority>>

Init ==
    /\ items = <<>> /\ held = [i \in 1..Capacity |-> 0]
    /\ priority \in BOOLEAN

enqueue ==
    /\ Len(items) < Capacity
    /\ items' = Append(items, [attempts |-> 0, leased |-> 0, quarantined |-> FALSE])
    /\ UNCHANGED <<held, priority>>

Eligible(i) == ~items[i].quarantined /\ items[i].leased = 0

\* The first eligible item or, by priority, the first of those with the fewest
\* attempts.
Before(j, i) == IF priority THEN \/ items[j].attempts < items[i].attempts
                                 \/ items[j].attempts = items[i].attempts /\ j < i
                ELSE j < i
StopsAtLeased(i) == i = 1 /\ Eligible(1)
Selected(i) == Eligible(i) /\ \A j \in DOMAIN items \ {i} : Eligible(j) => ~Before(j, i)

NeverPoison(attempts) == FALSE
TooOften(attempts) == attempts > MaxAttempts
next(i) ==
    /\ i \in DOMAIN items /\ Selected(i) /\ held[i] < MaxHeld
    /\ items' = [items EXCEPT ![i] =
                   [attempts |-> items[i].attempts + 1, leased |-> LeaseLength,
                    quarantined |-> TooOften(items[i].attempts + 1)]]
    /\ held' = [held EXCEPT ![i] = held[i] + 1]
    /\ UNCHANGED priority

settle(i) ==
    /\ held[i] > 0
    /\ items' = [items EXCEPT ![i].leased = 0]
    /\ held' = [held EXCEPT ![i] = held[i] - 1]
    /\ UNCHANGED priority

\* A consumer that never settles.
Abandon(i) ==
    /\ held[i] > 0
    /\ held' = [held EXCEPT ![i] = held[i] - 1]
    /\ UNCHANGED <<items, priority>>

Running(left) == IF left > 0 THEN left - 1 ELSE 0
Tick ==
    /\ \E i \in DOMAIN items : items[i].leased > 0
    /\ items' = [i \in DOMAIN items |-> [items[i] EXCEPT !.leased = Running(items[i].leased)]]
    /\ UNCHANGED <<held, priority>>

Next ==
    \/ enqueue \/ Tick
    \/ \E i \in 1..Capacity : next(i) \/ settle(i) \/ Abandon(i)

\* Consumers keep asking and let go of what they hold, one way or the other; time
\* passes.
Fairness ==
    /\ WF_vars(\E i \in 1..Capacity : next(i)) /\ WF_vars(Tick)
    /\ \A i \in 1..Capacity : WF_vars(settle(i) \/ Abandon(i))

Spec == Init /\ [][Next]_vars
FairSpec == Spec /\ Fairness

-----------------------------------------------------------------------------
\* The array never holds more than Capacity items; the count stops with the
\* quarantine: an item is handed out once more than max_attempts and then never.
TypeOK ==
    /\ Len(items) <= Capacity
    /\ \A i \in DOMAIN items :
          /\ items[i].attempts \in 0..(MaxAttempts + 1) /\ items[i].leased \in 0..LeaseLength
          /\ items[i].quarantined = (items[i].attempts > MaxAttempts)

\* Every item enqueued is handed out in the end, although the scan always starts
\* at the front and a settled item is the first one eligible again: only the
\* quarantine keeps the front items from starving the others.
EveryItemServed ==
    \A i \in 1..Capacity : (i \in DOMAIN items) ~> (i \in DOMAIN items /\ items[i].attempts > 0)
=============================================================================
