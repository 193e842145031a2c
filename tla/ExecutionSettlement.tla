------------------------- MODULE ExecutionSettlement -------------------------
(***************************************************************************)
(* What a delivery control plane of UbiQ promises about each item it is    *)
(* given: the Execution Settlement Protocol.                               *)
(*                                                                         *)
(* The protocol is the pure transition function of                         *)
(* src/src/ubiq/settlement.zig over the states of delivery.zig.  The Go    *)
(* control store (ControlStore) and the Zig broker (MemoryBroker) are      *)
(* each shown to implement it.  An item is leased to one worker at a time, *)
(* every lease opens a new attempt, transport receipt never settles, and   *)
(* a settled item never moves again.                                       *)
(***************************************************************************)
EXTENDS Integers

CONSTANTS Items,      \* what is delivered
          Workers,    \* who may hold a lease
          NoWorker    \* no lease is held

VARIABLES phase,      \* where each item is in its life cycle
          holder,     \* the worker whose lease is in force
          attempt     \* how many leases the item has been given

vars == <<phase, holder, attempt>>

ControlKinds == {"received", "settled_ok", "settled_error", "lease_expired"}
SettledStates == {"settled_ok", "settled_error"}
InFlight == {"leased", "received"}

\* An item that is not in the control plane yet is "absent".
Phases == {"absent", "published", "expired"} \cup InFlight \cup SettledStates

\* settlement.zig, needsRedelivery.
NeedsRedelivery(s) == s \in {"published", "expired"}

\* settlement.zig, transition: whether a control frame of this kind is legal
\* in a state, and the state it leads to.
LegalTransition(current, kind) ==
    IF kind = "received" THEN current = "leased" ELSE current \in InFlight

Transition(kind) == IF kind = "lease_expired" THEN "expired" ELSE kind

TypeOK ==
    /\ phase \in [Items -> Phases]
    /\ holder \in [Items -> Workers \cup {NoWorker}]
    /\ attempt \in [Items -> Nat]

-----------------------------------------------------------------------------
Init ==
    /\ phase = [i \in Items |-> "absent"]
    /\ holder = [i \in Items |-> NoWorker]
    /\ attempt = [i \in Items |-> 0]

Publish(i) ==
    /\ phase[i] = "absent"
    /\ phase' = [phase EXCEPT ![i] = "published"]
    /\ UNCHANGED <<holder, attempt>>

Lease(i, w) ==
    /\ NeedsRedelivery(phase[i])
    /\ phase' = [phase EXCEPT ![i] = "leased"]
    /\ holder' = [holder EXCEPT ![i] = w]
    /\ attempt' = [attempt EXCEPT ![i] = @ + 1]

\* A control frame the holder sends: receipt keeps the lease, settlement ends it.
Frame(i, kind) ==
    /\ LegalTransition(phase[i], kind)
    /\ phase' = [phase EXCEPT ![i] = Transition(kind)]
    /\ holder' = [holder EXCEPT ![i] = IF kind = "received" THEN @ ELSE NoWorker]
    /\ UNCHANGED attempt

\* One sweep ends any number of leases together.
Expire(S) ==
    /\ \A i \in S : LegalTransition(phase[i], "lease_expired")
    /\ phase' = [i \in Items |->
                    IF i \in S THEN Transition("lease_expired") ELSE phase[i]]
    /\ holder' = [i \in Items |-> IF i \in S THEN NoWorker ELSE holder[i]]
    /\ UNCHANGED attempt

Next ==
    \/ \E i \in Items : Publish(i)
    \/ \E i \in Items, w \in Workers : Lease(i, w)
    \/ \E i \in Items, k \in ControlKinds \ {"lease_expired"} : Frame(i, k)
    \/ \E S \in SUBSET Items : Expire(S)

Spec == Init /\ [][Next]_vars
=============================================================================
