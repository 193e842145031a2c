-------------------------- MODULE TransportHealth --------------------------
(***************************************************************************)
(* The transport registry of the Zig runtime (transports.zig): the health  *)
(* of each transport, moved by the operator (initialize, start), by the    *)
(* adapter (markHealthy, recordReconnect) and by the results of            *)
(* publications (recordPublish).  The adapters are external: a publication *)
(* begins on a healthy transport and its result is recorded later, when    *)
(* the registry may have been initialized again.  The counters are left    *)
(* out, no transition reads them.                                          *)
(***************************************************************************)
EXTENDS Naturals

CONSTANTS Kinds,
          Late,       \* initialize does not wait for publications under way
          MaxPending  \* bound: publications under way per transport

VARIABLES
    state,    \* per transport
    allowed,  \* the transports that the last configuration enables
    pending   \* per transport, the publications without a result yet

vars == <<state, allowed, pending>>

Init ==
    /\ state = [k \in Kinds |-> "stopped"]
    /\ allowed = Kinds
    /\ pending = [k \in Kinds |-> 0]

-----------------------------------------------------------------------------
Initialized(S) ==
    /\ Late \/ \A k \in Kinds : pending[k] = 0
    /\ allowed' = S
    /\ state' = [k \in Kinds |-> IF k \in S THEN "stopped" ELSE "disabled"]
    /\ UNCHANGED pending

initialize(runtime) == Initialized(runtime)

\* A selection of a transport whose feature is off is refused.
initializeWithConfig(runtime, selection) ==
    selection \subseteq runtime /\ Initialized(selection \cap runtime)

Becomes(k, s) == state' = [state EXCEPT ![k] = s]

start(k) ==
    /\ state[k] \in {"stopped", "unhealthy", "degraded"}
    /\ Becomes(k, "starting")
    /\ UNCHANGED <<allowed, pending>>

markHealthy(k) ==
    /\ state[k] \in {"starting", "degraded"}
    /\ Becomes(k, "healthy")
    /\ UNCHANGED <<allowed, pending>>

Publish(k) ==
    /\ state[k] = "healthy" /\ pending[k] < MaxPending
    /\ pending' = [pending EXCEPT ![k] = @ + 1]
    /\ UNCHANGED <<state, allowed>>

recordPublish(k, ok) ==
    /\ pending[k] > 0
    /\ pending' = [pending EXCEPT ![k] = @ - 1]
    /\ IF ok THEN UNCHANGED state ELSE Becomes(k, "degraded")
    /\ UNCHANGED allowed

\* The adapter reports a reconnect whatever has become of its transport.
AnyState(k) == TRUE
Reconnectable(k) == state[k] # "disabled"
recordReconnect(k) ==
    /\ IF Reconnectable(k) THEN Becomes(k, "starting") ELSE UNCHANGED state
    /\ UNCHANGED <<allowed, pending>>

Next ==
    \/ \E S \in SUBSET Kinds :
         initialize(S) \/ \E T \in SUBSET Kinds : initializeWithConfig(S, T)
    \/ \E k \in Kinds :
         \/ start(k) \/ markHealthy(k) \/ Publish(k) \/ recordReconnect(k)
         \/ \E ok \in BOOLEAN : recordPublish(k, ok)

Spec == Init /\ [][Next]_vars

-----------------------------------------------------------------------------
\* "disabled transports do not start": a transport that the configuration
\* leaves out is neither starting nor healthy, whatever its adapter and its
\* publications report afterwards.
DisabledDoesNotStart == \A k \in Kinds \ allowed : state[k] \notin {"starting", "healthy"}
=============================================================================
