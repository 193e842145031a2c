--------------------------- MODULE TransportLayer ---------------------------
(***************************************************************************)
(* The registry of the Go daemon (TransportRoutes) and the point-to-point  *)
(* transports (PeerDispatch).  They share no state.                        *)
(***************************************************************************)
EXTENDS TransportRoutes

CONSTANTS Kinds, Events, Subs, Envelopes, Nil

VARIABLES kind, table, sub, env, dispatching, due, called, result

Dispatch == INSTANCE PeerDispatch WITH todo <- dispatching

\* No event is called "*", and Nil is the empty slot.
DispatchParameters == Nil \notin Subs /\ "*" \notin Events

ASSUME LayerAssumption == RoutesParameters /\ DispatchParameters

-----------------------------------------------------------------------------
\* A subscription's index is its own slot while it is open, and a dispatch calls
\* exactly the subscriptions that were open when it began, each once, also while
\* others subscribe and close (Subscribe, funcSubscription.Close, dispatch); what
\* gRPC and memory report as published has been dispatched, and MemoryTransport
\* never calls a handler whose Close has returned.
DispatchFaithful == Dispatch!DispatchFaithful
=============================================================================
