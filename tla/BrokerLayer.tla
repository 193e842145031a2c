----------------------------- MODULE BrokerLayer -----------------------------
(***************************************************************************)
(* The broker loops of the Go daemon (BrokerIngress) and its hub           *)
(* (EventHub).  They share no state.                                       *)
(***************************************************************************)
EXTENDS Naturals

CONSTANTS Brokers, Size, Garbled, OtherEvents, Wrapped, MaxFails, MaxFaults,
          Streams, Sockets, Publishers, ChanCapacity, Rounds

VARIABLES broker, secured, queue, inbox, verdict, stored, seen, stale, fails, faults,
          conn, chan, reader, received, offering, readers, round

Ingress == INSTANCE BrokerIngress
Hub == INSTANCE EventHub WITH Capacity <- ChanCapacity, todo <- offering

\* The limits are numbers; a channel may be of any length, 64 in the code.
IngressParameters == Size \in Nat /\ MaxFails \in Nat /\ MaxFaults \in Nat
HubParameters == ChanCapacity \in Nat /\ Rounds \in Nat

ASSUME LoopAssumption == IngressParameters /\ HubParameters

-----------------------------------------------------------------------------
\* A broker loop that declares ExecutionSettlement settles a message only when
\* the control store has it; Kafka's as long as no handler has failed.
AckedIsStored == Ingress!AckedIsStored

\* Hub.Publish never sends on a channel that Unsubscribe has closed, no channel
\* exceeds its length, and a connection sees the publications of a goroutine in
\* their order.
HubFaithful == Hub!HubFaithful
=============================================================================
