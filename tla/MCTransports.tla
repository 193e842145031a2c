---------------------------- MODULE MCTransports ----------------------------
(***************************************************************************)
(* A small instance of the transports: the registry and the point-to-point *)
(* transports (TransportLayer), the broker loops and the hub               *)
(* (BrokerLayer).  They share no state, so a behaviour is one of a single  *)
(* part, named by the variable part, and the others stay as they start.    *)
(***************************************************************************)
EXTENDS TransportLayer, BrokerLayer, TLC

VARIABLE part

dispatchPart == <<kind, table, sub, env, dispatching, due, called, result>>
ingressPart ==
    <<broker, secured, queue, inbox, verdict, stored, seen, stale, fails, faults>>
hubPart == <<conn, chan, reader, received, offering, readers, round>>
PartVars == <<part, vars, dispatchPart, ingressPart, hubPart>>

PartInit ==
    /\ part \in {"routes", "dispatch", "ingress", "hub"}
    /\ Init /\ Dispatch!Init /\ Ingress!Init /\ Hub!Init
    /\ part # "dispatch" => kind = "memory"
    /\ part # "ingress" => broker = "mqtt" /\ ~secured

PartNext ==
    /\ UNCHANGED part
    /\ \/ part = "routes" /\ Next /\ UNCHANGED <<dispatchPart, ingressPart, hubPart>>
       \/ part = "dispatch" /\ Dispatch!Next /\ UNCHANGED <<vars, ingressPart, hubPart>>
       \/ part = "ingress" /\ Ingress!Next /\ UNCHANGED <<vars, dispatchPart, hubPart>>
       \/ part = "hub" /\ Hub!Next /\ UNCHANGED <<vars, dispatchPart, ingressPart>>

PartSpec == PartInit /\ [][PartNext]_PartVars

-----------------------------------------------------------------------------

MCTransportNames == {"memory", "quic", "kafka", "stub"}
MCNames == {"m", "q", "k"}

\* Two of the transports are rivals for a name.
MCNameOf == [t \in MCTransportNames |->
    CASE t = "memory" -> "m" [] t = "quic" -> "q" [] OTHER -> "k"]
MCCaps == {"durable", "execution_settlement", "ordered", "replay"}
MCCapsOf == [t \in MCTransportNames |->
    CASE t = "memory" -> {"ordered", "execution_settlement"}
      [] t = "quic"   -> {"ordered"}
      [] t = "kafka"  -> {"ordered", "durable", "replay", "execution_settlement"}
      [] t = "stub"   -> {}]
MCRoutes ==
    {[stages |-> <<"m", "q", "k">>, requires |-> {"durable", "execution_settlement"}],
     [stages |-> <<"m", None, "q">>, requires |-> {"execution_settlement", "ordered"}],
     [stages |-> <<"q", "k", None>>, requires |-> {"durable"}],
     [stages |-> <<"q", None, None>>, requires |-> {"replay"}]}

Symmetric == Permutations(Subs) \cup Permutations(Envelopes)
=============================================================================
