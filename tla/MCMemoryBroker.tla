--------------------------- MODULE MCMemoryBroker ---------------------------
(***************************************************************************)
(* Small instances for TLC of the two halves of delivery in the Zig        *)
(* runtime: the memory broker, and the worker with its settlement journal  *)
(* as far as progress is concerned (MCDurableSettlement has its safety).   *)
(* They share no state: a behaviour is one of a single part, named by the  *)
(* variable part, and the other stays as it starts.                        *)
(***************************************************************************)
EXTENDS MemoryBroker

CONSTANTS k1, k2, k3

VARIABLES part, lines, torn, projection, last_sequence, next_sequence, recovered, poisoned,
          pc, msg, acked, effects, settledKeys, faults

journalPart ==
    <<lines, torn, projection, last_sequence, next_sequence, recovered, poisoned,
      pc, msg, acked, effects, settledKeys, faults>>
PartVars == <<part, vars, journalPart>>

\* Unrelated messages.
Distinct == {[event |-> "e1", key |-> "k1"], [event |-> "e2", key |-> "k2"]}
Journal == INSTANCE DurableSettlement
    WITH Messages <- Distinct, NoKey <- "none", Progress <- {"received"},
         WorkerCheck <- "ackIfAlreadySettled", TornWrites <- FALSE,
         MaxSeq <- 9, MaxLines <- 8, MaxEffects <- 3, MaxFaults <- 2

PartInit ==
    /\ part \in {"broker", "journal"}
    /\ Init /\ Journal!Init
    /\ part = "broker" => msg.event = "e1"

PartNext ==
    /\ UNCHANGED part
    /\ \/ part = "broker" /\ Next /\ UNCHANGED journalPart
       \/ part = "journal" /\ Journal!Next /\ UNCHANGED vars

\* The fairness of the two modules, of the part that moves.
PartFairness ==
    /\ WF_vars(part = "broker" /\ Tick) /\ WF_vars(part = "broker" /\ reapExpired)
    /\ WF_journalPart(part = "journal" /\ Journal!Recover)
    /\ WF_journalPart(part = "journal" /\ Journal!Restart)
    /\ WF_journalPart(part = "journal" /\ Journal!Work)
    /\ \A m \in Distinct : SF_journalPart(part = "journal" /\ Journal!Pull(m))

PartSpec == PartInit /\ [][PartNext]_PartVars /\ PartFairness

-----------------------------------------------------------------------------
\* No lease of the broker stays behind (Tick), and every message of the stream is
\* settled and acknowledged in the end, although the process crashes, appends
\* fail and acknowledgements get lost (commitSettlementAndAck,
\* ackIfAlreadySettled).
DeliveryProgress == LeaseResolves /\ (part = "journal" => Journal!EveryMessageAcked)
=============================================================================
