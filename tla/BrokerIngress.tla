--------------------------- MODULE BrokerIngress ---------------------------
(***************************************************************************)
(* The subscribe loops of the broker transports (transports_broker.go):    *)
(* JetStream, RabbitMQ, Kafka, Redis Streams and MQTT each decode a        *)
(* message, call the handler and settle it with the broker in their own    *)
(* way.  The handler is the one Server.BindTransport installs: it stores   *)
(* the envelope in the control store.  When the transport is wrapped by    *)
(* SecureTransport the handler first verifies the proof the message        *)
(* carries: an expired proof, or one this process has already accepted, is *)
(* an error (ReplayGuard has the details of that check).                   *)
(*                                                                         *)
(* The brokers are external: which message they hand out next, and what    *)
(* becomes of a message that was handed out and not settled.               *)
(***************************************************************************)
EXTENDS Naturals

CONSTANTS Brokers,      \* the kinds of broker a behaviour may have
          Size,         \* number of messages
          Garbled,      \* messages that do not decode
          OtherEvents,  \* messages of an event the subscription does not want
          Wrapped,      \* whether SecureTransport wraps the transport: a set of BOOLEANs
          MaxFails,     \* bound: failures of Store.Publish
          MaxFaults     \* bound: restarts and lost acknowledgements

VARIABLES
    broker, secured,
    queue,    \* per message: what the broker still intends with it
    inbox,    \* messages read and not yet processed, in order
    verdict,  \* what became of the first message of the inbox, or "none"
    stored,   \* messages in the control store
    seen,     \* the replay table of this process
    stale,    \* messages whose proof is outside the freshness window
    fails, faults

setup == <<broker, secured>>
vars == <<broker, secured, queue, inbox, verdict, stored, seen, stale, fails, faults>>

\* Positions in the queue.
Messages == 1..Size

\* Kafka and Redis filter in the loop, the others subscribe by subject.
Filters == broker \in {"kafka", "redis"}
Elsewhere(m) == m \in OtherEvents /\ ~Filters

Init ==
    /\ broker \in Brokers /\ secured \in Wrapped
    /\ queue = [m \in Messages |-> IF Elsewhere(m) THEN "elsewhere" ELSE "ready"]
    /\ inbox = {} /\ verdict = "none" /\ stored = {} /\ seen = {} /\ stale = {}
    /\ fails = 0 /\ faults = 0

Ready == {m \in Messages : queue[m] = "ready"}
\* Messages are numbered in the order of the log.
Oldest(S) == CHOOSE m \in S : \A n \in S : m <= n
Current == Oldest(inbox)

-----------------------------------------------------------------------------
\* The broker hands out a message: a log in order, and Redis a whole batch of
\* what no consumer of the group has been given yet (the ">" of XREADGROUP).
Batch(m) == IF broker = "redis" THEN Ready ELSE {m}
Read(m) ==
    /\ inbox = {} /\ m \in Ready
    /\ broker \in {"kafka", "redis"} => m = Oldest(Ready)
    /\ inbox' = Batch(m)
    /\ queue' = [q \in Messages |-> IF q \in Batch(m) THEN "pending" ELSE queue[q]]
    /\ UNCHANGED <<setup, verdict, stored, seen, stale, fails, faults>>

\* decodeEnvelope and the event filter decide without the handler.
Skips(m) == m \in Garbled \cup OtherEvents
Unhandled(m) ==
    /\ Skips(m)
    /\ verdict' = IF m \in Garbled THEN "garbled" ELSE "other"
    /\ UNCHANGED <<stored, seen, fails>>

\* SecureTransport: the proof is refused, and the store is not reached.
Refused(m) == secured /\ (m \in seen \/ m \in stale)

\* The handler: VerifyPoP enters the nonce, then Store.Publish, which accepts a
\* known message again, or fails.
Handled(m) ==
    /\ ~Skips(m)
    /\ \/ Refused(m) /\ verdict' = "error" /\ UNCHANGED <<stored, seen, fails>>
       \/ /\ ~Refused(m) /\ seen' = IF secured THEN seen \cup {m} ELSE seen
          /\ \/ stored' = stored \cup {m} /\ verdict' = "ok" /\ UNCHANGED fails
             \/ /\ fails < MaxFails /\ fails' = fails + 1
                /\ verdict' = "error" /\ UNCHANGED stored

Process ==
    /\ inbox # {} /\ verdict = "none"
    /\ Unhandled(Current) \/ Handled(Current)
    /\ UNCHANGED <<setup, queue, inbox, stale, faults>>

\* Which outcomes the loop acknowledges, and which RabbitMQ gives back.
AnyOutcome(v) == TRUE
Acknowledges(v) == v \in {"ok", "other"} \/ broker = "mqtt"
Requeues(v) == broker = "rabbit" /\ v = "error"

\* The queue once message m is acknowledged: a Kafka commit is an offset, it
\* covers every earlier message.
Acked(m) ==
    [q \in Messages |-> IF q = m \/ (broker = "kafka" /\ q <= m) THEN "acked" ELSE queue[q]]

\* The end of one round of the loop; the acknowledgement may get lost.  With
\* RabbitMQ it is lost only with the connection, which ends the loop: Restart.
Settle ==
    /\ verdict # "none"
    /\ \/ Acknowledges(verdict) /\ queue' = Acked(Current) /\ UNCHANGED faults
       \/ /\ Acknowledges(verdict) /\ broker # "rabbit" /\ faults < MaxFaults
          /\ faults' = faults + 1 /\ UNCHANGED queue
       \/ /\ ~Acknowledges(verdict)
          /\ queue' = [queue EXCEPT ![Current] =
               CASE Requeues(verdict) -> "ready"
                 [] broker = "rabbit" /\ verdict = "garbled" -> "dropped"
                 [] OTHER -> @]
          /\ UNCHANGED faults
    /\ inbox' = inbox \ {Current}
    /\ verdict' = "none"
    /\ UNCHANGED <<setup, stored, seen, stale, fails>>

\* JetStream hands a message out again when it is not acknowledged in time.
Redeliver(m) ==
    /\ broker = "jetstream" /\ queue[m] = "pending"
    /\ queue' = [queue EXCEPT ![m] = "ready"]
    /\ UNCHANGED <<setup, inbox, verdict, stored, seen, stale, fails, faults>>

\* A new process, or a lost connection and the restart that the loop needs to
\* subscribe again.  JetStream and RabbitMQ give unsettled messages back, Kafka
\* starts again behind the committed offset, Redis keeps them for a consumer
\* name that no longer exists, MQTT has forgotten them with the session.
Forgotten(m) == queue[m]
AfterRestart(m) ==
    IF queue[m] = "pending" /\ broker \in {"jetstream", "rabbit", "kafka"}
    THEN "ready" ELSE queue[m]
Restart ==
    /\ faults < MaxFaults /\ faults' = faults + 1
    /\ inbox' = {} /\ verdict' = "none" /\ seen' = {}
    /\ queue' = [m \in Messages |-> AfterRestart(m)]
    /\ UNCHANGED <<setup, stored, stale, fails>>

\* Time passes: a proof leaves the freshness window.
Age(m) ==
    /\ secured /\ m \notin stale
    /\ stale' = stale \cup {m}
    /\ UNCHANGED <<setup, queue, inbox, verdict, stored, seen, fails, faults>>

Next ==
    \/ \E m \in Messages : Read(m) \/ Redeliver(m) \/ Age(m)
    \/ Process \/ Settle \/ Restart

\* The loop goes on; the broker hands out what it has, however often it is
\* busy with other messages, and JetStream's acknowledgement timer fires.
Fairness ==
    /\ WF_vars(Process) /\ WF_vars(Settle)
    /\ \A m \in Messages : SF_vars(Read(m)) /\ WF_vars(Redeliver(m))

Spec == Init /\ [][Next]_vars
FairSpec == Spec /\ Fairness

-----------------------------------------------------------------------------
Wanted == Messages \ (Garbled \cup OtherEvents)

\* Every variable holds a value of its type.
TypeOK ==
    /\ broker \in Brokers /\ secured \in Wrapped
    /\ queue \in [Messages -> {"ready", "pending", "acked", "dropped", "elsewhere"}]
    /\ inbox \subseteq Messages
    /\ verdict \in {"none", "garbled", "other", "ok", "error"}
    /\ stored \subseteq Wanted /\ seen \subseteq Wanted /\ stale \subseteq Messages
    /\ fails \in 0..MaxFails /\ faults \in 0..MaxFaults

\* A transport that declares ExecutionSettlement never settles a message with
\* its broker before the control store has it, whatever fails, is handed out
\* twice or is interrupted by a restart.  For Kafka, whose commit is an offset,
\* this is true only as long as no handler has returned an error.
ClaimsSettlement == broker # "mqtt"
OffsetSafe == broker = "kafka" => fails = 0 /\ ~secured
AckedIsStored ==
    /\ TypeOK
    /\ ClaimsSettlement /\ OffsetSafe => \A m \in Wanted : queue[m] = "acked" => m \in stored

\* A message of a redelivering broker reaches the store in the end.  Behind
\* SecureTransport it may instead be refused for good: its proof expired, or a
\* failed attempt of this process entered its nonce.
Redelivers == broker \in {"jetstream", "rabbit"}
StoredOrRefused ==
    \A m \in Wanted : <>[](~Redelivers \/ m \in stored \/ Refused(m))

\* Without SecureTransport a stored message is settled with its broker in the
\* end, although acknowledgements get lost: the store accepts it again.
RedeliveryAcknowledged ==
    \A m \in Wanted : (m \in stored /\ Redelivers /\ ~secured) ~> (queue[m] = "acked")
=============================================================================
