------------------------------ MODULE Gateway ------------------------------
(***************************************************************************)
(* How a published event leaves the Go daemon: ingest in server.go stores  *)
(* it, hands it to a transport and, when the transport fails, puts it in   *)
(* the outbox table, which RunMaintenance drains.                          *)
(*                                                                         *)
(* Request handlers run concurrently with each other and with the one      *)
(* maintenance loop; the database commits of store.go survive a crash,     *)
(* handlers and the loop do not.  Which lease an event is under is the     *)
(* matter of ControlStore and is left out; transports are external: a      *)
(* Publish is accepted, is refused, or is accepted and reported as failed. *)
(***************************************************************************)
EXTENDS Integers, Sequences

CONSTANTS Events,     \* envelopes, each with an idempotency key of its own
          Transports,
          NoTransport,
          Configs,    \* sets of transports a process may start with
          Batch,      \* outbox rows per maintenance tick (64 in the code)
          MaxFaults   \* bound: crashes, lost replies and failed statements

ASSUME GatewayAssumption ==
    /\ NoTransport \notin Transports
    /\ Configs \subseteq SUBSET Transports /\ Configs # {}
    /\ Batch \in Nat \ {0} /\ MaxFaults \in Nat

VARIABLES
    registered,  \* Registry.transports of the running process
    stored,      \* events with a row in the control store
    handler,     \* per event, where the ingest that created its row is
    route,       \* per event, the transport that ingest was asked for
    outbox,      \* rows in seq order: [event, transport]
    ripe,        \* rows whose available_at_ms has come
    delivered,   \* rows with delivered_at_ms
    loop,        \* RunMaintenance: "idle", "next" or "mark"
    cur, left,   \* its current row, and how many more it may take this tick
    sent,        \* how often a transport accepted each event
    lost,        \* history: events whose ingest ended without egress or outbox
    faults

database == <<stored, outbox, delivered>>
maintenance == <<loop, cur, left>>
gatewayVars ==
    <<registered, stored, handler, route, outbox, ripe, delivered, loop, cur, left, sent, lost,
      faults>>

Rows == 1..Len(outbox)

GatewayInit ==
    /\ registered \in Configs
    /\ stored = {}
    /\ handler = [e \in Events |-> "none"]
    /\ route = [e \in Events |-> NoTransport]
    /\ outbox = <<>> /\ ripe = {} /\ delivered = {}
    /\ loop = "idle" /\ cur = 0 /\ left = 0
    /\ sent = [e \in Events |-> 0]
    /\ lost = {}
    /\ faults = 0

Fault == faults < MaxFaults /\ faults' = faults + 1

-----------------------------------------------------------------------------
\* ingest.  Only the request that created the row goes on to a transport; a
\* repeated publication is answered from the store.
AnyRequest(e) == handler[e] = "none"
Created(e) == e \notin stored

ingest(e, t) ==
    /\ Created(e)
    /\ stored' = stored \cup {e}
    /\ handler' = [handler EXCEPT ![e] = "egress"]
    /\ route' = [route EXCEPT ![e] = t]
    /\ UNCHANGED <<registered, outbox, ripe, delivered, maintenance, sent, lost, faults>>

\* An event that only enters the daemon: neither the request nor the
\* configuration names a transport, or a bound transport delivered it.
BindTransport(e) ==
    /\ Created(e)
    /\ stored' = stored \cup {e}
    /\ UNCHANGED <<registered, handler, route, outbox, ripe, delivered, maintenance,
                   sent, lost, faults>>

Finish(e) == handler' = [handler EXCEPT ![e] = "none"]
Accepted(e) == sent' = [sent EXCEPT ![e] = @ + 1]

\* An unknown transport is an error after the row was committed.
UnknownTransport(e) ==
    /\ handler[e] = "egress" /\ route[e] \notin registered
    /\ Finish(e)
    /\ lost' = lost \cup {e}
    /\ UNCHANGED <<registered, database, route, ripe, maintenance, sent, faults>>

EgressOk(e) ==
    /\ handler[e] = "egress" /\ route[e] \in registered
    /\ Accepted(e)
    /\ Finish(e)
    /\ UNCHANGED <<registered, database, route, ripe, maintenance, lost, faults>>

\* The transport refuses, or accepts and its answer is lost.
DropsOnError(e) ==
    /\ handler[e] = "egress" /\ route[e] \in registered
    /\ Finish(e)
    /\ UNCHANGED <<registered, database, route, ripe, maintenance, sent, lost, faults>>
EgressFails(e) ==
    /\ handler[e] = "egress" /\ route[e] \in registered
    /\ handler' = [handler EXCEPT ![e] = "enqueue"]
    /\ \/ UNCHANGED <<sent, faults>>
       \/ Accepted(e) /\ Fault
    /\ UNCHANGED <<registered, database, route, ripe, maintenance, lost>>

EnqueueOutbox(e) ==
    /\ handler[e] = "enqueue"
    /\ outbox' = Append(outbox, [event |-> e, transport |-> route[e]])
    /\ Finish(e)
    /\ UNCHANGED <<registered, stored, route, ripe, delivered, maintenance, sent, lost, faults>>

\* The insert's error is ignored: the request was cancelled, which is why the
\* transport failed too, or the statement failed.
EnqueueFails(e) ==
    /\ handler[e] = "enqueue"
    /\ Fault
    /\ Finish(e)
    /\ lost' = lost \cup {e}
    /\ UNCHANGED <<registered, database, route, ripe, maintenance, sent>>

-----------------------------------------------------------------------------
\* RunMaintenance.

\* A tick compares available_at_ms with the instant it was delivered at: what
\* becomes due while a batch is running waits for the next one.
Ripen(r) ==
    /\ loop = "idle" /\ r \in Rows \ ripe
    /\ ripe' = ripe \cup {r}
    /\ UNCHANGED <<registered, database, handler, route, maintenance, sent, lost, faults>>

MaintenanceTick ==
    /\ loop = "idle"
    /\ loop' = "next" /\ left' = Batch
    /\ UNCHANGED <<registered, database, handler, route, ripe, cur, sent, lost, faults>>

\* NextOutbox: the first row that is due and not delivered.
SkipsFirst == {r \in ripe : r > 1 /\ r \notin delivered}
Due == {r \in ripe : r \notin delivered}
NextOutbox(r) == r \in Due /\ \A q \in Due : r <= q

MayTake == left > 0

Drain(r) ==
    /\ loop = "next" /\ MayTake /\ NextOutbox(r)
    /\ outbox[r].transport \in registered
    /\ Accepted(outbox[r].event)
    /\ loop' = "mark" /\ cur' = r
    /\ UNCHANGED <<registered, database, handler, route, ripe, left, lost, faults>>

\* Nothing is due, the batch is used up, the transport is unknown or fails:
\* the loop waits for the next tick, and rows behind the failing one with it.
BatchEnds ==
    /\ loop = "next"
    /\ left = 0 \/ Due = {}
    /\ UNCHANGED <<sent, faults>>
DrainFails ==
    /\ loop = "next" /\ MayTake
    /\ \E r \in Due :
         /\ NextOutbox(r)
         /\ \/ UNCHANGED <<sent, faults>>
            \/ /\ outbox[r].transport \in registered
               /\ Accepted(outbox[r].event) /\ Fault
Wait ==
    /\ BatchEnds \/ DrainFails
    /\ loop' = "idle"
    /\ UNCHANGED <<registered, database, handler, route, ripe, cur, left, lost>>

\* The error of MarkOutboxDelivered is ignored as well.
MarkOutboxDelivered ==
    /\ loop = "mark"
    /\ \/ delivered' = delivered \cup {cur} /\ UNCHANGED faults
       \/ Fault /\ UNCHANGED delivered
    /\ loop' = "next" /\ left' = left - 1
    /\ UNCHANGED <<registered, stored, outbox, handler, route, ripe, cur, sent, lost>>

Crash ==
    /\ Fault
    /\ registered' \in Configs
    /\ lost' = lost \cup {e \in Events : handler[e] # "none"}
    /\ handler' = [e \in Events |-> "none"]
    /\ loop' = "idle"
    /\ UNCHANGED <<database, route, ripe, cur, left, sent>>

GatewayNext ==
    \/ \E e \in Events, t \in Transports : ingest(e, t)
    \/ \E e \in Events :
         \/ BindTransport(e) \/ UnknownTransport(e) \/ EgressOk(e) \/ EgressFails(e)
         \/ EnqueueOutbox(e) \/ EnqueueFails(e)
    \/ \E r \in Rows : Ripen(r) \/ Drain(r)
    \/ MaintenanceTick \/ Wait \/ MarkOutboxDelivered
    \/ Crash

GatewaySpec == GatewayInit /\ [][GatewayNext]_gatewayVars

\* Time passes, the loop runs, and a transport that is asked again and again
\* accepts in the end.
FairGatewaySpec ==
    /\ GatewaySpec
    /\ SF_gatewayVars(\E r \in Rows : Ripen(r)) /\ WF_gatewayVars(MaintenanceTick \/ Wait)
    /\ SF_gatewayVars(\E r \in Rows : Drain(r))
    /\ SF_gatewayVars(MarkOutboxDelivered)

-----------------------------------------------------------------------------
\* Every variable holds a value of its type.
GatewayTypeOK ==
    /\ registered \in Configs
    /\ stored \subseteq Events /\ lost \subseteq Events
    /\ handler \in [Events -> {"none", "egress", "enqueue"}]
    /\ route \in [Events -> Transports \cup {NoTransport}]
    /\ outbox \in Seq([event : Events, transport : Transports])
    /\ ripe \subseteq Rows /\ delivered \subseteq Rows
    /\ loop \in {"idle", "next", "mark"} /\ cur \in Nat /\ left \in 0..Batch
    /\ sent \in [Events -> Nat] /\ faults \in 0..MaxFaults

\* A stored event that has a transport to go to has been accepted by a transport,
\* waits in the outbox or in its handler, or its ingest was cut off: by a crash, by
\* a cancelled request or by an unknown transport.  There is no other way to lose the egress
\* (ingest: the outbox is written after the transport has failed).
EgressAccounted ==
    \A e \in stored :
        \/ route[e] = NoTransport
        \/ sent[e] > 0
        \/ handler[e] # "none"
        \/ \E r \in Rows \ delivered : outbox[r].event = e
        \/ e \in lost

\* Without faults a transport sees every event at most once, and every further
\* copy costs a fault: handlers and the maintenance loop never send the same
\* event side by side (ingest, RunMaintenance).
DuplicatesNeedFaults == \A e \in Events : sent[e] <= 1 + faults

\* Head-of-line blocking: the row, or one that comes before it, waits for a
\* transport that this process does not have.
Blocked(r) ==
    \E q \in Rows \ delivered : q <= r /\ outbox[q].transport \notin registered

\* Every outbox row is delivered in the end, unless it is blocked again and again
\* by a row for a transport that is not registered (RunMaintenance, NextOutbox).
OutboxDrains ==
    \A e \in Events :
        (\E r \in Rows : outbox[r].event = e)
        ~> (\E r \in Rows : outbox[r].event = e /\ (r \in delivered \/ Blocked(r)))
=============================================================================
