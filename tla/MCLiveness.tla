----------------------------- MODULE MCLiveness -----------------------------
(***************************************************************************)
(* What must happen in the end, on small instances of the components that  *)
(* promise it.  The components share no state: a behaviour is one of a     *)
(* single part, named by the variable part, under the fairness that its    *)
(* module states, and the others stay as they start.                       *)
(***************************************************************************)
EXTENDS Naturals, Sequences

CONSTANTS None, Malformed, Zeros

VARIABLES part,
          envelope, row, owner, lease_until, fencing_token, settlement, history, pending,
              leases, clock,
          step, share, buf, material, destroyed, mu, user, wire, opened,
          broker, secured, queue, inbox, verdict, inStore, seen, stale, fails, troubles,
          conn, chan, reader, received, offering, readers, round,
          kind, state, checkpoint, src, dst, confirmed, write, moving, undoing, breaks,
          alive, voters, entries, call, changes,
          locks, next_generation, grants, granted, stored,
          items, held, priority

controlPart ==
    <<envelope, row, owner, lease_until, fencing_token, settlement, history, pending, leases, clock>>
sessionPart == <<step, share, buf, material, destroyed, mu, user, wire, opened>>
ingressPart ==
    <<broker, secured, queue, inbox, verdict, inStore, seen, stale, fails, troubles>>
hubPart == <<conn, chan, reader, received, offering, readers, round>>
movePart ==
    <<kind, state, checkpoint, src, dst, confirmed, write, moving, undoing, breaks>>
mapPart == <<alive, voters, entries, call, changes>>
lockPart == <<locks, next_generation, grants, granted, stored>>
queuePart == <<items, held, priority>>
PartVars ==
    <<part, controlPart, sessionPart, ingressPart, hubPart, movePart, mapPart,
      lockPart, queuePart>>

Control == INSTANCE ControlStore
    WITH Envelopes <- {[id |-> 1, key |-> "k", created |-> 5]}, Workers <- {"w1", "w2"},
         NoWorker <- "none", Durations <- {1}, MaxTime <- 3, MaxWait <- 1, MaxToken <- 2,
         MaxInFlight <- 1, state <- row

Session == INSTANCE HybridSession
    WITH Offers <- {"offer"}, Accepts <- {}, Users <- {"u1", "u2"}, Labels <- {"aad"},
         Malformed <- Malformed, None <- None, Zeros <- Zeros

Ingress == INSTANCE BrokerIngress
    WITH Brokers <- {"jetstream", "rabbit", "redis", "mqtt"}, Size <- 2, Garbled <- {},
         OtherEvents <- {}, Wrapped <- BOOLEAN, MaxFails <- 1, MaxFaults <- 2,
         stored <- inStore, faults <- troubles

Hub == INSTANCE EventHub
    WITH Streams <- {"sse"}, Sockets <- {"ws"}, Publishers <- {"p", "q"}, Capacity <- 1, Rounds <- 1,
         todo <- offering

Move == INSTANCE ShardMove
    WITH Last <- 2, Limits <- {1}, Coordinators <- {1}, Drained <- TRUE,
         Exclusive <- TRUE, Failing <- {"call"}, MaxVersion <- 1, MaxFaults <- 1,
         acked <- confirmed, faults <- breaks

\* One node may come back at another address, the other one take over its first.
PairAddresses == [n \in {"n1", "n2"} |-> IF n = "n1" THEN {"a", "b"} ELSE {"a"}]
PairRank == [k \in {"k"} |-> [n \in {"n1", "n2"} |-> IF n = "n1" THEN 1 ELSE 2]]
Map == INSTANCE ClusterMap
    WITH Nodes <- {"n1", "n2"}, AddressesOf <- PairAddresses, Keys <- {"k"}, Rank <- PairRank,
         Replication <- 1, Calls <- {1, 2}, None <- None, MaxChanges <- 3

Lock == INSTANCE LeaseLock
    WITH Workers <- {"w1", "w2"}, Keys <- {"k1"}, Capacity <- 1, TTL <- 2, Width <- 4,
         MaxAcquires <- 3

Semantic == INSTANCE SemanticQueue
    WITH Capacity <- 3, LeaseLength <- 1, MaxAttempts <- 2, MaxHeld <- 2

-----------------------------------------------------------------------------
Parts == {"control", "session", "ingress", "hub", "move", "map", "lock", "queue"}

PartInit ==
    /\ part \in Parts
    /\ Control!Init /\ Session!Init /\ Ingress!Init /\ Hub!Init /\ Move!MoveInit
    /\ Map!Init /\ Lock!Init /\ Semantic!Init
    /\ part # "ingress" => broker = "mqtt" /\ ~secured
    /\ part # "move" => kind = "sql" /\ \A k \in 1..2 : src[k] = 0
    /\ part # "queue" => ~priority

PartNext ==
    /\ UNCHANGED part
    /\ part # "control" => UNCHANGED controlPart
    /\ part # "session" => UNCHANGED sessionPart
    /\ part # "ingress" => UNCHANGED ingressPart
    /\ part # "hub" => UNCHANGED hubPart
    /\ part # "move" => UNCHANGED movePart
    /\ part # "map" => UNCHANGED mapPart
    /\ part # "lock" => UNCHANGED lockPart
    /\ part # "queue" => UNCHANGED queuePart
    /\ \/ part = "control" /\ Control!Next
       \/ part = "session" /\ Session!Next
       \/ part = "ingress" /\ Ingress!Next
       \/ part = "hub" /\ Hub!Next
       \/ part = "move" /\ Move!MoveNext
       \/ part = "map" /\ Map!Next
       \/ part = "lock" /\ Lock!Next
       \/ part = "queue" /\ Semantic!Next

-----------------------------------------------------------------------------
\* The fairness of the modules, of the part that moves.
ControlFairness ==
    /\ WF_controlPart(part = "control" /\ Control!Tick)
    /\ WF_controlPart(part = "control" /\ Control!Sweep)

SessionFairness ==
    \A u \in {"u1", "u2"} :
        /\ WF_sessionPart(part = "session" /\ Session!Operation(u))
        /\ SF_sessionPart(part = "session" /\ Session!Lock(u))

IngressFairness ==
    /\ WF_ingressPart(part = "ingress" /\ Ingress!Process)
    /\ WF_ingressPart(part = "ingress" /\ Ingress!Settle)
    /\ \A m \in 1..2 :
         /\ SF_ingressPart(part = "ingress" /\ Ingress!Read(m))
         /\ WF_ingressPart(part = "ingress" /\ Ingress!Redeliver(m))

HubFairness ==
    /\ \A p \in {"p", "q"} : WF_hubPart(part = "hub" /\ Hub!PublisherStep(p))
    /\ \A c \in {"sse", "ws"} :
         /\ WF_hubPart(part = "hub" /\ Hub!Subscribe(c))
         /\ WF_hubPart(part = "hub" /\ Hub!Unsubscribe(c))
         /\ WF_hubPart(part = "hub" /\ Hub!WriterEnds(c))
         /\ WF_hubPart(part = "hub" /\ conn[c] = "closed" /\ (Hub!Receive(c) \/ Hub!WriteFails(c)))

MoveFairness ==
    /\ \A k \in 1..2 : WF_movePart(part = "move" /\ Move!WriterStep(k))
    /\ WF_movePart(part = "move" /\ Move!MoveStep(1))
    /\ WF_movePart(part = "move" /\ Move!Forward)

MapFairness ==
    /\ \A n \in {"n1", "n2"} :
         /\ WF_mapPart(part = "map" /\ Map!Heartbeat(n))
         /\ WF_mapPart(part = "map" /\ alive[n] = None /\ Map!Lapse(n))
    /\ \A c \in {1, 2} :
         /\ WF_mapPart(part = "map" /\ Map!Step(c))
         /\ SF_mapPart(part = "map" /\ Map!ReapStale(c))

LockFairness == WF_lockPart(part = "lock" /\ Lock!Tick)

QueueFairness ==
    /\ WF_queuePart(part = "queue" /\ \E i \in 1..3 : Semantic!next(i))
    /\ WF_queuePart(part = "queue" /\ Semantic!Tick)
    /\ \A i \in 1..3 : WF_queuePart(part = "queue" /\ (Semantic!settle(i) \/ Semantic!Abandon(i)))

PartSpec ==
    /\ PartInit /\ [][PartNext]_PartVars
    /\ ControlFairness /\ SessionFairness /\ IngressFairness /\ HubFairness
    /\ MoveFairness /\ MapFairness /\ LockFairness /\ QueueFairness

-----------------------------------------------------------------------------
\* No lease stays behind: one of the control store is settled, given to another
\* worker or expired by the sweep (RequeueExpired, RunMaintenance), and a lock whose
\* owner stalls becomes free for others without a release (Tick, acquire).
LeasesEnd ==
    /\ part = "control" => Control!LeaseResolves
    /\ part = "lock" => Lock!StalledFreed

\* A broker that delivers again gets every message stored in the end, or the
\* message is refused for good by the secure wrapper; without the wrapper a stored
\* message is settled with its broker, although acknowledgements get lost.
IngressCompletes ==
    part = "ingress" => Ingress!StoredOrRefused /\ Ingress!RedeliveryAcknowledged

\* No goroutine waits for ever: the handler of a connection that has gone gets to
\* unsubscribe, however full its channel is and whoever publishes, the writer
\* goroutine of a socket does not outlive it (handleSSE, handleWS), and
\* Destroy wipes a secret whatever others do with it at the time.
NobodyWaitsForEver ==
    /\ part = "hub" => Hub!LeaverUnsubscribed /\ Hub!NoWriterLeft
    /\ part = "session" => Session!DestroyedInTheEnd

\* A migration is completed although calls are cut short, provided that no write
\* is given up half way (BackfillStep, Verify, Complete): Verify waits for equal
\* counts, which nothing but a new write of the key would restore.
MigrationCompletes == part = "move" => Move!MigrationCompletes

\* Placement follows the processes: a node that keeps running is offered again
\* and again at its current address, although its Join was cut short or ReapStale
\* wrote an old copy over its heartbeat, and one that has stopped is not offered
\* any more in the end.
MembershipFollows == part = "map" => Map!MemberRecovers /\ Map!SilentDropped

\* No item of the semantic queue is passed over for ever (next).
EveryItemServed == part = "queue" => Semantic!EveryItemServed
=============================================================================
