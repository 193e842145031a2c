------------------------- MODULE DurableSettlement -------------------------
(***************************************************************************)
(* Durable settlement in the Zig runtime: the append-only journal          *)
(* (settlement_journal.zig), the projection rebuilt from it                *)
(* (settlement_projection.zig) and the coordinator that orders journal,    *)
(* projection and JetStream acknowledgement (durable_settlement.zig).      *)
(*                                                                         *)
(* The worker around the coordinator is the loop docs/NATS_JETSTREAM.md    *)
(* describes: pull, skip what is settled, record progress, execute the     *)
(* effect, commit and acknowledge.  It is single-threaded, so a call of    *)
(* the coordinator is one step; the process may stop at any point, also    *)
(* inside a call, with the write of the journal line done, not done or,    *)
(* when TornWrites, done in part.                                          *)
(***************************************************************************)
EXTENDS Integers, Sequences

CONSTANTS Messages,    \* the stream: [event, key] pairs
          NoKey,
          Progress,    \* states a worker records before it runs the effect
          WorkerCheck, \* how it looks for an earlier settlement
          TornWrites,  \* whether a write may stop half-way
          MaxSeq,      \* the largest u64
          MaxLines,    \* max_bytes, counted in lines
          MaxEffects,  \* bound: executions per key
          MaxFaults    \* bound: crashes, failed calls and lost acknowledgements

ASSUME DurableAssumption ==
    /\ \A m \in Messages : m.key # NoKey
    /\ Progress \subseteq {"published", "leased", "received", "expired"}
    /\ WorkerCheck \in {"ackIfAlreadySettled", "isSettled"}
    /\ TornWrites \in BOOLEAN
    /\ MaxSeq \in Nat \ {0} /\ {MaxLines, MaxEffects, MaxFaults} \subseteq Nat

VARIABLES
    lines,          \* the journal: complete lines, [intact, record]
    torn,           \* the file ends in a line without its newline
    projection,     \* entries by event id
    last_sequence, next_sequence, recovered, poisoned,
    pc, msg,        \* the worker: where it is, which delivery it handles
    acked,          \* messages JetStream has seen +ACK for
    effects,        \* how often the effect of each key was executed
    settledKeys,    \* history: keys whose settlement persist has reported
    faults

journal == <<lines, torn>>
coordinator == <<projection, last_sequence, next_sequence, recovered, poisoned>>
worker == <<pc, msg>>
vars == <<lines, torn, projection, last_sequence, next_sequence, recovered, poisoned,
          pc, msg, acked, effects, settledKeys, faults>>

Events == {m.event : m \in Messages}
MessageKeys == {m.key : m \in Messages}
SettledStates == {"settled_ok", "settled_error"}
States == {"published", "leased", "received", "expired"} \cup SettledStates
Record == [seq : 1..MaxSeq, event : Events, key : MessageKeys, state : States]
NoEntry == [key |-> NoKey, state |-> "none"]
Empty == [e \in Events |-> NoEntry]

-----------------------------------------------------------------------------
\* The projection.

Allowed(from, to) ==
    CASE from = "published" -> to \in {"published", "leased", "expired"}
      [] from \in {"leased", "received"} ->
           to \in {from, "leased", "settled_ok", "settled_error", "expired"}
             \cup (IF from = "leased" THEN {"received"} ELSE {})
      [] from = "expired" -> to \in {"expired", "leased"}
      [] OTHER -> to = from

Valid(p, last, r) ==
    /\ r.seq > last
    /\ \A e \in Events : p[e].key = r.key => e = r.event
    /\ p[r.event] # NoEntry => Allowed(p[r.event].state, r.state)

PutNewOnly(p, r) ==
    IF p[r.event] = NoEntry THEN [p EXCEPT ![r.event] = [key |-> r.key, state |-> r.state]]
    ELSE p
Put(p, r) == [p EXCEPT ![r.event] = [key |-> r.key, state |-> r.state]]

IsSettled(p, k) == \E e \in Events : p[e].key = k /\ p[e].state \in SettledStates

\* What replay makes of the first n lines: for each event its last snapshot.
Snapshots(e, n) == {j \in 1..n : lines[j].record.event = e}
Image(n) ==
    [e \in Events |->
        IF Snapshots(e, n) = {} THEN NoEntry
        ELSE LET j == CHOOSE j \in Snapshots(e, n) : \A i \in Snapshots(e, n) : i <= j
             IN  [key |-> lines[j].record.key, state |-> lines[j].record.state]]
Sequence(n) == IF n = 0 THEN 0 ELSE lines[n].record.seq

\* Replay stops at the first line it cannot parse or apply; a line without its
\* newline is never looked at.
Applies(n) == lines[n].intact /\ Valid(Image(n - 1), Sequence(n - 1), lines[n].record)
Replayed == CHOOSE n \in 0..Len(lines) :
    /\ \A j \in 1..n : Applies(j)
    /\ n < Len(lines) => ~Applies(n + 1)
ReplayOk == Replayed = Len(lines)

-----------------------------------------------------------------------------
Init ==
    /\ lines = <<>> /\ torn = FALSE
    /\ projection = Empty
    /\ last_sequence = 0 /\ next_sequence = 1
    /\ recovered = FALSE /\ poisoned = FALSE
    /\ pc = "idle" /\ msg \in Messages
    /\ acked = {}
    /\ effects = [k \in MessageKeys |-> 0]
    /\ settledKeys = {}
    /\ faults = 0

Fault == faults < MaxFaults /\ faults' = faults + 1

\* Coordinator.recover; a failed replay leaves the coordinator poisoned with
\* what it has read, an exhausted sequence leaves it unrecovered.
Recover ==
    /\ ~recovered /\ ~poisoned /\ last_sequence = 0
    /\ projection' = Image(Replayed)
    /\ last_sequence' = Sequence(Replayed)
    /\ poisoned' = ~ReplayOk
    /\ recovered' = (ReplayOk /\ Sequence(Replayed) < MaxSeq)
    /\ next_sequence' =
         IF ReplayOk /\ Sequence(Replayed) < MaxSeq THEN Sequence(Replayed) + 1
         ELSE next_sequence
    /\ UNCHANGED <<journal, worker, acked, effects, settledKeys, faults>>

\* A second recover of a coordinator whose sequence was exhausted applies the
\* first line again, which is a sequence regression.
RecoverAgain ==
    /\ ~recovered /\ ~poisoned /\ last_sequence > 0
    /\ poisoned' = TRUE
    /\ UNCHANGED <<journal, projection, last_sequence, next_sequence, recovered,
                   worker, acked, effects, settledKeys, faults>>

Ready == recovered /\ ~poisoned

\* Store.append positions the line at the end of the file: after a torn line it
\* completes that line, whose checksum no longer matches.
Snapshot(state) ==
    [seq |-> next_sequence, event |-> msg.event, key |-> msg.key, state |-> state]

WriteAll(r) ==
    /\ lines' = Append(lines, [intact |-> ~torn, record |-> r])
    /\ torn' = FALSE
WriteSome == TornWrites /\ torn' = TRUE /\ UNCHANGED lines
WriteNone == UNCHANGED journal

Full == Len(lines) >= MaxLines
Interrupted(r) ==
    \/ WriteNone
    \/ ~Full /\ WriteAll(r)
    \/ ~Full /\ WriteSome

NextSequence(n) == IF n < MaxSeq THEN n + 1 ELSE n

\* Coordinator.persist that succeeds.  The last sequence number can be written
\* but not counted past: the snapshot is durable and the call still fails.
PersistOk(r) ==
    /\ Ready /\ Valid(projection, last_sequence, r) /\ ~Full
    /\ WriteAll(r)
    /\ projection' = Put(projection, r)
    /\ last_sequence' = r.seq
    /\ next_sequence' = NextSequence(r.seq)
    /\ poisoned' = (r.seq = MaxSeq)
    /\ UNCHANGED recovered

\* persist that is refused before it touches the journal.
PersistRefused(r) ==
    /\ ~Ready \/ ~Valid(projection, last_sequence, r)
    /\ UNCHANGED <<journal, coordinator>>

\* append returns an error (an ill-formed snapshot, a full journal, the file
\* system) or apply cannot allocate after it: the coordinator stops.
KeepsGoing(r) ==
    /\ Ready /\ Valid(projection, last_sequence, r)
    /\ Interrupted(r)
    /\ UNCHANGED coordinator
PersistAmbiguous(r) ==
    /\ Ready /\ Valid(projection, last_sequence, r)
    /\ Interrupted(r)
    /\ poisoned' = TRUE
    /\ UNCHANGED <<projection, last_sequence, next_sequence, recovered>>

Fails(r) ==
    \/ PersistRefused(r) /\ UNCHANGED faults
    \/ Full /\ PersistAmbiguous(r) /\ UNCHANGED faults
    \/ ~Full /\ PersistAmbiguous(r) /\ Fault

-----------------------------------------------------------------------------
\* The worker.

GoTo(label) == pc' = label /\ UNCHANGED msg

Pull(m) ==
    /\ pc = "idle" /\ m \notin acked
    /\ pc' = "check" /\ msg' = m
    /\ UNCHANGED <<journal, coordinator, acked, effects, settledKeys, faults>>

\* The published +ACK arrives, or is lost and the message is redelivered.
SendAck ==
    \/ acked' = acked \cup {msg} /\ UNCHANGED faults
    \/ Fault /\ UNCHANGED acked

SkipsReadiness == recovered
Answers == IF WorkerCheck = "ackIfAlreadySettled" THEN Ready ELSE recovered

SettledUnacked ==
    /\ pc = "check" /\ Answers /\ IsSettled(projection, msg.key)
    /\ GoTo("idle")
    /\ UNCHANGED <<journal, coordinator, acked, effects, settledKeys, faults>>
AlreadySettled ==
    /\ pc = "check" /\ Answers /\ IsSettled(projection, msg.key)
    /\ SendAck /\ GoTo("idle")
    /\ UNCHANGED <<journal, coordinator, effects, settledKeys>>

\* ackIfAlreadySettled fails on a coordinator that is not ready; isSettled,
\* which a worker may call once recover has returned, does not ask.
CheckFails ==
    /\ pc = "check" /\ ~Answers
    /\ GoTo("idle")
    /\ UNCHANGED <<journal, coordinator, acked, effects, settledKeys, faults>>

NotSettled ==
    /\ pc = "check" /\ Answers /\ ~IsSettled(projection, msg.key)
    /\ GoTo("run")
    /\ UNCHANGED <<journal, coordinator, acked, effects, settledKeys, faults>>

\* A worker records one state per delivery, RECEIVED for instance.
RecordProgress(state) ==
    /\ pc = "run"
    /\ \/ /\ PersistOk(Snapshot(state)) /\ UNCHANGED faults
          /\ GoTo(IF poisoned' THEN "idle" ELSE "execute")
       \/ Fails(Snapshot(state)) /\ GoTo("idle")
    /\ UNCHANGED <<acked, effects, settledKeys>>

Execute ==
    /\ pc \in {"run", "execute"} /\ effects[msg.key] < MaxEffects
    /\ effects' = [effects EXCEPT ![msg.key] = @ + 1]
    /\ GoTo("commit")
    /\ UNCHANGED <<journal, coordinator, acked, settledKeys, faults>>

\* commitSettlementAndAck up to the acknowledgement.
commitSettlement(state) ==
    /\ pc = "commit"
    /\ \/ /\ PersistOk(Snapshot(state)) /\ UNCHANGED faults
          /\ settledKeys' = settledKeys \cup {msg.key}
          /\ GoTo(IF poisoned' THEN "idle" ELSE "ack")
       \/ Fails(Snapshot(state)) /\ GoTo("idle") /\ UNCHANGED settledKeys
    /\ UNCHANGED <<acked, effects>>

Ack ==
    /\ pc = "ack"
    /\ SendAck /\ GoTo("idle")
    /\ UNCHANGED <<journal, coordinator, effects, settledKeys>>

\* Coordinator.init, in a process that starts.
Fresh ==
    /\ projection' = Empty /\ last_sequence' = 0 /\ next_sequence' = 1
    /\ recovered' = FALSE /\ poisoned' = FALSE
    /\ GoTo("idle")

\* The process stops, between calls or inside the append of one, and starts
\* again with an empty coordinator.
Crash ==
    /\ Fault
    /\ \/ WriteNone
       \/ \E state \in States :
            /\ \/ pc = "run" /\ state \in Progress
               \/ pc = "commit" /\ state \in SettledStates
            /\ Ready /\ Valid(projection, last_sequence, Snapshot(state))
            /\ Interrupted(Snapshot(state))
    /\ Fresh
    /\ UNCHANGED <<acked, effects, settledKeys>>

\* A supervisor restarts a process whose coordinator is poisoned.
Restart ==
    /\ poisoned
    /\ Fresh
    /\ UNCHANGED <<journal, acked, effects, settledKeys, faults>>

Next ==
    \/ Recover \/ RecoverAgain
    \/ \E m \in Messages : Pull(m)
    \/ AlreadySettled \/ CheckFails \/ NotSettled
    \/ \E s \in Progress : RecordProgress(s)
    \/ Execute
    \/ \E s \in SettledStates : commitSettlement(s)
    \/ Ack
    \/ Crash \/ Restart

Spec == Init /\ [][Next]_vars

\* The worker keeps going, a supervisor restarts it when it is poisoned, and
\* JetStream redelivers what is not acknowledged.
Work ==
    \/ AlreadySettled \/ CheckFails \/ NotSettled \/ Execute \/ Ack
    \/ \E s \in SettledStates : commitSettlement(s)
FairSpec ==
    /\ Spec
    /\ WF_vars(Recover) /\ WF_vars(Restart) /\ WF_vars(Work)
    /\ \A m \in Messages : SF_vars(Pull(m))

-----------------------------------------------------------------------------
\* Every variable holds a value of its type.
TypeOK ==
    /\ lines \in Seq([intact : BOOLEAN, record : Record])
    /\ torn \in BOOLEAN /\ recovered \in BOOLEAN /\ poisoned \in BOOLEAN
    /\ projection \in [Events -> {NoEntry} \cup [key : MessageKeys, state : States]]
    /\ last_sequence \in 0..MaxSeq /\ next_sequence \in 1..MaxSeq
    /\ pc \in {"idle", "check", "run", "execute", "commit", "ack"} /\ msg \in Messages
    /\ acked \subseteq Messages /\ settledKeys \subseteq MessageKeys
    /\ effects \in [MessageKeys -> Nat] /\ faults \in 0..MaxFaults

\* Whatever fails or stops where, the journal a coordinator leaves behind can
\* be replayed to its end and holds every settlement that persist has reported
\* ("An incomplete trailing line is ignored during replay").
Recoverable ==
    /\ ReplayOk
    /\ \A k \in settledKeys : IsSettled(Image(Replayed), k)

\* No append has completed the torn line of an earlier one.
Unspliced == \A j \in DOMAIN lines : lines[j].intact

\* The sequence numbers stay in their range, and as long as no append has followed
\* a torn line the journal is recoverable, a torn last line included, and +ACK has
\* not been sent for a message whose settlement a restart would not find (append,
\* replay; "SETTLED is fsynced before +ACK is sent").
RecoverableUnlessSpliced ==
    /\ TypeOK
    /\ Unspliced => Recoverable /\ \A m \in acked : IsSettled(Image(Replayed), m.key)

\* A coordinator that accepts calls answers every key that was ever settled
\* with "settled" ("settled records remain in the index for idempotency
\* checks").
SettledRemembered ==
    Ready => \A k \in settledKeys : IsSettled(projection, k)

\* Once the settlement of a key is in the journal its effect is not executed
\* again, however often the message is redelivered and the process restarted
\* (ackIfAlreadySettled).
RunsUnsettledOnly ==
    \A k \in MessageKeys : effects'[k] # effects[k] =>
        k \notin settledKeys /\ ~IsSettled(Image(Replayed), k)
NoRepeatAfterSettled == [][RunsUnsettledOnly]_vars

\* Every message of the stream is settled and acknowledged in the end.
EveryMessageAcked == \A m \in Messages : <>(m \in acked)
=============================================================================
