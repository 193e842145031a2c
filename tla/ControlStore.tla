---------------------------- MODULE ControlStore ----------------------------
(***************************************************************************)
(* The SQLite control store of the Go daemon (runtime/go/ubiq/store.go):   *)
(* idempotent publication, claiming under a lease with a fencing token,    *)
(* receipt, settlement, expiry of leases and the delivery history.         *)
(*                                                                         *)
(* Every SQL statement and every transaction is one step: the database has *)
(* one connection (SetMaxOpenConns(1)) and commits survive a crash         *)
(* (WAL, synchronous=FULL).  What is not one step in the code is not one   *)
(* step here: the clock is read before a statement gets the connection,    *)
(* and a history row is inserted after the statement it reports.           *)
(*                                                                         *)
(* Control frames are not restricted to what an honest worker sends: any   *)
(* worker may name any event and any token, any number of times, at any    *)
(* later moment.                                                           *)
(***************************************************************************)
EXTENDS Integers, FiniteSets

CONSTANTS Envelopes,   \* what clients publish: [id, key, created]
          Workers,
          NoWorker,    \* SQL NULL in an owner or worker column
          Durations,   \* lease durations a worker may ask for
          MaxTime,     \* bound: last instant of the clock
          MaxWait,     \* bound: how long a statement waits for the connection
          MaxToken,    \* bound: leases given per event
          MaxInFlight  \* bound: handlers between a statement and its history row

ASSUME EnvelopesAssumption ==
    /\ \A e \in Envelopes : e.id \in Nat /\ e.created \in Nat
    /\ NoWorker \notin Workers
ASSUME BoundsAssumption ==
    /\ Durations \subseteq Nat \ {0}
    /\ MaxTime \in Nat /\ MaxWait \in Nat /\ MaxToken \in Nat /\ MaxInFlight \in Nat

VARIABLES
    envelope,       \* events.envelope, with its idempotency key and creation time
    state,          \* events.state, "absent" where there is no row
    owner,          \* events.owner
    lease_until,    \* events.lease_until_ms, 0 for NULL
    fencing_token,  \* events.fencing_token; events.attempt moves with it
    settlement,     \* the settlements row of an event
    history,        \* the rows of delivery_history
    pending,        \* history rows whose insert has not run yet
    leases,         \* every lease a Claim has returned to a worker
    clock           \* wall clock of the daemon

vars == <<envelope, state, owner, lease_until, fencing_token, settlement,
          history, pending, leases, clock>>
rowVars == <<envelope, state, owner, lease_until, fencing_token>>

Ids == {e.id : e \in Envelopes}
NoEnvelope == [id |-> 0, key |-> "", created |-> 0]
NoSettlement == [kind |-> "none", worker |-> NoWorker, token |-> 0]

Unleased == {"published", "expired"}
InFlight == {"leased", "received"}
SettledStates == {"settled_ok", "settled_error"}
DeliveryStates == Unleased \cup InFlight \cup SettledStates

Stored == {i \in Ids : state[i] # "absent"}

\* A handler reads time.Now() and then waits for the connection: the instant
\* its statement compares leases with is up to MaxWait old.
Sampled == {t \in 0..clock : clock - t <= MaxWait}

\* The history insert that follows a statement, with its error ignored.
HistoryRow(i, s, w, tok) == [id |-> i, state |-> s, worker |-> w, token |-> tok]

ReportLater(row) ==
    /\ Cardinality(pending) < MaxInFlight
    /\ pending' = pending \cup {row}
    /\ UNCHANGED history

-----------------------------------------------------------------------------
Init ==
    /\ envelope = [i \in Ids |-> NoEnvelope]
    /\ state = [i \in Ids |-> "absent"]
    /\ owner = [i \in Ids |-> NoWorker]
    /\ lease_until = [i \in Ids |-> 0]
    /\ fencing_token = [i \in Ids |-> 0]
    /\ settlement = [i \in Ids |-> NoSettlement]
    /\ history = {} /\ pending = {} /\ leases = {}
    /\ clock = 0

\* INSERT ... ON CONFLICT(idempotency_key) DO NOTHING.  A known key changes
\* nothing and answers with the stored envelope; a known id under another key
\* breaks the primary key and is an error.
ForgetsSettledKey(key) ==
    \E i \in Stored : envelope[i].key = key /\ state[i] \notin SettledStates
KeyTaken(key) == \E i \in Stored : envelope[i].key = key

Publish(e) ==
    /\ ~KeyTaken(e.key)
    /\ state[e.id] = "absent"
    /\ envelope' = [envelope EXCEPT ![e.id] = e]
    /\ state' = [state EXCEPT ![e.id] = "published"]
    /\ ReportLater(HistoryRow(e.id, "published", NoWorker, 0))
    /\ UNCHANGED <<owner, lease_until, fencing_token, settlement, leases, clock>>

\* ORDER BY created_at_ms, id LIMIT 1 over the published and expired rows.
Older(i, j) ==
    \/ envelope[i].created < envelope[j].created
    \/ envelope[i].created = envelope[j].created /\ i <= j

ClaimsReceived == {i \in Ids : state[i] \in Unleased \cup {"received"}}
Claimable == {i \in Ids : state[i] \in Unleased}

Candidate(i) == i \in Claimable /\ \A j \in Claimable : Older(i, j)

\* The deadline counts from the instant that was read before the wait.
LeaseUntil(now, duration) == now + duration

Claim(w, duration, now) ==
    \E i \in Ids :
      LET until == LeaseUntil(now, duration)
          token == fencing_token[i] + 1
      IN
        /\ Candidate(i)
        /\ until <= MaxTime /\ token <= MaxToken
        /\ state' = [state EXCEPT ![i] = "leased"]
        /\ owner' = [owner EXCEPT ![i] = w]
        /\ lease_until' = [lease_until EXCEPT ![i] = until]
        /\ fencing_token' = [fencing_token EXCEPT ![i] = token]
        /\ leases' = leases \cup
             {[id |-> i, worker |-> w, token |-> token, until |-> until]}
        /\ ReportLater(HistoryRow(i, "leased", w, token))
        /\ UNCHANGED <<envelope, settlement, clock>>

\* The WHERE clause of both control frames: the lease named by the frame is
\* the one in force and has not run out.
NoFencing(i, w, tok, states, now) ==
    state[i] \in states /\ owner[i] = w /\ lease_until[i] > now
AnyOwner(i, w, tok, states, now) ==
    state[i] \in states /\ fencing_token[i] = tok /\ lease_until[i] > now
LeaseInForce(i, w, tok, states, now) ==
    /\ state[i] \in states
    /\ owner[i] = w
    /\ fencing_token[i] = tok
    /\ lease_until[i] > now

MarkReceived(i, w, tok, now) ==
    /\ LeaseInForce(i, w, tok, {"leased"}, now)
    /\ state' = [state EXCEPT ![i] = "received"]
    /\ ReportLater(HistoryRow(i, "received", w, tok))
    /\ UNCHANGED <<envelope, owner, lease_until, fencing_token, settlement,
                   leases, clock>>

\* One transaction, which owns the connection before it reads the clock: the
\* update, the settlements row and the history row commit together.
Settle(i, w, tok, target) ==
    /\ LeaseInForce(i, w, tok, InFlight, clock)
    /\ state' = [state EXCEPT ![i] = target]
    /\ owner' = [owner EXCEPT ![i] = NoWorker]
    /\ lease_until' = [lease_until EXCEPT ![i] = 0]
    /\ settlement' = [settlement EXCEPT ![i] =
         IF @ = NoSettlement THEN [kind |-> target, worker |-> w, token |-> tok] ELSE @]
    /\ history' = history \cup {HistoryRow(i, target, w, tok)}
    /\ UNCHANGED <<envelope, fencing_token, pending, leases, clock>>

\* The sweep of RunMaintenance, at the instant its ticker delivered.
EarlyOverdue(now) ==
    {i \in Ids : state[i] \in InFlight /\ lease_until[i] <= now + 1}
OverdueSettled(now) ==
    {i \in Ids : state[i] \in InFlight \cup SettledStates /\ lease_until[i] <= now}
OverdueLeasedOnly(now) == {i \in Ids : state[i] = "leased" /\ lease_until[i] <= now}
Overdue(now) == {i \in Ids : state[i] \in InFlight /\ lease_until[i] <= now}

RequeueExpired(now) ==
    /\ Overdue(now) # {}
    /\ state' = [i \in Ids |-> IF i \in Overdue(now) THEN "expired" ELSE state[i]]
    /\ owner' = [i \in Ids |-> IF i \in Overdue(now) THEN NoWorker ELSE owner[i]]
    /\ lease_until' = [i \in Ids |-> IF i \in Overdue(now) THEN 0 ELSE lease_until[i]]
    /\ UNCHANGED <<envelope, fencing_token, settlement, history, pending, leases, clock>>

InsertHistory(row) ==
    /\ pending' = pending \ {row}
    /\ history' = history \cup {row}
    /\ UNCHANGED <<rowVars, settlement, leases, clock>>

\* The insert fails, its request was cancelled, or the daemon stops: the
\* error is discarded and the row is never written.
LoseHistory(row) ==
    /\ pending' = pending \ {row}
    /\ UNCHANGED <<rowVars, settlement, history, leases, clock>>

Tick ==
    /\ clock < MaxTime
    /\ clock' = clock + 1
    /\ UNCHANGED <<rowVars, settlement, history, pending, leases>>

Sweep == \E now \in Sampled : RequeueExpired(now)

Next ==
    \/ \E e \in Envelopes : Publish(e)
    \/ \E w \in Workers, d \in Durations, now \in Sampled : Claim(w, d, now)
    \/ \E i \in Ids, w \in Workers, tok \in 1..MaxToken, now \in Sampled :
          MarkReceived(i, w, tok, now)
    \/ \E i \in Ids, w \in Workers, tok \in 1..MaxToken, k \in SettledStates :
          Settle(i, w, tok, k)
    \/ Sweep
    \/ \E row \in pending : InsertHistory(row)
    \/ \E row \in pending : LoseHistory(row)
    \/ Tick

Spec == Init /\ [][Next]_vars

\* Time passes and the maintenance ticker keeps sweeping; clients and workers
\* owe the store nothing.
FairSpec == Spec /\ WF_vars(Tick) /\ WF_vars(Sweep)

-----------------------------------------------------------------------------
Lease == [id : Ids, worker : Workers, token : Nat, until : Nat]
History == [id : Ids, state : DeliveryStates, worker : Workers \cup {NoWorker},
            token : Nat]

\* Every column holds a value of its type.
TypeOK ==
    /\ envelope \in [Ids -> Envelopes \cup {NoEnvelope}]
    /\ state \in [Ids -> DeliveryStates \cup {"absent"}]
    /\ owner \in [Ids -> Workers \cup {NoWorker}]
    /\ lease_until \in [Ids -> Nat]
    /\ fencing_token \in [Ids -> Nat]
    /\ settlement \in [Ids -> {NoSettlement} \cup
         [kind : SettledStates, worker : Workers, token : Nat]]
    /\ history \subseteq History
    /\ pending \subseteq History
    /\ leases \subseteq Lease
    /\ clock \in Nat

\* Two workers never hold unexpired leases on the same event, although the
\* sweep that frees an event for the second (RequeueExpired, then Claim) works
\* with an instant that was read some time before.
OneLiveLease ==
    \A l, m \in leases :
        l.id = m.id /\ l.until > clock /\ m.until > clock => l = m

\* A row is settled exactly when settlements has its outcome, and that outcome
\* was reported by the worker of the last lease the event was given: a worker
\* that lost its lease is fenced off by owner and fencing_token (Settle).
SettledByLastLease ==
    \A i \in Ids :
        /\ state[i] \in SettledStates <=> settlement[i] # NoSettlement
        /\ settlement[i] # NoSettlement =>
             /\ settlement[i].kind = state[i]
             /\ settlement[i].token = fencing_token[i]
             /\ \E l \in leases : /\ l.id = i
                                  /\ l.token = settlement[i].token
                                  /\ l.worker = settlement[i].worker

\* The business effect of an idempotency key is settled at most once, however
\* often and under however many event ids it is published (Publish, Settle).
OneSettlementPerKey ==
    \A i, j \in Ids :
        /\ settlement[i] # NoSettlement /\ settlement[j] # NoSettlement
        /\ envelope[i].key = envelope[j].key
        => i = j

\* delivery_history never lies about a lease, and although its other rows may
\* be missing it names every settlement exactly once (the insert of Settle is
\* inside the transaction, those of Claim and MarkReceived are not).
HistoryFaithful ==
    /\ \A r \in history : r.state \in InFlight \cup SettledStates =>
         \E l \in leases : l.id = r.id /\ l.token = r.token /\ l.worker = r.worker
    /\ \A i \in Ids :
         {r \in history : r.id = i /\ r.state \in SettledStates} =
           IF settlement[i] = NoSettlement THEN {}
           ELSE {HistoryRow(i, settlement[i].kind, settlement[i].worker,
                            settlement[i].token)}

\* Settlement is final, and no event is ever leased under a fencing token it
\* has already used (Claim increments the column no other statement writes).
FencedStep ==
    \A i \in Ids :
        /\ state[i] \in SettledStates =>
             state'[i] = state[i] /\ settlement'[i] = settlement[i]
        /\ fencing_token'[i] >= fencing_token[i]
        /\ owner'[i] # owner[i] /\ owner'[i] # NoWorker =>
             \A l \in leases : l.id = i => l.token < fencing_token'[i]
Fenced == [][FencedStep]_vars

\* "If the lease expires without settlement, the event becomes eligible for
\* another worker": every lease ends in settlement or in an expired row.
LeaseResolves ==
    \A i \in Ids :
        state[i] \in InFlight ~> state[i] \in SettledStates \cup {"expired"}

\* The store is an implementation of the settlement protocol.
Protocol == INSTANCE ExecutionSettlement
                WITH Items <- Ids, phase <- state, holder <- owner,
                     attempt <- fencing_token
ImplementsProtocol == Protocol!Spec
=============================================================================
