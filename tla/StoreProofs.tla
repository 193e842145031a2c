---------------------------- MODULE StoreProofs -----------------------------
(***************************************************************************)
(* Machine-checked proofs about what the Go daemon keeps in its database:  *)
(* the control store, for any envelopes, workers and lease durations, and  *)
(* the outbox of the gateway, for any events, transports, batch size and   *)
(* number of faults.                                                       *)
(***************************************************************************)
EXTENDS ControlStore, Gateway, Sequences, TLAPS

-----------------------------------------------------------------------------
\* The control store.

\* What the lease columns and the leases handed out to workers say about each
\* other.  A lease under an old token, or on a row nobody holds, has run out.
LeaseInv ==
    /\ \A i \in Ids : state[i] \in InFlight =>
         /\ owner[i] \in Workers
         /\ [id |-> i, worker |-> owner[i], token |-> fencing_token[i],
             until |-> lease_until[i]] \in leases
    /\ \A l \in leases :
         /\ l.token <= fencing_token[l.id]
         /\ l.token < fencing_token[l.id] => l.until <= clock
         /\ state[l.id] \in Unleased \cup {"absent"} => l.until <= clock
    /\ \A l, m \in leases : l.id = m.id /\ l.token = m.token => l = m

\* The idempotency key is unique among the stored rows.
KeyInv ==
    \A i, j \in Ids :
        state[i] # "absent" /\ state[j] # "absent" /\ envelope[i].key = envelope[j].key
        => i = j

\* A row that waits to be inserted reports a lease that was given.
PendingInv ==
    \A r \in pending :
        /\ r.state \notin SettledStates
        /\ r.state \in InFlight =>
             \E l \in leases : l.id = r.id /\ l.token = r.token /\ l.worker = r.worker

\* The inductive invariant.
IInv ==
    /\ TypeOK
    /\ LeaseInv
    /\ KeyInv
    /\ PendingInv
    /\ SettledByLastLease
    /\ HistoryFaithful

-----------------------------------------------------------------------------
\* What the assumptions on the constants say of the values the handlers of
\* store.go pass: ids of envelopes, instants and lease durations.
LEMMA ConstantFacts ==
    /\ \A e \in Envelopes : e.id \in Ids
    /\ NoWorker \notin Workers
    /\ \A t \in Sampled : t \in 0..clock
    /\ \A d \in Durations : d \in Nat
BY Zenon, EnvelopesAssumption, BoundsAssumption DEF Ids, Sampled

\* Every column keeps its type: the initial state and each statement of
\* store.go write values of the declared types only.
LEMMA TypeStep == TypeOK /\ [Next]_vars => TypeOK'
<1> SUFFICES ASSUME TypeOK, [Next]_vars PROVE TypeOK'
  BY Zenon
<1> USE ConstantFacts DEF TypeOK, Lease, History, DeliveryStates, Unleased,
        InFlight, SettledStates
<1>1. ASSUME NEW e \in Envelopes, Publish(e) PROVE TypeOK'
  BY <1>1 DEF Publish, ReportLater, HistoryRow
<1>2. ASSUME NEW w \in Workers, NEW d \in Durations, NEW now \in Sampled,
             Claim(w, d, now)
      PROVE  TypeOK'
  <2>1. PICK i \in Ids : Claim(w, d, now)!(i)
    BY Zenon, <1>2 DEF Claim
  <2>2. now + d \in Nat /\ fencing_token[i] + 1 \in Nat
    OBVIOUS
  <2> QED
    BY <2>1, <2>2 DEF LeaseUntil, ReportLater, HistoryRow
<1>3. ASSUME NEW i \in Ids, NEW w \in Workers, NEW tok \in 1..MaxToken,
             NEW now \in Sampled, MarkReceived(i, w, tok, now)
      PROVE  TypeOK'
  BY <1>3 DEF MarkReceived, ReportLater, HistoryRow
<1>4. ASSUME NEW i \in Ids, NEW w \in Workers, NEW tok \in 1..MaxToken,
             NEW k \in SettledStates, Settle(i, w, tok, k)
      PROVE  TypeOK'
  BY <1>4 DEF Settle, HistoryRow
<1>5. ASSUME NEW now \in Sampled, RequeueExpired(now) PROVE TypeOK'
  BY Zenon, <1>5 DEF RequeueExpired
<1>6. ASSUME NEW row \in pending, InsertHistory(row) \/ LoseHistory(row)
      PROVE  TypeOK'
  BY Zenon, <1>6 DEF InsertHistory, LoseHistory, rowVars
<1>7. CASE Tick
  BY <1>7 DEF Tick, rowVars
<1>8. CASE UNCHANGED vars
  BY Zenon, <1>8 DEF vars
<1> HIDE DEF TypeOK, Lease, History, DeliveryStates, Unleased, InFlight, SettledStates
<1> QED
  BY Zenon, <1>1, <1>2, <1>3, <1>4, <1>5, <1>6, <1>7, <1>8 DEF Next, Sweep

\* The type invariant of the store holds in every behaviour (all statements of
\* store.go).
THEOREM TypeCorrect == Spec => []TypeOK
<1>1. Init => TypeOK
  BY DEF Init, TypeOK
<1> QED
  BY <1>1, TypeStep, PTL DEF Spec

-----------------------------------------------------------------------------
\* Leases.  Only Claim adds a lease, under a token above all earlier ones, and
\* only to a row that is published or expired, whose leases have all run out.
LEMMA LeaseStep == TypeOK /\ LeaseInv /\ [Next]_vars => LeaseInv'
<1> SUFFICES ASSUME TypeOK, LeaseInv, [Next]_vars PROVE LeaseInv'
  BY Zenon
<1> USE ConstantFacts DEF TypeOK, LeaseInv, Lease, Unleased, InFlight
<1>1. ASSUME NEW e \in Envelopes, Publish(e) PROVE LeaseInv'
  BY Zenon, <1>1 DEF Publish
<1>2. ASSUME NEW w \in Workers, NEW d \in Durations, NEW now \in Sampled,
             Claim(w, d, now)
      PROVE  LeaseInv'
  <2>1. PICK i \in Ids : Claim(w, d, now)!(i)
    BY Zenon, <1>2 DEF Claim
  <2> DEFINE token == fencing_token[i] + 1
             new == [id |-> i, worker |-> w, token |-> token, until |-> now + d]
  <2>2. /\ state[i] \in Unleased
        /\ state' = [state EXCEPT ![i] = "leased"]
        /\ owner' = [owner EXCEPT ![i] = w]
        /\ lease_until' = [lease_until EXCEPT ![i] = now + d]
        /\ fencing_token' = [fencing_token EXCEPT ![i] = token]
        /\ leases' = leases \cup {new}
        /\ clock' = clock
    BY Zenon, <2>1 DEF Candidate, Claimable, LeaseUntil
  <2>3. token \in Nat /\ now + d \in Nat /\ new \in Lease
    OBVIOUS
  <2>4. \A l \in leases : l.id = i => l.token < token /\ l.until <= clock
    BY <2>2
  <2> HIDE DEF token
  <2>5. \A j \in Ids : state'[j] \in InFlight =>
          /\ owner'[j] \in Workers
          /\ [id |-> j, worker |-> owner'[j], token |-> fencing_token'[j],
              until |-> lease_until'[j]] \in leases'
    BY Zenon, <2>2, <2>3
  <2>6. \A l \in leases' :
          /\ l.token <= fencing_token'[l.id]
          /\ l.token < fencing_token'[l.id] => l.until <= clock'
          /\ state'[l.id] \in Unleased \cup {"absent"} => l.until <= clock'
    <3> SUFFICES ASSUME NEW l \in leases'
                 PROVE  /\ l.token <= fencing_token'[l.id]
                        /\ l.token < fencing_token'[l.id] => l.until <= clock'
                        /\ state'[l.id] \in Unleased \cup {"absent"} => l.until <= clock'
      BY Zenon
    <3>1. CASE l = new
      BY <2>2, <2>3, <3>1
    <3>2. CASE l \in leases /\ l.id = i
      BY <2>2, <2>3, <2>4, <3>2
    <3>3. CASE l \in leases /\ l.id # i
      BY Zenon, <2>2, <3>3
    <3> QED
      BY Zenon, <2>2, <3>1, <3>2, <3>3
  <2>7. \A l, m \in leases' : l.id = m.id /\ l.token = m.token => l = m
    BY <2>2, <2>3, <2>4
  <2> QED
    BY Zenon, <2>5, <2>6, <2>7
<1>3. ASSUME NEW i \in Ids, NEW w \in Workers, NEW tok \in 1..MaxToken,
             NEW now \in Sampled, MarkReceived(i, w, tok, now)
      PROVE  LeaseInv'
  BY Zenon, <1>3 DEF MarkReceived, LeaseInForce
<1>4. ASSUME NEW i \in Ids, NEW w \in Workers, NEW tok \in 1..MaxToken,
             NEW k \in SettledStates, Settle(i, w, tok, k)
      PROVE  LeaseInv'
  BY Zenon, <1>4 DEF Settle, SettledStates
<1>5. ASSUME NEW now \in Sampled, RequeueExpired(now) PROVE LeaseInv'
  <2>1. \A l \in leases : l.id \in Overdue(now) => l.until <= clock
    <3> SUFFICES ASSUME NEW l \in leases, l.id \in Overdue(now)
                 PROVE  l.until <= clock
      BY Zenon
    <3> DEFINE i == l.id
               held == [id |-> i, worker |-> owner[i], token |-> fencing_token[i],
                        until |-> lease_until[i]]
    <3>1. i \in Ids /\ state[i] \in InFlight /\ lease_until[i] <= now
      BY Zenon DEF Overdue
    <3>2. held \in leases
      BY Zenon, <3>1
    <3>3. CASE l.token = fencing_token[i]
      <4>1. held.id = l.id /\ held.token = l.token
        BY Zenon, <3>3
      <4>2. l = held
        BY Zenon, <3>2, <4>1
      <4>3. l.until = lease_until[i]
        BY <4>2
      <4> QED
        BY <3>1, <4>3
    <3>4. CASE l.token < fencing_token[i]
      BY Zenon, <3>4
    <3>5. l.token = fencing_token[i] \/ l.token < fencing_token[i]
      <4>1. l.token \in Nat /\ fencing_token[i] \in Nat /\ l.token <= fencing_token[i]
        BY Zenon, <3>1
      <4> HIDE DEF i, TypeOK, LeaseInv
      <4> QED
        BY <4>1
    <3> QED
      BY Zenon, <3>3, <3>4, <3>5
  <2> QED
    BY Zenon, <1>5, <2>1 DEF RequeueExpired, Overdue
<1>6. ASSUME NEW row \in pending, InsertHistory(row) \/ LoseHistory(row)
      PROVE  LeaseInv'
  BY Zenon, <1>6 DEF InsertHistory, LoseHistory, rowVars
<1>7. CASE Tick
  BY <1>7 DEF Tick, rowVars
<1>8. CASE UNCHANGED vars
  BY Zenon, <1>8 DEF vars
<1> HIDE DEF TypeOK, LeaseInv, Lease, Unleased, InFlight
<1> QED
  BY Zenon, <1>1, <1>2, <1>3, <1>4, <1>5, <1>6, <1>7, <1>8 DEF Next, Sweep

-----------------------------------------------------------------------------
\* Idempotency keys.  Only Publish makes a row, and its key is new.
LEMMA KeyStep == TypeOK /\ KeyInv /\ [Next]_vars => KeyInv'
<1> SUFFICES ASSUME TypeOK, KeyInv, [Next]_vars PROVE KeyInv'
  BY Zenon
<1> USE ConstantFacts DEF TypeOK, KeyInv, InFlight, Unleased, SettledStates
<1>1. ASSUME NEW e \in Envelopes, Publish(e) PROVE KeyInv'
  BY Zenon, <1>1 DEF Publish, KeyTaken, Stored
<1>2. ASSUME NEW w \in Workers, NEW d \in Durations, NEW now \in Sampled,
             Claim(w, d, now)
      PROVE  KeyInv'
  BY Zenon, <1>2 DEF Claim, Candidate, Claimable
<1>3. ASSUME NEW i \in Ids, NEW w \in Workers, NEW tok \in 1..MaxToken,
             NEW now \in Sampled, MarkReceived(i, w, tok, now)
      PROVE  KeyInv'
  BY Zenon, <1>3 DEF MarkReceived, LeaseInForce
<1>4. ASSUME NEW i \in Ids, NEW w \in Workers, NEW tok \in 1..MaxToken,
             NEW k \in SettledStates, Settle(i, w, tok, k)
      PROVE  KeyInv'
  BY Zenon, <1>4 DEF Settle, LeaseInForce
<1>5. ASSUME NEW now \in Sampled, RequeueExpired(now) PROVE KeyInv'
  BY Zenon, <1>5 DEF RequeueExpired, Overdue
<1>6. ASSUME NEW row \in pending, InsertHistory(row) \/ LoseHistory(row)
      PROVE  KeyInv'
  BY Zenon, <1>6 DEF InsertHistory, LoseHistory, rowVars
<1>7. CASE Tick
  BY Zenon, <1>7 DEF Tick, rowVars
<1>8. CASE UNCHANGED vars
  BY Zenon, <1>8 DEF vars
<1> HIDE DEF TypeOK, KeyInv, InFlight, Unleased, SettledStates
<1> QED
  BY Zenon, <1>1, <1>2, <1>3, <1>4, <1>5, <1>6, <1>7, <1>8 DEF Next, Sweep

\* Settlement.  Settle finds the lease of its frame in force, so the row was
\* not settled before and the frame names the last lease that was given.
LEMMA SettledStep ==
    TypeOK /\ LeaseInv /\ SettledByLastLease /\ [Next]_vars => SettledByLastLease'
<1> SUFFICES ASSUME TypeOK, LeaseInv, SettledByLastLease, [Next]_vars
             PROVE  SettledByLastLease'
  BY Zenon
<1> USE ConstantFacts DEF TypeOK, SettledByLastLease, InFlight, Unleased, SettledStates
<1>1. ASSUME NEW e \in Envelopes, Publish(e) PROVE SettledByLastLease'
  BY <1>1 DEF Publish
<1>2. ASSUME NEW w \in Workers, NEW d \in Durations, NEW now \in Sampled,
             Claim(w, d, now)
      PROVE  SettledByLastLease'
  <2>1. PICK i \in Ids : Claim(w, d, now)!(i)
    BY Zenon, <1>2 DEF Claim
  <2>2. /\ state[i] \in Unleased
        /\ state' = [state EXCEPT ![i] = "leased"]
        /\ fencing_token' = [fencing_token EXCEPT ![i] = fencing_token[i] + 1]
        /\ leases \subseteq leases'
        /\ settlement' = settlement
    BY Zenon, <2>1 DEF Candidate, Claimable
  <2> QED
    BY <2>2
<1>3. ASSUME NEW i \in Ids, NEW w \in Workers, NEW tok \in 1..MaxToken,
             NEW now \in Sampled, MarkReceived(i, w, tok, now)
      PROVE  SettledByLastLease'
  BY <1>3 DEF MarkReceived, LeaseInForce
<1>4. ASSUME NEW i \in Ids, NEW w \in Workers, NEW tok \in 1..MaxToken,
             NEW k \in SettledStates, Settle(i, w, tok, k)
      PROVE  SettledByLastLease'
  <2> DEFINE held == [id |-> i, worker |-> w, token |-> tok, until |-> lease_until[i]]
  <2>1. held \in leases
    BY Zenon, <1>4 DEF Settle, LeaseInForce, LeaseInv
  <2>2. settlement[i] = NoSettlement
    BY Zenon, <1>4 DEF Settle, LeaseInForce
  <2>3. settlement' = [settlement EXCEPT ![i] = [kind |-> k, worker |-> w, token |-> tok]]
    BY Zenon, <1>4, <2>2 DEF Settle
  <2>4. [kind |-> k, worker |-> w, token |-> tok] # NoSettlement
    BY Zenon DEF NoSettlement
  <2> QED
    BY <1>4, <2>1, <2>3, <2>4 DEF Settle, LeaseInForce
<1>5. ASSUME NEW now \in Sampled, RequeueExpired(now) PROVE SettledByLastLease'
  BY <1>5 DEF RequeueExpired, Overdue
<1>6. ASSUME NEW row \in pending, InsertHistory(row) \/ LoseHistory(row)
      PROVE  SettledByLastLease'
  BY <1>6 DEF InsertHistory, LoseHistory, rowVars
<1>7. CASE Tick
  BY Zenon, <1>7 DEF Tick, rowVars
<1>8. CASE UNCHANGED vars
  BY <1>8 DEF vars
<1> HIDE DEF TypeOK, SettledByLastLease, InFlight, Unleased, SettledStates
<1> QED
  BY Zenon, <1>1, <1>2, <1>3, <1>4, <1>5, <1>6, <1>7, <1>8 DEF Next, Sweep

-----------------------------------------------------------------------------
\* History.  A row is queued in the step that gives or uses the lease it
\* reports; only the transaction of Settle writes a settled row.
LEMMA PendingStep == TypeOK /\ LeaseInv /\ PendingInv /\ [Next]_vars => PendingInv'
<1> SUFFICES ASSUME TypeOK, LeaseInv, PendingInv, [Next]_vars PROVE PendingInv'
  BY Zenon
<1> USE ConstantFacts DEF TypeOK, PendingInv, InFlight, SettledStates, HistoryRow
<1>1. ASSUME NEW e \in Envelopes, Publish(e) PROVE PendingInv'
  BY <1>1 DEF Publish, ReportLater
<1>2. ASSUME NEW w \in Workers, NEW d \in Durations, NEW now \in Sampled,
             Claim(w, d, now)
      PROVE  PendingInv'
  <2>1. PICK i \in Ids : Claim(w, d, now)!(i)
    BY Zenon, <1>2 DEF Claim
  <2> DEFINE token == fencing_token[i] + 1
             new == [id |-> i, worker |-> w, token |-> token, until |-> now + d]
  <2>2. /\ leases' = leases \cup {new}
        /\ pending' = pending \cup {HistoryRow(i, "leased", w, token)}
    BY Zenon, <2>1 DEF ReportLater, LeaseUntil
  <2>3. new \in leases' /\ new.id = i /\ new.token = token /\ new.worker = w
    BY Zenon, <2>2
  <2> HIDE DEF token, new
  <2> QED
    BY <2>2, <2>3
<1>3. ASSUME NEW i \in Ids, NEW w \in Workers, NEW tok \in 1..MaxToken,
             NEW now \in Sampled, MarkReceived(i, w, tok, now)
      PROVE  PendingInv'
  <2>1. [id |-> i, worker |-> w, token |-> tok, until |-> lease_until[i]] \in leases
    BY Zenon, <1>3 DEF MarkReceived, LeaseInForce, LeaseInv
  <2> QED
    BY <1>3, <2>1 DEF MarkReceived, ReportLater
<1>4. ASSUME NEW i \in Ids, NEW w \in Workers, NEW tok \in 1..MaxToken,
             NEW k \in SettledStates, Settle(i, w, tok, k)
      PROVE  PendingInv'
  BY Zenon, <1>4 DEF Settle
<1>5. ASSUME NEW now \in Sampled, RequeueExpired(now) PROVE PendingInv'
  BY Zenon, <1>5 DEF RequeueExpired
<1>6. ASSUME NEW row \in pending, InsertHistory(row) \/ LoseHistory(row)
      PROVE  PendingInv'
  BY Zenon, <1>6 DEF InsertHistory, LoseHistory
<1>7. CASE Tick
  BY Zenon, <1>7 DEF Tick
<1>8. CASE UNCHANGED vars
  BY Zenon, <1>8 DEF vars
<1> HIDE DEF TypeOK, PendingInv, InFlight, SettledStates, HistoryRow
<1> QED
  BY Zenon, <1>1, <1>2, <1>3, <1>4, <1>5, <1>6, <1>7, <1>8 DEF Next, Sweep

\* Every insert into delivery_history, inside Settle's transaction or after the
\* statement of Claim, MarkReceived and Publish, keeps the history truthful.
LEMMA HistoryStep ==
    /\ TypeOK /\ LeaseInv /\ PendingInv /\ SettledByLastLease /\ HistoryFaithful
    /\ [Next]_vars
    => HistoryFaithful'
<1> SUFFICES ASSUME TypeOK, LeaseInv, PendingInv, SettledByLastLease,
                    HistoryFaithful, [Next]_vars
             PROVE  HistoryFaithful'
  BY Zenon
<1> USE ConstantFacts DEF TypeOK, HistoryFaithful, InFlight, SettledStates, HistoryRow
<1>1. ASSUME NEW e \in Envelopes, Publish(e) PROVE HistoryFaithful'
  BY Zenon, <1>1 DEF Publish, ReportLater
<1>2. ASSUME NEW w \in Workers, NEW d \in Durations, NEW now \in Sampled,
             Claim(w, d, now)
      PROVE  HistoryFaithful'
  <2>1. leases \subseteq leases' /\ history' = history /\ settlement' = settlement
    BY Zenon, <1>2 DEF Claim, ReportLater
  <2> QED
    BY Zenon, <2>1
<1>3. ASSUME NEW i \in Ids, NEW w \in Workers, NEW tok \in 1..MaxToken,
             NEW now \in Sampled, MarkReceived(i, w, tok, now)
      PROVE  HistoryFaithful'
  BY Zenon, <1>3 DEF MarkReceived, ReportLater
<1>4. ASSUME NEW i \in Ids, NEW w \in Workers, NEW tok \in 1..MaxToken,
             NEW k \in SettledStates, Settle(i, w, tok, k)
      PROVE  HistoryFaithful'
  <2> DEFINE new == [kind |-> k, worker |-> w, token |-> tok]
             row == [id |-> i, state |-> k, worker |-> w, token |-> tok]
             settled(h, j) == {r \in h : r.id = j /\ r.state \in SettledStates}
  <2>1. [id |-> i, worker |-> w, token |-> tok, until |-> lease_until[i]] \in leases
    BY Zenon, <1>4 DEF Settle, LeaseInForce, LeaseInv
  <2>2. settlement[i] = NoSettlement
    BY Zenon, <1>4 DEF Settle, LeaseInForce, SettledByLastLease
  <2>3. /\ settlement' = [settlement EXCEPT ![i] = new]
        /\ history' = history \cup {row}
        /\ leases' = leases
    BY Zenon, <1>4, <2>2 DEF Settle
  <2>4. new # NoSettlement
    BY Zenon DEF NoSettlement
  <2>5. \A r \in history' : r.state \in InFlight \cup SettledStates =>
          \E l \in leases' : l.id = r.id /\ l.token = r.token /\ l.worker = r.worker
    BY <2>1, <2>3
  <2>6. settled(history', i) = {row}
    BY <2>2, <2>3
  <2>7. \A j \in Ids \ {i} : settled(history', j) = settled(history, j)
    BY <2>3
  <2> QED
    BY <2>3, <2>4, <2>5, <2>6, <2>7
<1>5. ASSUME NEW now \in Sampled, RequeueExpired(now) PROVE HistoryFaithful'
  BY Zenon, <1>5 DEF RequeueExpired
<1>6. ASSUME NEW row \in pending, InsertHistory(row) PROVE HistoryFaithful'
  <2>1. history' = history \cup {row} /\ leases' = leases /\ settlement' = settlement
    BY Zenon, <1>6 DEF InsertHistory
  <2>2. row.state \notin SettledStates
    BY Zenon DEF PendingInv
  <2>3. \A j \in Ids :
          {r \in history' : r.id = j /\ r.state \in SettledStates} =
          {r \in history : r.id = j /\ r.state \in SettledStates}
    BY Zenon, <2>1, <2>2
  <2> QED
    BY Zenon, <2>1, <2>3 DEF PendingInv
<1>7. ASSUME NEW row \in pending, LoseHistory(row) PROVE HistoryFaithful'
  BY Zenon, <1>7 DEF LoseHistory
<1>8. CASE Tick
  BY Zenon, <1>8 DEF Tick
<1>9. CASE UNCHANGED vars
  BY Zenon, <1>9 DEF vars
<1> HIDE DEF TypeOK, HistoryFaithful, InFlight, SettledStates, HistoryRow
<1> QED
  BY Zenon, <1>1, <1>2, <1>3, <1>4, <1>5, <1>6, <1>7, <1>8, <1>9 DEF Next, Sweep

-----------------------------------------------------------------------------
\* The empty database satisfies the inductive invariant (migrate).
LEMMA IInvInit == Init => IInv
BY DEF Init, IInv, TypeOK, LeaseInv, KeyInv, PendingInv, SettledByLastLease,
       HistoryFaithful, InFlight, SettledStates, NoSettlement

\* Every statement of store.go keeps the inductive invariant.
LEMMA IInvStep == IInv /\ [Next]_vars => IInv'
BY Zenon, TypeStep, LeaseStep, KeyStep, PendingStep, SettledStep, HistoryStep DEF IInv

\* The inductive invariant holds in every state the store reaches, whatever the
\* order of publications, claims, frames and sweeps.
THEOREM Inductive == Spec => []IInv
BY IInvInit, IInvStep, PTL DEF Spec

\* At most one unexpired lease per event at any instant (Claim and
\* RequeueExpired, with any staleness of the instant the sweep uses).
THEOREM LeaseExclusive == Spec => []OneLiveLease
<1>1. IInv => OneLiveLease
  <2> SUFFICES ASSUME IInv, NEW l \in leases, NEW m \in leases,
                      l.id = m.id, l.until > clock, m.until > clock
               PROVE  l = m
    BY Zenon DEF OneLiveLease
  <2> DEFINE tok == fencing_token[l.id]
  <2>1. /\ l.token \in Nat /\ m.token \in Nat /\ tok \in Nat
        /\ l.until \in Nat /\ m.until \in Nat /\ clock \in Nat
    BY Zenon DEF IInv, TypeOK, Lease
  <2>2. /\ l.token <= tok /\ (l.token < tok => l.until <= clock)
        /\ m.token <= tok /\ (m.token < tok => m.until <= clock)
    BY Zenon DEF IInv, LeaseInv
  <2> HIDE DEF tok
  <2>3. l.token = tok /\ m.token = tok
    BY <2>1, <2>2
  <2> QED
    BY Zenon, <2>3 DEF IInv, LeaseInv
<1> QED
  BY <1>1, Inductive, PTL

\* A settled row and its settlements entry agree and come from the worker of
\* the last lease (Settle).
THEOREM SettlementFenced == Spec => []SettledByLastLease
<1>1. IInv => SettledByLastLease
  BY Zenon DEF IInv
<1> QED
  BY <1>1, Inductive, PTL

\* One idempotency key is settled at most once (Publish, Settle).
THEOREM KeySettledOnce == Spec => []OneSettlementPerKey
<1>1. IInv => OneSettlementPerKey
  BY Zenon DEF IInv, KeyInv, SettledByLastLease, OneSettlementPerKey, SettledStates
<1> QED
  BY <1>1, Inductive, PTL

\* delivery_history tells the truth about leases and names every settlement
\* (the history inserts of Claim, MarkReceived and Settle).
THEOREM HistoryTrue == Spec => []HistoryFaithful
<1>1. IInv => HistoryFaithful
  BY Zenon DEF IInv
<1> QED
  BY <1>1, Inductive, PTL

\* Settlement is final and fencing tokens are never reused (the WHERE clauses
\* of Claim, Settle and RequeueExpired).
THEOREM TokensFence == Spec => Fenced
<1>1. IInv /\ [Next]_vars => [FencedStep]_vars
  <2> SUFFICES ASSUME IInv, Next PROVE FencedStep
    BY Zenon
  <2> USE ConstantFacts DEF IInv, TypeOK, FencedStep, InFlight, Unleased, SettledStates
  <2>1. ASSUME NEW e \in Envelopes, Publish(e) PROVE FencedStep
    BY <2>1 DEF Publish
  <2>2. ASSUME NEW w \in Workers, NEW d \in Durations, NEW now \in Sampled,
               Claim(w, d, now)
        PROVE  FencedStep
    <3>1. PICK i \in Ids : Claim(w, d, now)!(i)
      BY Zenon, <2>2 DEF Claim
    <3>2. /\ state[i] \in Unleased
          /\ state' = [state EXCEPT ![i] = "leased"]
          /\ owner' = [owner EXCEPT ![i] = w]
          /\ fencing_token' = [fencing_token EXCEPT ![i] = fencing_token[i] + 1]
          /\ settlement' = settlement
      BY Zenon, <3>1 DEF Candidate, Claimable
    <3>3. \A l \in leases : l.id = i => l.token < fencing_token[i] + 1
      BY DEF LeaseInv, Lease
    <3> QED
      BY <3>2, <3>3
  <2>3. ASSUME NEW i \in Ids, NEW w \in Workers, NEW tok \in 1..MaxToken,
               NEW now \in Sampled, MarkReceived(i, w, tok, now)
        PROVE  FencedStep
    BY <2>3 DEF MarkReceived, LeaseInForce
  <2>4. ASSUME NEW i \in Ids, NEW w \in Workers, NEW tok \in 1..MaxToken,
               NEW k \in SettledStates, Settle(i, w, tok, k)
        PROVE  FencedStep
    BY <2>4 DEF Settle, LeaseInForce
  <2>5. ASSUME NEW now \in Sampled, RequeueExpired(now) PROVE FencedStep
    BY <2>5 DEF RequeueExpired, Overdue
  <2>6. ASSUME NEW row \in pending, InsertHistory(row) \/ LoseHistory(row)
        PROVE  FencedStep
    BY <2>6 DEF InsertHistory, LoseHistory, rowVars
  <2>7. CASE Tick
    BY <2>7 DEF Tick, rowVars
  <2> QED
    BY <2>1, <2>2, <2>3, <2>4, <2>5, <2>6, <2>7 DEF Next, Sweep
<1> QED
  BY <1>1, Inductive, PTL DEF Spec, Fenced

\* The store implements the settlement protocol of settlement.zig: every
\* statement is a step of it or leaves it unchanged.
THEOREM StoreImplementsProtocol == Spec => ImplementsProtocol
<1>1. Init => Protocol!Init
  BY Zenon DEF Init, Protocol!Init
<1>2. TypeOK /\ [Next]_vars => [Protocol!Next]_(Protocol!vars)
  <2> SUFFICES ASSUME TypeOK, [Next]_vars
               PROVE  [Protocol!Next]_(Protocol!vars)
    BY Zenon
  <2> USE ConstantFacts DEF TypeOK, Unleased, InFlight, Protocol!InFlight,
          Protocol!LegalTransition, Protocol!Transition
  <2>1. ASSUME NEW e \in Envelopes, Publish(e) PROVE Protocol!Next
    <3>1. Protocol!Publish(e.id)
      BY Zenon, <2>1 DEF Publish, Protocol!Publish
    <3> QED
      BY Zenon, <3>1 DEF Protocol!Next
  <2>2. ASSUME NEW w \in Workers, NEW d \in Durations, NEW now \in Sampled,
               Claim(w, d, now)
        PROVE  Protocol!Next
    <3>1. PICK i \in Ids : Claim(w, d, now)!(i)
      BY Zenon, <2>2 DEF Claim
    <3>2. Protocol!Lease(i, w)
      BY Zenon, <3>1 DEF Candidate, Claimable, Protocol!Lease, Protocol!NeedsRedelivery
    <3> QED
      BY Zenon, <3>2 DEF Protocol!Next
  <2>3. ASSUME NEW i \in Ids, NEW w \in Workers, NEW tok \in 1..MaxToken,
               NEW now \in Sampled, MarkReceived(i, w, tok, now)
        PROVE  Protocol!Next
    <3>1. Protocol!Frame(i, "received")
      BY Zenon, <2>3 DEF MarkReceived, LeaseInForce, Protocol!Frame
    <3> QED
      BY Zenon, <3>1 DEF Protocol!Next, Protocol!ControlKinds
  <2>4. ASSUME NEW i \in Ids, NEW w \in Workers, NEW tok \in 1..MaxToken,
               NEW k \in SettledStates, Settle(i, w, tok, k)
        PROVE  Protocol!Next
    <3>1. Protocol!Frame(i, k)
      BY Zenon, <2>4 DEF Settle, LeaseInForce, Protocol!Frame, SettledStates
    <3> QED
      BY Zenon, <3>1 DEF Protocol!Next, Protocol!ControlKinds, SettledStates
  <2>5. ASSUME NEW now \in Sampled, RequeueExpired(now) PROVE Protocol!Next
    <3>1. Protocol!Expire(Overdue(now))
      BY Zenon, <2>5 DEF RequeueExpired, Overdue, Protocol!Expire
    <3> QED
      BY Zenon, <3>1 DEF Protocol!Next, Overdue
  <2>6. ASSUME NEW row \in pending, InsertHistory(row) \/ LoseHistory(row)
        PROVE  UNCHANGED Protocol!vars
    BY Zenon, <2>6 DEF InsertHistory, LoseHistory, rowVars, Protocol!vars
  <2>7. CASE Tick
    BY Zenon, <2>7 DEF Tick, rowVars, Protocol!vars
  <2>8. CASE UNCHANGED vars
    BY Zenon, <2>8 DEF vars, Protocol!vars
  <2> QED
    BY Zenon, <2>1, <2>2, <2>3, <2>4, <2>5, <2>6, <2>7, <2>8 DEF Next, Sweep
<1> QED
  BY <1>1, <1>2, TypeCorrect, PTL DEF Spec, ImplementsProtocol, Protocol!Spec

-----------------------------------------------------------------------------
\* The outbox of the gateway.

HasRow(e) == \E r \in Rows : outbox[r].event = e

\* The loop marks a row it has just sent, within its batch.
MarkInv ==
    loop = "mark" => cur \in Rows /\ sent[outbox[cur].event] > 0 /\ left > 0

\* An event has one way out at a time: nothing before it is stored, then its
\* handler, then its one outbox row.
PathInv ==
    /\ \A e \in Events : e \notin stored =>
         /\ sent[e] = 0 /\ handler[e] = "none" /\ route[e] = NoTransport
         /\ ~HasRow(e)
    /\ \A e \in Events : handler[e] # "none" =>
         ~HasRow(e) /\ route[e] \in Transports
    /\ \A r, q \in Rows : outbox[r].event = outbox[q].event => r = q

\* Copies are paid for with faults.  An event whose next copy is still to be
\* sent has cost one fault for each copy so far; a row that is being marked
\* was sent once more.
CopyInv ==
    /\ \A e \in Events : handler[e] = "egress" => sent[e] = 0
    /\ \A e \in Events : handler[e] = "enqueue" => sent[e] <= faults
    /\ \A r \in Rows \ delivered :
         sent[outbox[r].event] <= faults \/ (loop = "mark" /\ cur = r)
    /\ DuplicatesNeedFaults

GatewayInvariant == GatewayTypeOK /\ MarkInv /\ PathInv /\ CopyInv /\ EgressAccounted

-----------------------------------------------------------------------------
\* The rows of the outbox after EnqueueOutbox: one more, with the old ones as
\* they were (store.go, EnqueueOutbox).
LEMMA EnqueueFacts ==
    ASSUME GatewayTypeOK, NEW e \in Events, EnqueueOutbox(e), handler[e] # "none" => route[e] \in Transports
    PROVE  /\ outbox' \in Seq([event : Events, transport : Transports])
           /\ Len(outbox') = Len(outbox) + 1 /\ Len(outbox) \in Nat
           /\ \A r \in Rows : outbox'[r] = outbox[r]
           /\ outbox'[Len(outbox) + 1].event = e
<1> DEFINE new == [event |-> e, transport |-> route[e]]
<1>1. outbox \in Seq([event : Events, transport : Transports])
  BY Zenon DEF GatewayTypeOK
<1>2. outbox' = Append(outbox, new) /\ new \in [event : Events, transport : Transports]
  BY Zenon DEF EnqueueOutbox
<1>3. new.event = e
  BY Zenon
<1> HIDE DEF new
<1> QED
  BY <1>1, <1>2, <1>3 DEF Rows

\* A row of the outbox names an event and a transport (store.go, OutboxRecord).
LEMMA RowFacts ==
    GatewayTypeOK => /\ Len(outbox) \in Nat
                     /\ \A r \in Rows : outbox[r].event \in Events /\ r \in Nat
<1> DEFINE Row == [event : Events, transport : Transports]
<1> SUFFICES ASSUME GatewayTypeOK
             PROVE  /\ Len(outbox) \in Nat
                    /\ \A r \in Rows : outbox[r].event \in Events /\ r \in Nat
  BY Zenon
<1>1. outbox \in Seq(Row)
  BY Zenon DEF GatewayTypeOK
<1>2. \A x \in Row : x.event \in Events
  BY Zenon
<1> HIDE DEF Row
<1>3. Len(outbox) \in Nat /\ \A r \in Rows : outbox[r] \in Row /\ r \in Nat
  BY <1>1 DEF Rows
<1> QED
  BY Zenon, <1>2, <1>3

\* The numbers of the rows after EnqueueOutbox.
LEMMA RowsGrow ==
    ASSUME Len(outbox) \in Nat, Len(outbox') = Len(outbox) + 1
    PROVE  Rows \subseteq Rows' /\ \A r \in Rows' : r \in Rows \/ r = Len(outbox) + 1
<1> QED
  BY DEF Rows

\* A transport has taken one more copy of an event.
LEMMA SentOnce ==
    ASSUME GatewayTypeOK, NEW e \in Events, Accepted(e)
    PROVE  /\ sent' \in [Events -> Nat] /\ sent'[e] > 0
           /\ \A f \in Events \ {e} : sent'[f] = sent[f]
           /\ \A f \in Events : sent[f] > 0 => sent'[f] > 0
           /\ sent[e] = 0 => sent'[e] = 1
           /\ sent[e] <= faults => sent'[e] <= 1 + faults
<1>1. sent \in [Events -> Nat] /\ faults \in 0..MaxFaults
  BY Zenon DEF GatewayTypeOK
<1>2. faults \in Nat
  BY <1>1, GatewayAssumption
<1> QED
  BY <1>1, <1>2 DEF Accepted

\* A fault makes room for one more copy.
LEMMA MoreFaults ==
    ASSUME GatewayTypeOK, Fault
    PROVE  /\ faults' \in 0..MaxFaults /\ 1 <= faults' /\ 1 <= 1 + faults'
           /\ \A n \in Nat : (n <= faults => n <= faults') /\ (n <= 1 + faults => n <= 1 + faults')
<1>1. faults \in 0..MaxFaults
  BY Zenon DEF GatewayTypeOK
<1> QED
  BY <1>1, GatewayAssumption DEF Fault

\* A step is one of the handlers' steps, one of the maintenance loop's or a
\* crash (server.go, ingest and RunMaintenance).
LEMMA GatewayTypeStep == GatewayTypeOK /\ MarkInv /\ PathInv /\ [GatewayNext]_gatewayVars => GatewayTypeOK' /\ MarkInv'
<1> SUFFICES ASSUME GatewayTypeOK, MarkInv, PathInv, [GatewayNext]_gatewayVars PROVE GatewayTypeOK' /\ MarkInv'
  BY Zenon
<1> USE GatewayAssumption, RowFacts DEF GatewayTypeOK, MarkInv, Rows, database, maintenance
<1>1. ASSUME NEW e \in Events, NEW t \in Transports, ingest(e, t)
      PROVE  GatewayTypeOK' /\ MarkInv'
  BY Zenon, <1>1 DEF ingest
<1>2. ASSUME NEW e \in Events, BindTransport(e) PROVE GatewayTypeOK' /\ MarkInv'
  BY Zenon, <1>2 DEF BindTransport
<1>3. ASSUME NEW e \in Events, UnknownTransport(e) PROVE GatewayTypeOK' /\ MarkInv'
  BY Zenon, <1>3 DEF UnknownTransport, Finish
<1>4. ASSUME NEW e \in Events, EgressOk(e) PROVE GatewayTypeOK' /\ MarkInv'
  <2>1. sent' \in [Events -> Nat] /\ \A f \in Events : sent[f] > 0 => sent'[f] > 0
    BY Zenon, <1>4, SentOnce DEF EgressOk
  <2> QED
    BY Zenon, <1>4, <2>1 DEF EgressOk, Finish
<1>5. ASSUME NEW e \in Events, EgressFails(e) PROVE GatewayTypeOK' /\ MarkInv'
  <2>1. CASE UNCHANGED <<sent, faults>>
    BY Zenon, <1>5, <2>1 DEF EgressFails
  <2>2. CASE Accepted(e) /\ Fault
    <3>1. /\ sent' \in [Events -> Nat] /\ faults' \in 0..MaxFaults
          /\ \A f \in Events : sent[f] > 0 => sent'[f] > 0
      BY Zenon, <2>2, SentOnce, MoreFaults
    <3> QED
      BY Zenon, <1>5, <3>1 DEF EgressFails
  <2> QED
    BY Zenon, <1>5, <2>1, <2>2 DEF EgressFails
<1>6. ASSUME NEW e \in Events, EnqueueOutbox(e) PROVE GatewayTypeOK' /\ MarkInv'
  <2>1. /\ outbox' \in Seq([event : Events, transport : Transports])
        /\ Len(outbox') = Len(outbox) + 1 /\ Len(outbox) \in Nat
        /\ \A r \in Rows : outbox'[r] = outbox[r]
    BY Zenon, <1>6, EnqueueFacts DEF PathInv
  <2>2. handler' = [handler EXCEPT ![e] = "none"]
        /\ UNCHANGED <<registered, stored, route, ripe, delivered, loop, cur, left,
                       sent, lost, faults>>
    BY Zenon, <1>6 DEF EnqueueOutbox, Finish
  <2>3. GatewayTypeOK'
    <3>1. ripe' \subseteq Rows' /\ delivered' \subseteq Rows'
      BY Zenon, <2>1, <2>2, RowsGrow
    <3> QED
      BY Zenon, <2>1, <2>2, <3>1
  <2>4. MarkInv'
    <3> SUFFICES ASSUME loop = "mark"
                 PROVE  cur \in Rows' /\ sent[outbox'[cur].event] > 0 /\ left > 0
      BY Zenon, <2>2
    <3>1. cur \in Rows /\ sent[outbox[cur].event] > 0 /\ left > 0
      BY Zenon
    <3>2. outbox'[cur] = outbox[cur] /\ cur \in Rows'
      BY Zenon, <2>1, <3>1, RowsGrow
    <3> QED
      BY Zenon, <3>1, <3>2
  <2> QED
    BY Zenon, <2>3, <2>4
<1>7. ASSUME NEW e \in Events, EnqueueFails(e) PROVE GatewayTypeOK' /\ MarkInv'
  BY <1>7 DEF EnqueueFails, Finish, Fault
<1>8. ASSUME NEW r \in Rows, Ripen(r) PROVE GatewayTypeOK' /\ MarkInv'
  BY Zenon, <1>8 DEF Ripen
<1>9. ASSUME NEW r \in Rows, Drain(r) PROVE GatewayTypeOK' /\ MarkInv'
  <2>1. outbox[r].event \in Events
    BY Zenon
  <2>2. /\ sent' = [sent EXCEPT ![outbox[r].event] = @ + 1]
        /\ loop' = "mark" /\ cur' = r /\ left > 0
        /\ UNCHANGED <<registered, stored, outbox, delivered, handler, route, ripe,
                       left, lost, faults>>
    BY Zenon, <1>9 DEF Drain, MayTake, Accepted
  <2>3. sent' \in [Events -> Nat] /\ sent'[outbox[r].event] > 0
    BY Zenon, <2>1, <2>2, SentOnce DEF Accepted
  <2> QED
    BY Zenon, <2>2, <2>3
<1>10. CASE MaintenanceTick
  BY <1>10 DEF MaintenanceTick
<1>11. CASE Wait
  <2>1. loop' = "idle" /\ UNCHANGED <<registered, stored, outbox, delivered, handler,
                                     route, ripe, cur, left, lost>>
    BY Zenon, <1>11 DEF Wait
  <2>2. CASE UNCHANGED <<sent, faults>>
    BY Zenon, <2>1, <2>2
  <2>3. ASSUME NEW r \in Rows, Accepted(outbox[r].event), Fault
        PROVE  GatewayTypeOK' /\ MarkInv'
    <3>1. outbox[r].event \in Events
      BY Zenon
    <3>2. sent' \in [Events -> Nat] /\ faults' \in 0..MaxFaults
      BY Zenon, <2>3, <3>1, SentOnce, MoreFaults
    <3> QED
      BY Zenon, <2>1, <3>2
  <2> QED
    BY Zenon, <1>11, <2>2, <2>3 DEF Wait, BatchEnds, DrainFails, Due
<1>12. CASE MarkOutboxDelivered
  <2>1. loop = "mark" /\ loop' = "next" /\ left' = left - 1
        /\ UNCHANGED <<registered, stored, outbox, handler, route, ripe, cur, sent, lost>>
    BY Zenon, <1>12 DEF MarkOutboxDelivered
  <2>2. left' \in 0..Batch
    BY <2>1
  <2>3. delivered' \subseteq Rows /\ faults' \in 0..MaxFaults
    <3>1. CASE delivered' = delivered \cup {cur} /\ UNCHANGED faults
      BY Zenon, <2>1, <3>1
    <3>2. CASE Fault /\ UNCHANGED delivered
      BY <3>2 DEF Fault
    <3> QED
      BY Zenon, <1>12, <3>1, <3>2 DEF MarkOutboxDelivered
  <2> QED
    BY Zenon, <2>1, <2>2, <2>3
<1>13. CASE Crash
  BY <1>13 DEF Crash, Fault
<1>14. CASE UNCHANGED gatewayVars
  BY Zenon, <1>14 DEF gatewayVars
<1> HIDE DEF GatewayTypeOK, MarkInv, Rows, database, maintenance
<1> QED
  BY Zenon, <1>1, <1>2, <1>3, <1>4, <1>5, <1>6, <1>7, <1>8, <1>9, <1>10, <1>11, <1>12,
     <1>13, <1>14 DEF GatewayNext

-----------------------------------------------------------------------------
\* An event that is not stored has no trace, one with a handler has no row, and
\* no event has two rows (server.go, ingest: the handler is the one that created
\* the row, and it enqueues at most once, as its last act).
LEMMA PathStep == GatewayTypeOK /\ PathInv /\ [GatewayNext]_gatewayVars => PathInv'
<1> SUFFICES ASSUME GatewayTypeOK, PathInv, [GatewayNext]_gatewayVars PROVE PathInv'
  BY Zenon
<1> USE GatewayAssumption, RowFacts DEF GatewayTypeOK, PathInv, HasRow, Rows, database, maintenance
<1>1. ASSUME NEW e \in Events, NEW t \in Transports, ingest(e, t) PROVE PathInv'
  BY <1>1 DEF ingest, Created
<1>2. ASSUME NEW e \in Events, BindTransport(e) PROVE PathInv'
  BY Zenon, <1>2 DEF BindTransport
<1>3. ASSUME NEW e \in Events, UnknownTransport(e) PROVE PathInv'
  BY <1>3 DEF UnknownTransport, Finish
<1>4. ASSUME NEW e \in Events, EgressOk(e) PROVE PathInv'
  BY <1>4 DEF EgressOk, Accepted, Finish
<1>5. ASSUME NEW e \in Events, EgressFails(e) PROVE PathInv'
  BY <1>5 DEF EgressFails, Accepted
<1>6. ASSUME NEW e \in Events, EnqueueOutbox(e) PROVE PathInv'
  <2>1. /\ Len(outbox') = Len(outbox) + 1 /\ Len(outbox) \in Nat
        /\ \A r \in Rows : outbox'[r] = outbox[r]
        /\ outbox'[Len(outbox) + 1].event = e
    BY Zenon, <1>6, EnqueueFacts
  <2>2. /\ handler[e] # "none" /\ handler' = [handler EXCEPT ![e] = "none"]
        /\ UNCHANGED <<stored, route, sent>>
    BY Zenon, <1>6 DEF EnqueueOutbox, Finish
  <2>3. e \in stored /\ ~HasRow(e)
    BY Zenon, <2>2
  <2>4. \A r \in Rows' : r \in Rows \/ r = Len(outbox) + 1
    BY <2>1
  <2>5. \A f \in Events : HasRow(f)' => HasRow(f) \/ f = e
    BY Zenon, <2>1, <2>4
  <2>6. \A r, q \in Rows' : outbox'[r].event = outbox'[q].event => r = q
    <3> SUFFICES ASSUME NEW r \in Rows', NEW q \in Rows',
                        outbox'[r].event = outbox'[q].event
                 PROVE  r = q
      BY Zenon
    <3>1. \A p \in Rows : outbox'[p].event # e
      BY Zenon, <2>1, <2>3
    <3>2. CASE r \in Rows /\ q \in Rows
      BY Zenon, <2>1, <3>2
    <3> QED
      BY Zenon, <2>1, <2>4, <3>1, <3>2
  <2> HIDE DEF HasRow, Rows
  <2> QED
    BY <2>2, <2>3, <2>5, <2>6
<1>7. ASSUME NEW e \in Events, EnqueueFails(e) PROVE PathInv'
  BY <1>7 DEF EnqueueFails, Finish
<1>8. ASSUME NEW r \in Rows, Ripen(r) \/ Drain(r) PROVE PathInv'
  <2>1. UNCHANGED <<stored, outbox, handler, route>>
    BY Zenon, <1>8 DEF Ripen, Drain
  <2>2. \A e \in Events : ~HasRow(e) => sent'[e] = sent[e]
    BY <1>8 DEF Ripen, Drain, Accepted
  <2> QED
    BY Zenon, <2>1, <2>2
<1>9. CASE MaintenanceTick \/ MarkOutboxDelivered \/ Crash \/ UNCHANGED gatewayVars
  <2>1. UNCHANGED <<stored, outbox, route, sent>>
    BY Zenon, <1>9 DEF MaintenanceTick, MarkOutboxDelivered, Crash, gatewayVars
  <2>2. \A e \in Events : handler'[e] # "none" => handler[e] = handler'[e]
    BY <1>9 DEF MaintenanceTick, MarkOutboxDelivered, Crash, gatewayVars
  <2> QED
    BY Zenon, <2>1, <2>2
<1>10. CASE Wait
  <2>1. UNCHANGED <<stored, outbox, handler, route>>
    BY Zenon, <1>10 DEF Wait
  <2>2. \A e \in Events : ~HasRow(e) => sent'[e] = sent[e]
    <3>1. CASE UNCHANGED sent
      BY Zenon, <3>1
    <3>2. CASE ~(UNCHANGED sent)
      <4>1. PICK r \in Due : Accepted(outbox[r].event)
        BY Zenon, <1>10, <3>2 DEF Wait, BatchEnds, DrainFails
      <4>2. r \in Rows /\ HasRow(outbox[r].event)
        BY Zenon, <4>1 DEF Due
      <4>3. \A e \in Events \ {outbox[r].event} : sent'[e] = sent[e]
        BY Zenon, <4>1 DEF Accepted
      <4> QED
        BY Zenon, <4>2, <4>3
    <3> QED
      BY Zenon, <3>1, <3>2
  <2> QED
    BY Zenon, <2>1, <2>2
<1> HIDE DEF GatewayTypeOK, PathInv, HasRow, Rows, database, maintenance
<1> QED
  BY Zenon, <1>1, <1>2, <1>3, <1>4, <1>5, <1>6, <1>7, <1>8, <1>9, <1>10 DEF GatewayNext

-----------------------------------------------------------------------------
\* A copy is sent by the handler before anything was sent, by the loop for a
\* row that it then marks, or together with a fault (server.go, ingest and
\* RunMaintenance).
LEMMA CopyStep == GatewayTypeOK /\ MarkInv /\ PathInv /\ CopyInv /\ [GatewayNext]_gatewayVars => CopyInv'
<1> SUFFICES ASSUME GatewayTypeOK, MarkInv, PathInv, CopyInv, [GatewayNext]_gatewayVars PROVE CopyInv'
  BY Zenon
<1> USE GatewayAssumption, RowFacts
    DEF GatewayTypeOK, CopyInv, DuplicatesNeedFaults, database, maintenance
<1>0. \A e \in Events : sent[e] \in Nat /\ faults \in Nat
  OBVIOUS
<1>1. ASSUME NEW e \in Events, NEW t \in Transports, ingest(e, t) PROVE CopyInv'
  BY <1>1 DEF ingest, Created, PathInv, Rows
<1>2. ASSUME NEW e \in Events, BindTransport(e) PROVE CopyInv'
  BY Zenon, <1>2 DEF BindTransport, Rows
<1>3. ASSUME NEW e \in Events, UnknownTransport(e) PROVE CopyInv'
  BY Zenon, <1>3 DEF UnknownTransport, Finish, Rows
<1>4. ASSUME NEW e \in Events, EgressOk(e) PROVE CopyInv'
  <2>1. \A r \in Rows : outbox[r].event # e
    BY Zenon, <1>4 DEF EgressOk, PathInv, HasRow
  <2> QED
    BY <1>0, <1>4, <2>1 DEF EgressOk, Accepted, Finish, Rows
<1>5. ASSUME NEW e \in Events, EgressFails(e) PROVE CopyInv'
  <2>1. \A r \in Rows : outbox[r].event # e
    BY Zenon, <1>5 DEF EgressFails, PathInv, HasRow
  <2>2. CASE UNCHANGED <<sent, faults>>
    BY <1>0, <1>5, <2>2 DEF EgressFails, Rows
  <2>3. CASE Accepted(e) /\ Fault
    <3>1. /\ sent[e] = 0 /\ handler' = [handler EXCEPT ![e] = "enqueue"]
          /\ UNCHANGED <<outbox, delivered, loop, cur>>
      BY Zenon, <1>5 DEF EgressFails
    <3>2. sent'[e] = 1 /\ \A f \in Events \ {e} : sent'[f] = sent[f]
      BY Zenon, <2>3, <3>1, SentOnce
    <3>3. /\ 1 <= faults' /\ 1 <= 1 + faults'
          /\ \A n \in Nat : (n <= faults => n <= faults') /\ (n <= 1 + faults => n <= 1 + faults')
      BY Zenon, <1>0, <2>3, MoreFaults
    <3> QED
      BY Zenon, <1>0, <2>1, <3>1, <3>2, <3>3 DEF Rows
  <2> QED
    BY Zenon, <1>5, <2>2, <2>3 DEF EgressFails
<1>6. ASSUME NEW e \in Events, EnqueueOutbox(e) PROVE CopyInv'
  <2>1. /\ Len(outbox') = Len(outbox) + 1 /\ Len(outbox) \in Nat
        /\ \A r \in Rows : outbox'[r] = outbox[r]
        /\ outbox'[Len(outbox) + 1].event = e
    BY Zenon, <1>6, EnqueueFacts DEF PathInv
  <2>2. /\ handler[e] = "enqueue" /\ handler' = [handler EXCEPT ![e] = "none"]
        /\ UNCHANGED <<sent, faults, delivered, loop, cur>>
    BY Zenon, <1>6 DEF EnqueueOutbox, Finish
  <2>3. \A r \in Rows' : r \in Rows \/ r = Len(outbox) + 1
    BY Zenon, <2>1, RowsGrow
  <2>4. \A r \in Rows' \ delivered' :
          sent'[outbox'[r].event] <= faults' \/ (loop' = "mark" /\ cur' = r)
    BY Zenon, <2>1, <2>2, <2>3
  <2> QED
    BY Zenon, <2>2, <2>4
<1>7. ASSUME NEW e \in Events, EnqueueFails(e) PROVE CopyInv'
  <2>1. \A n \in Nat : (n <= faults => n <= faults') /\ (n <= 1 + faults => n <= 1 + faults')
    BY Zenon, <1>0, <1>7, MoreFaults DEF EnqueueFails
  <2> QED
    BY Zenon, <1>0, <1>7, <2>1 DEF EnqueueFails, Finish, Rows
<1>8. ASSUME NEW r \in Rows, Ripen(r) PROVE CopyInv'
  BY Zenon, <1>8 DEF Ripen, Rows
<1>9. ASSUME NEW r \in Rows, Drain(r) PROVE CopyInv'
  <2>1. /\ loop = "next" /\ r \notin delivered /\ loop' = "mark" /\ cur' = r
        /\ sent' = [sent EXCEPT ![outbox[r].event] = @ + 1]
        /\ UNCHANGED <<outbox, delivered, handler, faults>>
    BY Zenon, <1>9 DEF Drain, NextOutbox, Due, Accepted
  <2>2. \A q \in Rows : q # r => outbox[q].event # outbox[r].event
    BY Zenon DEF PathInv
  <2>3. handler[outbox[r].event] = "none"
    BY DEF PathInv, HasRow
  <2>4. sent[outbox[r].event] <= faults
    BY Zenon, <2>1
  <2> QED
    <3>1. outbox[r].event \in Events
      BY Zenon
    <3>2. /\ sent'[outbox[r].event] <= 1 + faults
          /\ \A f \in Events \ {outbox[r].event} : sent'[f] = sent[f]
      BY Zenon, <2>1, <2>4, <3>1, SentOnce DEF Accepted
    <3> QED
      BY Zenon, <1>0, <2>1, <2>2, <2>3, <3>1, <3>2 DEF Rows
<1>10. CASE MaintenanceTick
  BY Zenon, <1>10 DEF MaintenanceTick, Rows
<1>11. CASE Wait
  <2>1. /\ loop = "next"
        /\ UNCHANGED <<outbox, delivered, handler>>
    BY Zenon, <1>11 DEF Wait, BatchEnds, DrainFails
  <2>2. CASE UNCHANGED <<sent, faults>>
    BY Zenon, <2>1, <2>2 DEF Rows
  <2>3. ASSUME NEW r \in Rows, Accepted(outbox[r].event), Fault, r \notin delivered
        PROVE  CopyInv'
    <3>1. handler[outbox[r].event] = "none"
      BY DEF PathInv, HasRow
    <3>2. sent[outbox[r].event] <= faults
      BY Zenon, <2>1, <2>3
    <3>3. \A e \in Events : sent'[e] = IF e = outbox[r].event THEN sent[e] + 1 ELSE sent[e]
      BY Zenon, <2>3 DEF Accepted
    <3>4. \A q \in Rows : q # r => outbox[q].event # outbox[r].event
      BY Zenon DEF PathInv
    <3>5. faults' = faults + 1
      BY Zenon, <2>3 DEF Fault
    <3>6. \A e \in Events : sent'[e] <= 1 + faults'
      <4> SUFFICES ASSUME NEW e \in Events PROVE sent'[e] <= 1 + faults'
        OBVIOUS
      <4>1. sent[e] \in Nat /\ faults \in Nat /\ sent[e] <= 1 + faults
        BY Zenon, <1>0
      <4>2. \/ e = outbox[r].event /\ sent'[e] = sent[e] + 1
            \/ sent'[e] = sent[e]
        BY Zenon, <3>3
      <4>3. e = outbox[r].event => sent[e] <= faults
        BY Zenon, <3>2
      <4> HIDE DEF GatewayTypeOK, CopyInv, DuplicatesNeedFaults
      <4> QED
        BY <3>5, <4>1, <4>2, <4>3
    <3>7. ASSUME NEW q \in Rows, q \notin delivered
          PROVE  sent'[outbox[q].event] <= faults'
      <4>1. sent[outbox[q].event] <= faults
        BY Zenon, <2>1, <3>7
      <4>2. outbox[q].event \in Events /\ sent[outbox[q].event] \in Nat /\ faults \in Nat
        BY Zenon, <1>0
      <4>3. \/ sent'[outbox[q].event] = sent[outbox[q].event] + 1
            \/ sent'[outbox[q].event] = sent[outbox[q].event]
        BY Zenon, <3>3, <4>2
      <4> HIDE DEF GatewayTypeOK, CopyInv, DuplicatesNeedFaults
      <4> QED
        BY <3>5, <4>1, <4>2, <4>3
    <3>8. \A e \in Events : handler[e] # "none" => sent'[e] = sent[e]
      BY Zenon, <3>1, <3>3
    <3>9. \A e \in Events : (handler[e] = "egress" => sent'[e] = 0)
                            /\ (handler[e] = "enqueue" => sent'[e] <= faults')
      BY <1>0, <3>5, <3>8
    <3>10. Rows' = Rows
      BY Zenon, <2>1 DEF Rows
    <3> QED
      BY Zenon, <2>1, <3>6, <3>7, <3>9, <3>10
  <2> QED
    BY Zenon, <1>11, <2>2, <2>3 DEF Wait, BatchEnds, DrainFails, Due, GatewayTypeOK
<1>12. CASE MarkOutboxDelivered
  <2>1. loop = "mark" /\ UNCHANGED <<outbox, handler, sent>>
    BY Zenon, <1>12 DEF MarkOutboxDelivered
  <2>2. CASE delivered' = delivered \cup {cur} /\ UNCHANGED faults
    BY Zenon, <2>1, <2>2 DEF Rows
  <2>3. CASE Fault /\ UNCHANGED delivered
    BY <1>0, <2>1, <2>3 DEF Fault, Rows
  <2> QED
    BY Zenon, <1>12, <2>2, <2>3 DEF MarkOutboxDelivered
<1>13. CASE Crash
  <2>1. UNCHANGED <<outbox, delivered, sent>> /\ faults' = faults + 1
        /\ \A e \in Events : handler'[e] = "none"
    BY Zenon, <1>13 DEF Crash, Fault
  <2> QED
    BY <1>0, <2>1 DEF Rows
<1>14. CASE UNCHANGED gatewayVars
  BY Zenon, <1>14 DEF gatewayVars, Rows
<1> HIDE DEF GatewayTypeOK, CopyInv, DuplicatesNeedFaults, database, maintenance
<1> QED
  BY Zenon, <1>1, <1>2, <1>3, <1>4, <1>5, <1>6, <1>7, <1>8, <1>9, <1>10, <1>11, <1>12,
     <1>13, <1>14 DEF GatewayNext

-----------------------------------------------------------------------------
\* An event leaves one of the places EgressAccounted names only for another:
\* in particular a row is marked after it was sent (server.go, RunMaintenance)
\* and a new row is not marked yet (store.go, EnqueueOutbox).
LEMMA AccountedStep ==
    GatewayTypeOK /\ MarkInv /\ PathInv /\ EgressAccounted /\ [GatewayNext]_gatewayVars => EgressAccounted'
<1> SUFFICES ASSUME GatewayTypeOK, MarkInv, PathInv, EgressAccounted, [GatewayNext]_gatewayVars
             PROVE  EgressAccounted'
  BY Zenon
<1> USE GatewayAssumption, RowFacts DEF GatewayTypeOK, EgressAccounted, database, maintenance
<1>0. \A e \in Events : sent[e] \in Nat
  BY Zenon
<1>1. ASSUME NEW e \in Events, NEW t \in Transports, ingest(e, t) PROVE EgressAccounted'
  BY <1>1 DEF ingest, Rows
<1>2. ASSUME NEW e \in Events, BindTransport(e) PROVE EgressAccounted'
  BY Zenon, <1>2 DEF BindTransport, Created, PathInv, Rows
<1>3. ASSUME NEW e \in Events, UnknownTransport(e) PROVE EgressAccounted'
  BY Zenon, <1>3 DEF UnknownTransport, Finish, Rows
<1>4. ASSUME NEW e \in Events, EgressOk(e) PROVE EgressAccounted'
  BY <1>0, <1>4 DEF EgressOk, Accepted, Finish, Rows
<1>5. ASSUME NEW e \in Events, EgressFails(e) PROVE EgressAccounted'
  BY Zenon, <1>0, <1>5 DEF EgressFails, Accepted, Rows
<1>6. ASSUME NEW e \in Events, EnqueueOutbox(e) PROVE EgressAccounted'
  <2>1. /\ Len(outbox') = Len(outbox) + 1 /\ Len(outbox) \in Nat
        /\ \A r \in Rows : outbox'[r] = outbox[r]
        /\ outbox'[Len(outbox) + 1].event = e
    BY Zenon, <1>6, EnqueueFacts DEF PathInv
  <2>2. /\ handler' = [handler EXCEPT ![e] = "none"]
        /\ UNCHANGED <<stored, route, sent, delivered, lost>>
    BY Zenon, <1>6 DEF EnqueueOutbox, Finish
  <2>3. Len(outbox) + 1 \in Rows' \ delivered'
    BY <2>1, <2>2 DEF Rows
  <2>4. \A r \in Rows \ delivered : r \in Rows' \ delivered'
    BY <2>1, <2>2 DEF Rows
  <2> QED
    BY Zenon, <2>1, <2>2, <2>3, <2>4
<1>7. ASSUME NEW e \in Events, EnqueueFails(e) PROVE EgressAccounted'
  BY Zenon, <1>7 DEF EnqueueFails, Finish, Rows
<1>8. ASSUME NEW r \in Rows, Ripen(r) PROVE EgressAccounted'
  BY Zenon, <1>8 DEF Ripen, Rows
<1>9. ASSUME NEW r \in Rows, Drain(r) PROVE EgressAccounted'
  BY <1>0, <1>9 DEF Drain, Accepted, Rows
<1>10. CASE MaintenanceTick
  BY Zenon, <1>10 DEF MaintenanceTick, Rows
<1>11. CASE Wait
  <2>1. UNCHANGED <<stored, route, outbox, delivered, handler, lost>>
    BY Zenon, <1>11 DEF Wait
  <2>2. sent' = sent \/ \E f \in Events : Accepted(f)
    BY Zenon, <1>11 DEF Wait, BatchEnds, DrainFails, Due
  <2>3. \A e \in Events : sent[e] > 0 => sent'[e] > 0
    BY <1>0, <2>2 DEF Accepted
  <2> QED
    BY Zenon, <2>1, <2>3 DEF Rows
<1>12. CASE MarkOutboxDelivered
  <2>1. /\ loop = "mark" /\ delivered' \subseteq delivered \cup {cur}
        /\ UNCHANGED <<stored, route, outbox, handler, sent, lost>>
    BY Zenon, <1>12 DEF MarkOutboxDelivered
  <2>2. sent[outbox[cur].event] > 0
    BY Zenon, <2>1 DEF MarkInv
  <2> QED
    BY Zenon, <2>1, <2>2 DEF Rows
<1>13. CASE Crash
  BY Zenon, <1>13 DEF Crash, Rows
<1>14. CASE UNCHANGED gatewayVars
  BY Zenon, <1>14 DEF gatewayVars, Rows
<1> HIDE DEF GatewayTypeOK, EgressAccounted, database, maintenance
<1> QED
  BY Zenon, <1>1, <1>2, <1>3, <1>4, <1>5, <1>6, <1>7, <1>8, <1>9, <1>10, <1>11, <1>12,
     <1>13, <1>14 DEF GatewayNext

-----------------------------------------------------------------------------
\* The conjunction is inductive: it holds when the daemon starts with an empty
\* database and every step keeps it (server.go, ingest and RunMaintenance).
THEOREM GatewayInductive == GatewaySpec => []GatewayInvariant
<1>1. GatewayInit => GatewayInvariant
  <2> SUFFICES ASSUME GatewayInit PROVE GatewayInvariant
    BY Zenon
  <2>1. Rows = {}
    BY DEF GatewayInit, Rows
  <2>2. GatewayTypeOK
    BY <2>1, GatewayAssumption DEF GatewayInit, GatewayTypeOK
  <2> QED
    BY <2>1, <2>2 DEF GatewayInit, GatewayInvariant, MarkInv, PathInv, HasRow, CopyInv,
                      DuplicatesNeedFaults, EgressAccounted
<1>2. GatewayInvariant /\ [GatewayNext]_gatewayVars => GatewayInvariant'
  BY Zenon, GatewayTypeStep, PathStep, CopyStep, AccountedStep DEF GatewayInvariant
<1> QED
  BY <1>1, <1>2, PTL DEF GatewaySpec

\* Every variable keeps its type; in particular the loop takes at most Batch
\* rows per tick (server.go, RunMaintenance).
THEOREM GatewayTypes == GatewaySpec => []GatewayTypeOK
BY GatewayInductive, PTL DEF GatewayInvariant

\* The egress of a stored event is lost only where its ingest was cut off
\* (server.go, ingest).
THEOREM EgressNeverForgotten == GatewaySpec => []EgressAccounted
BY GatewayInductive, PTL DEF GatewayInvariant

\* A transport sees an event at most once more often than there were faults
\* (server.go, ingest and RunMaintenance).
THEOREM CopiesBounded == GatewaySpec => []DuplicatesNeedFaults
<1>1. GatewayInvariant => DuplicatesNeedFaults
  BY Zenon DEF GatewayInvariant, CopyInv
<1> QED
  BY <1>1, GatewayInductive, PTL
=============================================================================
