---------------------------- MODULE CryptoProofs ----------------------------
(***************************************************************************)
(* Machine-checked proofs about the CryptoProvider: VerifyPoP accepts a    *)
(* proof once, for any number of processes, goroutines and proofs, and key *)
(* material is where it should be, for any calls, goroutines and labels.   *)
(***************************************************************************)
EXTENDS CryptoProvider, TLAPS

\* A time stamp is never later than the instant it stands for.
LEMMA StampBound ==
    ASSUME NEW t \in Int
    PROVE  Stamp(t) \in Int /\ Stamp(t) <= t
<1>1. Grain \in Int /\ Grain > 0
  BY GuardAssumption
<1>2. t % Grain \in 0..(Grain - 1)
  BY <1>1
<1> QED
  BY <1>1, <1>2 DEF Stamp

\* The stamp of an instant of the clock is a natural number.
LEMMA StampNat ==
    ASSUME NEW t \in Nat
    PROVE  Stamp(t) \in Nat
<1>1. Grain \in Nat /\ Grain > 0
  BY GuardAssumption
<1>2. t % Grain <= t /\ t % Grain \in Nat
  BY <1>1
<1> QED
  BY <1>1, <1>2 DEF Stamp

-----------------------------------------------------------------------------
\* The initial state satisfies the invariant: nothing is issued or accepted.
LEMMA GuardInit == Init => GuardInvariant
BY GuardAssumption
   DEF Init, GuardInvariant, TypeOK, AcceptedOnce, Authentic, EntrySigned, Remembered,
       CallChecked

\* Signing a fresh proof touches no accepted one: NewPoP only fills a slot that
\* no table entry, no acceptance and no call refers to.
LEMMA NewPoPStep ==
    ASSUME GuardInvariant, NEW p \in Proofs, NEW t \in Targets, NEW e \in Envelopes,
           NEW at \in 0..MaxTime, NewPoP(p, t, e, at)
    PROVE  GuardInvariant'
<1> USE GuardAssumption
<1>1. Stamp(at) \in Nat
  BY StampNat
<1>2. \A q \in Proofs : issued[q] # None => issued'[q] = issued[q]
  BY Zenon DEF NewPoP, GuardInvariant, TypeOK
<1>3. TypeOK'
  BY Zenon, <1>1 DEF NewPoP, GuardInvariant, TypeOK, Statement
<1>4. AcceptedOnce'
  BY Zenon DEF NewPoP, GuardInvariant, AcceptedOnce
<1>5. Authentic'
  BY Zenon, <1>2 DEF NewPoP, GuardInvariant, Authentic, TypeOK
<1>6. ASSUME NEW q \in Proofs
      PROVE  EntrySigned(q)' /\ Remembered(q)'
  BY Zenon, <1>2 DEF NewPoP, GuardInvariant, EntrySigned, Remembered
<1>7. ASSUME NEW c \in Calls
      PROVE  CallChecked(c)'
  <2>1. call[c] # None => call[c].proof \in Proofs
    BY Zenon DEF GuardInvariant, TypeOK, Message
  <2> QED
    BY <1>2, <2>1 DEF GuardInvariant, CallChecked, Bound, Fresh, VerifyHybrid, NewPoP
<1> QED
  BY Zenon, <1>3, <1>4, <1>5, <1>6, <1>7 DEF GuardInvariant

\* The checks before the lock leave the table alone and establish what the
\* invariant says of a call under way (VerifyPoP up to replayMu.Lock).
LEMMA VerifyStep ==
    ASSUME GuardInvariant, NEW c \in Calls, NEW m \in Message, VerifyPoP(c, m)
    PROVE  GuardInvariant'
<1> USE GuardAssumption
<1>1. /\ call' = [call EXCEPT ![c] = m] /\ Bound(m) /\ Fresh(m) /\ VerifyHybrid(m)
      /\ m.now = clock /\ clock \in Nat
      /\ UNCHANGED <<clock, issued, replay, accepted, took>>
  BY DEF VerifyPoP, GuardInvariant, TypeOK
<1>2. TypeOK'
  BY Zenon, <1>1 DEF GuardInvariant, TypeOK
<1>3. AcceptedOnce' /\ Authentic'
  BY Zenon, <1>1 DEF GuardInvariant, AcceptedOnce, Authentic
<1>4. ASSUME NEW q \in Proofs
      PROVE  EntrySigned(q)' /\ Remembered(q)'
  BY Zenon, <1>1 DEF GuardInvariant, EntrySigned, Remembered
<1>5. ASSUME NEW d \in Calls
      PROVE  CallChecked(d)'
  <2>1. CASE d = c
    <3>1. call'[d] = m
      BY Zenon, <1>1, <2>1 DEF GuardInvariant, TypeOK
    <3> QED
      BY <1>1, <3>1 DEF CallChecked, Bound, Fresh, VerifyHybrid
  <2>2. CASE d # c
    <3>1. call'[d] = call[d]
      BY Zenon, <1>1, <2>2 DEF GuardInvariant, TypeOK
    <3> QED
      BY Zenon, <1>1, <3>1 DEF GuardInvariant, CallChecked, Bound, Fresh, VerifyHybrid
  <2> QED
    BY Zenon, <2>1, <2>2
<1> QED
  BY Zenon, <1>2, <1>3, <1>4, <1>5 DEF GuardInvariant

\* The section under replayMu: a purged entry is older than any call under way
\* can find fresh, so a proof that is looked up and missing was never accepted.
LEMMA RecordStep ==
    ASSUME GuardInvariant, NEW c \in Calls, Record(c)
    PROVE  GuardInvariant'
<1> USE GuardAssumption
<1> DEFINE m == call[c]
           kept == Purged(m.now)
           p == m.proof
<1>1. /\ m \in Message /\ p \in Proofs /\ m.now \in Nat /\ m.created \in Nat /\ clock \in Nat
      /\ issued[p] # None /\ issued[p].created = m.created /\ m # None
      /\ issued[p].target = m.target /\ issued[p].envelope = m.envelope
      /\ m.now <= clock /\ clock <= m.now + MaxWait /\ m.now - m.created <= Skew
  BY DEF Record, GuardInvariant, TypeOK, Message, CallChecked, Bound, Fresh, VerifyHybrid
<1>2. Cutoff(m.now) \in Int /\ Cutoff(m.now) <= m.now - 2 * Skew
  <2>1. m.now - 2 * Skew \in Int
    BY <1>1
  <2> QED
    BY Zenon, <2>1, StampBound DEF Cutoff
<1>3. /\ kept \in [Proofs -> Nat \cup {None}]
      /\ \A q \in Proofs : kept[q] # None => kept[q] = replay[q]
      /\ \A q \in Proofs : replay[q] # None /\ kept[q] = None => replay[q] < Cutoff(m.now)
  BY Zenon DEF Purged, GuardInvariant, TypeOK
<1>4. \A q \in Proofs : accepted[q] > 0 =>
         kept[q] # None \/ issued[q].created < clock - 2 * Skew
  <2> SUFFICES ASSUME NEW q \in Proofs, accepted[q] > 0, kept[q] = None
               PROVE  issued[q].created < clock - 2 * Skew
    BY Zenon
  <2>1. CASE replay[q] = None
    BY Zenon, <2>1 DEF GuardInvariant, Remembered
  <2>2. CASE replay[q] # None
    <3>1. issued[q].created = replay[q] /\ replay[q] < Cutoff(m.now) /\ replay[q] \in Nat
      BY Zenon, <1>3, <2>2 DEF GuardInvariant, EntrySigned, TypeOK
    <3> QED
      BY <1>1, <1>2, <3>1
  <2> QED
    BY Zenon, <2>1, <2>2
<1>5. kept[p] = None => accepted[p] = 0
  <2>1. ~(issued[p].created < clock - 2 * Skew)
    BY <1>1
  <2>2. accepted[p] \in Nat
    BY Zenon, <1>1 DEF GuardInvariant, TypeOK
  <2> QED
    BY <1>1, <1>4, <2>1, <2>2
<1>6. /\ call' = [call EXCEPT ![c] = None] /\ UNCHANGED <<clock, issued>>
      /\ \/ /\ kept[p] = None
            /\ replay' = [kept EXCEPT ![p] = m.created]
            /\ accepted' = [accepted EXCEPT ![p] = @ + 1]
            /\ took' = took \cup {[proof |-> p, target |-> m.target, envelope |-> m.envelope]}
         \/ kept[p] # None /\ replay' = kept /\ UNCHANGED <<accepted, took>>
  BY Zenon DEF Record
<1>7. ASSUME NEW d \in Calls
      PROVE  CallChecked(d)'
  <2>1. call'[d] = None \/ call'[d] = call[d]
    BY Zenon, <1>6 DEF GuardInvariant, TypeOK
  <2> QED
    BY Zenon, <1>6, <2>1 DEF GuardInvariant, CallChecked, Bound, Fresh, VerifyHybrid
<1> HIDE DEF m, kept, p
<1>8. CASE kept[p] # None
  <2>1. replay' = kept /\ UNCHANGED <<accepted, took, clock, issued>>
    BY Zenon, <1>6, <1>8
  <2>2. TypeOK' /\ AcceptedOnce' /\ Authentic'
    BY Zenon, <1>3, <1>6, <2>1 DEF GuardInvariant, TypeOK, AcceptedOnce, Authentic
  <2>3. ASSUME NEW q \in Proofs
        PROVE  EntrySigned(q)' /\ Remembered(q)'
    BY Zenon, <1>3, <1>4, <2>1 DEF GuardInvariant, EntrySigned, Remembered
  <2> QED
    BY Zenon, <1>7, <2>2, <2>3 DEF GuardInvariant
<1>9. CASE kept[p] = None
  <2>1. /\ replay' = [kept EXCEPT ![p] = m.created]
        /\ accepted' = [accepted EXCEPT ![p] = @ + 1]
        /\ took' = took \cup {[proof |-> p, target |-> m.target, envelope |-> m.envelope]}
        /\ UNCHANGED <<clock, issued>>
    BY Zenon, <1>6, <1>9
  <2>2. m.target \in Targets /\ m.envelope \in Envelopes
    BY Zenon, <1>1 DEF Message
  <2>3. accepted' \in [Proofs -> Nat] /\ accepted'[p] = 1
        /\ \A q \in Proofs \ {p} : accepted'[q] = accepted[q]
    BY <1>1, <1>5, <1>9, <2>1 DEF GuardInvariant, TypeOK
  <2>4. TypeOK'
    BY <1>1, <1>3, <1>6, <2>1, <2>2, <2>3 DEF GuardInvariant, TypeOK
  <2>5. AcceptedOnce'
    BY <2>3 DEF GuardInvariant, AcceptedOnce
  <2>6. Authentic'
    BY <1>1, <2>1 DEF GuardInvariant, Authentic
  <2>7. ASSUME NEW q \in Proofs
        PROVE  EntrySigned(q)' /\ Remembered(q)'
    <3>1. CASE q = p
      <4>1. replay'[q] = m.created
        BY Zenon, <1>1, <1>3, <2>1, <3>1
      <4> QED
        BY Zenon, <1>1, <2>1, <3>1, <4>1 DEF EntrySigned, Remembered
    <3>2. CASE q # p
      <4>1. replay'[q] = kept[q] /\ accepted'[q] = accepted[q]
        BY Zenon, <1>3, <2>1, <2>3, <3>2
      <4> QED
        BY Zenon, <1>3, <1>4, <2>1, <4>1 DEF GuardInvariant, EntrySigned, Remembered
    <3> QED
      BY Zenon, <3>1, <3>2
  <2> QED
    BY Zenon, <1>7, <2>4, <2>5, <2>6, <2>7 DEF GuardInvariant
<1> QED
  BY Zenon, <1>8, <1>9

\* Time passing: no call waits longer than MaxWait, and an old proof stays old.
LEMMA TickStep ==
    ASSUME GuardInvariant, Tick
    PROVE  GuardInvariant'
<1> USE GuardAssumption
<1>1. clock \in Nat /\ clock' = clock + 1 /\ clock' \in 0..MaxTime
      /\ UNCHANGED <<issued, replay, call, accepted, took>>
  BY DEF Tick, GuardInvariant, TypeOK
<1>2. TypeOK' /\ AcceptedOnce' /\ Authentic'
  BY Zenon, <1>1 DEF GuardInvariant, TypeOK, AcceptedOnce, Authentic
<1>3. ASSUME NEW q \in Proofs
      PROVE  EntrySigned(q)' /\ Remembered(q)'
  <2>1. issued[q] # None => issued[q].created \in Nat
    BY Zenon DEF GuardInvariant, TypeOK, Statement
  <2> QED
    BY <1>1, <2>1 DEF GuardInvariant, EntrySigned, Remembered
<1>4. ASSUME NEW d \in Calls
      PROVE  CallChecked(d)'
  <2>1. call[d] # None => call[d].now \in Nat
    BY Zenon DEF GuardInvariant, TypeOK, Message
  <2> QED
    BY <1>1, <2>1 DEF Tick, GuardInvariant, CallChecked, Bound, Fresh, VerifyHybrid
<1> QED
  BY Zenon, <1>2, <1>3, <1>4 DEF GuardInvariant

\* GuardInvariant is inductive for the specification of VerifyPoP.
THEOREM GuardInductive == Spec => []GuardInvariant
<1>1. Init => GuardInvariant
  BY Zenon, GuardInit
<1>2. GuardInvariant /\ [Next]_vars => GuardInvariant'
  <2> SUFFICES ASSUME GuardInvariant, [Next]_vars
               PROVE  GuardInvariant'
    BY Zenon
  <2>1. ASSUME NEW p \in Proofs, NEW t \in Targets, NEW e \in Envelopes,
               NEW at \in 0..MaxTime, NewPoP(p, t, e, at)
        PROVE  GuardInvariant'
    BY Zenon, <2>1, NewPoPStep
  <2>2. ASSUME NEW c \in Calls, NEW p \in Proofs, NEW t \in Targets, NEW e \in Envelopes,
               NEW at \in 0..MaxTime,
               VerifyPoP(c, [proof |-> p, target |-> t, envelope |-> e, created |-> at,
                             now |-> clock])
        PROVE  GuardInvariant'
    <3>1. [proof |-> p, target |-> t, envelope |-> e, created |-> at, now |-> clock] \in Message
      BY GuardAssumption DEF GuardInvariant, TypeOK, Message
    <3> QED
      BY Zenon, <2>2, <3>1, VerifyStep
  <2>3. ASSUME NEW c \in Calls, Record(c)
        PROVE  GuardInvariant'
    BY Zenon, <2>3, RecordStep
  <2>4. CASE Restart
    BY <2>4, GuardAssumption
       DEF Restart, GuardInvariant, TypeOK, AcceptedOnce, Authentic, EntrySigned, Remembered,
           CallChecked
  <2>5. CASE Tick
    BY Zenon, <2>5, TickStep
  <2>6. CASE UNCHANGED vars
    BY Zenon, <2>6 DEF vars, GuardInvariant, TypeOK, AcceptedOnce, Authentic, EntrySigned, Remembered,
                CallChecked, Bound, Fresh, VerifyHybrid
  <2> QED
    BY Zenon, <2>1, <2>2, <2>3, <2>4, <2>5, <2>6 DEF Next
<1> QED
  BY <1>1, <1>2, PTL DEF Spec

\* No process accepts a proof twice (VerifyPoP, DPoPVerifier.Verify), as long as
\* the wait for the mutex is at most maxSkew.
THEOREM AcceptedAtMostOnce == Spec => []AcceptedOnce
<1>1. GuardInvariant => AcceptedOnce
  BY Zenon DEF GuardInvariant
<1> QED
  BY <1>1, GuardInductive, PTL

\* What VerifyPoP accepts was signed for that transport and that envelope.
THEOREM AcceptedIsAuthentic == Spec => []Authentic
<1>1. GuardInvariant => Authentic
  BY Zenon DEF GuardInvariant
<1> QED
  BY <1>1, GuardInductive, PTL

\* ReplayGuard keeps its types: time stamps in the table are never negative.
THEOREM GuardTypes == Spec => []TypeOK
<1>1. GuardInvariant => TypeOK
  BY Zenon DEF GuardInvariant
<1> QED
  BY <1>1, GuardInductive, PTL

-----------------------------------------------------------------------------
\* Session secrets.

\* Where a goroutine may be; Inside is the section that Secret.mu guards.
Places == {"idle", "lock", "seal", "open", "destroy", "sealing", "opening", "zeroed", "unlock"}
Inside == Places \ {"idle", "lock"}
Activity == [at : Places, secret : Session!Secrets \cup {None}, op : {"seal", "open", "destroy", None}]

SessionType ==
    /\ step \in [Session!Secrets -> {"start", "classical", "combined", "key", "done", "failed"}]
    /\ share \in [Session!Secrets -> Shares \cup {None}]
    /\ buf \in [Session!Secrets -> SUBSET {"classical", "pq", "combined", "key"}]
    /\ material \in [Session!Secrets -> Shares \cup {None, Zeros}]
    /\ destroyed \in [Session!Secrets -> BOOLEAN]
    /\ mu \in [Session!Secrets -> Users \cup {None}]
    /\ user \in [Users -> Activity]

\* A secret that exists holds its key until a goroutine in the section wipes it.
SecretOK(k) ==
    /\ step[k] \in {"done", "failed"} => buf[k] = {}
    /\ step[k] # "start" => share[k] \in Shares
    /\ destroyed[k] => material[k] = None /\ step[k] = "done"
    /\ step[k] = "done" /\ ~destroyed[k] =>
          material[k] = share[k] \/ \E u \in Users : user[u].at = "zeroed" /\ user[u].secret = k

\* A goroutine past Lock holds the mutex, and one that seals or opens does it
\* under the key.
UserOK(u) ==
    LET k == user[u].secret IN
    /\ user[u].at # "idle" => k \in Session!Secrets /\ step[k] = "done"
    /\ user[u].at \in Inside => mu[k] = u
    /\ user[u].at = "lock" => user[u].op \in {"seal", "open", "destroy"}
    /\ user[u].at \in {"seal", "open"} => user[u].op = user[u].at
    /\ user[u].at \in {"sealing", "opening"} => material[k] = share[k]

\* A ciphertext is under the key of a secret that was established.
TextOK(c) ==
    c.by \in Session!Secrets /\ step[c.by] = "done" /\ c.key = share[c.by] /\ c.key \in Shares
\* A successful Open used the key the ciphertext was sealed under, with its aad.
ReadOK(o) ==
    /\ o.secret \in Session!Secrets /\ o.by \in Session!Secrets /\ step[o.secret] = "done" /\ step[o.by] = "done"
    /\ share[o.secret] = share[o.by]
    /\ \E c \in wire : c.by = o.by /\ c.aad = o.aad

\* The inductive invariant: the mutex keeps Destroy out while a key is in use, so a
\* key that is in use is the one agreed.
SessionInvariant ==
    /\ SessionType
    /\ \A k \in Session!Secrets : SecretOK(k)
    /\ \A u \in Users : UserOK(u)
    /\ \A c \in wire : TextOK(c)
    /\ \A o \in opened : ReadOK(o)

\* Mutual exclusion: Use and Destroy of one secret never overlap.
LEMMA Exclusion ==
    ASSUME SessionInvariant, NEW u \in Users, NEW v \in Users, u # v,
           user[u].at \in Inside, user[v].at \in Inside
    PROVE  user[u].secret # user[v].secret
BY DEF SessionInvariant, UserOK

\* Where a goroutine is after a step that moves it.
LEMMA Moves ==
    ASSUME SessionInvariant, NEW u \in Users, NEW w \in Places, Session!At(u, w)
    PROVE  /\ user' \in [Users -> Activity]
           /\ user'[u].at = w /\ user'[u].secret = user[u].secret /\ user'[u].op = user[u].op
           /\ \A v \in Users \ {u} : user'[v] = user[v]
<1>1. user \in [Users -> Activity]
    BY Zenon DEF SessionInvariant, SessionType
<1>2. user' = [user EXCEPT ![u].at = w]
    BY Zenon DEF Session!At
<1>3. [user[u] EXCEPT !.at = w] \in Activity
    BY Zenon, <1>1 DEF Activity
<1>4. user'[u] = [user[u] EXCEPT !.at = w] /\ \A v \in Users \ {u} : user'[v] = user[v]
    BY Zenon, <1>1, <1>2
<1>5. user' \in [Users -> Activity]
    BY Zenon, <1>1, <1>2, <1>3
<1>6. user[u] \in Activity
    BY Zenon, <1>1
<1> QED BY Zenon, <1>3, <1>4, <1>5, <1>6 DEF Activity

\* A call of Establish or Accept goes on: only its own secret is concerned, which
\* does not exist yet.
LEMMA DerivationStep ==
    ASSUME SessionParameters, SessionInvariant, NEW k \in Session!Secrets, step[k] # "done",
           NEW st \in {"classical", "combined", "key", "failed"},
           NEW sh \in Shares, NEW b \in SUBSET {"classical", "pq", "combined", "key"},
           step' = [step EXCEPT ![k] = st], share' = [share EXCEPT ![k] = sh],
           buf' = [buf EXCEPT ![k] = b], st = "failed" => b = {},
           UNCHANGED Session!secretVars
    PROVE  SessionInvariant'
<1>1. /\ step'[k] = st /\ share'[k] = sh /\ buf'[k] = b
      /\ \A j \in Session!Secrets \ {k} : step'[j] = step[j] /\ share'[j] = share[j] /\ buf'[j] = buf[j]
    BY Zenon DEF SessionInvariant, SessionType
<1>2. SessionType'
    BY Zenon DEF SessionInvariant, SessionType, Session!secretVars
<1>3. ASSUME NEW j \in Session!Secrets PROVE SecretOK(j)'
  <2>1. SecretOK(j) /\ UNCHANGED <<material, destroyed, user>>
      BY Zenon DEF SessionInvariant, Session!secretVars
  <2>2. CASE j = k
      BY <1>1, <2>1, <2>2, Zenon DEF SecretOK
  <2>3. CASE j # k
      BY Zenon, <1>1, <2>1, <2>3 DEF SecretOK
  <2> QED BY Zenon, <2>2, <2>3
<1>4. \A j \in Session!Secrets : step[j] = "done" => j # k
    BY Zenon
<1>5. ASSUME NEW u \in Users PROVE UserOK(u)'
    BY <1>1, <1>4 DEF SessionInvariant, UserOK, Session!secretVars, Inside, Places
<1>6. ASSUME NEW c \in wire PROVE TextOK(c)'
    BY Zenon, <1>1, <1>4 DEF SessionInvariant, TextOK, Session!secretVars
<1>7. ASSUME NEW o \in opened PROVE ReadOK(o)'
    BY <1>1, <1>4 DEF SessionInvariant, ReadOK, Session!secretVars
<1> QED BY Zenon, <1>2, <1>3, <1>5, <1>6, <1>7 DEF SessionInvariant, Session!secretVars

\* The steps of Establish and Accept up to the key.
LEMMA AgreementStep ==
    ASSUME SessionParameters, SessionInvariant, NEW k \in Session!Secrets,
           \/ k \in Offers /\ Session!Establish(k)
           \/ \E x, c \in Offers \cup {Malformed} : Session!Accept(k, x, c)
           \/ Session!Encapsulate(k) \/ Session!Derive(k)
    PROVE  SessionInvariant'
<1>1. share[k] \in Shares \cup {None} /\ share \in [Session!Secrets -> Shares \cup {None}]
    BY Zenon DEF SessionInvariant, SessionType
<1>2. step[k] # "start" => share[k] \in Shares /\ share = [share EXCEPT ![k] = share[k]]
    BY Zenon, <1>1 DEF SessionInvariant, SecretOK
<1>3. ASSUME NEW sh \in Shares, NEW ok \in BOOLEAN, Session!Classical(k, sh, ok) PROVE SessionInvariant'
    BY <1>3, DerivationStep, Zenon DEF Session!Classical, Session!Return
<1>4. CASE k \in Offers /\ Session!Establish(k)
  <2>1. <<k, k>> \in Shares
      BY Zenon, <1>4 DEF Shares
  <2> QED BY Zenon, <1>3, <1>4, <2>1 DEF Session!Establish
<1>5. ASSUME NEW x \in Offers \cup {Malformed}, NEW c \in Offers \cup {Malformed}, Session!Accept(k, x, c)
      PROVE  SessionInvariant'
  <2>1. <<x, c>> \in Shares
      BY Zenon DEF Shares
  <2> QED BY <1>3, <1>5, <2>1, Zenon DEF Session!Accept
<1>6. CASE Session!Encapsulate(k)
  <2>1. PICK ok \in BOOLEAN :
           /\ buf' = [buf EXCEPT ![k] = IF ok THEN {"classical", "pq", "combined"} ELSE Session!Wiped]
           /\ Session!Return(k, IF ok THEN "combined" ELSE "failed")
      BY <1>6, Zenon DEF Session!Encapsulate
  <2> QED BY <1>2, <1>6, <2>1, DerivationStep, Zenon
             DEF Session!Encapsulate, Session!Return, Session!Wiped
<1>7. CASE Session!Derive(k)
  <2>1. PICK ok \in BOOLEAN :
           /\ buf' = [buf EXCEPT ![k] = IF ok THEN {"key"} ELSE Session!Wiped]
           /\ Session!Return(k, IF ok THEN "key" ELSE "failed")
      BY <1>7, Zenon DEF Session!Derive
  <2> QED BY <1>2, <1>7, <2>1, DerivationStep, Zenon
             DEF Session!Derive, Session!Return, Session!Wiped
<1> QED BY Zenon, <1>4, <1>5, <1>6, <1>7

\* newSecret: the secret exists, holds its key and nobody knows it yet.
LEMMA NewSecretStep ==
    ASSUME SessionParameters, SessionInvariant, NEW k \in Session!Secrets, Session!newSecret(k)
    PROVE  SessionInvariant'
<1>1. /\ step' = [step EXCEPT ![k] = "done"] /\ material' = [material EXCEPT ![k] = share[k]]
      /\ buf' = [buf EXCEPT ![k] = {}] /\ UNCHANGED <<share, destroyed, mu, user, wire, opened>>
      /\ step[k] = "key" /\ share[k] \in Shares
    BY Zenon DEF Session!newSecret, Session!Key, Session!Wiped, Session!Return, SessionInvariant,
           SecretOK
<1>2. /\ step'[k] = "done" /\ material'[k] = share[k] /\ buf'[k] = {}
      /\ \A j \in Session!Secrets \ {k} : step'[j] = step[j] /\ material'[j] = material[j] /\ buf'[j] = buf[j]
    BY Zenon, <1>1 DEF SessionInvariant, SessionType
<1>3. SessionType'
    BY Zenon, <1>1 DEF SessionInvariant, SessionType
<1>4. ASSUME NEW j \in Session!Secrets PROVE SecretOK(j)'
  <2>1. SecretOK(j)
      BY Zenon DEF SessionInvariant
  <2>2. CASE j = k
      BY Zenon, <1>1, <1>2, <2>1, <2>2 DEF SecretOK
  <2>3. CASE j # k
      BY Zenon, <1>1, <1>2, <2>1, <2>3 DEF SecretOK
  <2> QED BY Zenon, <2>2, <2>3
<1>5. \A j \in Session!Secrets : step[j] = "done" => j # k
    BY Zenon, <1>1
<1>6. ASSUME NEW u \in Users PROVE UserOK(u)'
    BY <1>1, <1>2, <1>5 DEF SessionInvariant, UserOK, Inside, Places
<1>7. ASSUME NEW c \in wire PROVE TextOK(c)'
    BY Zenon, <1>1, <1>2, <1>5 DEF SessionInvariant, TextOK
<1>8. ASSUME NEW o \in opened PROVE ReadOK(o)'
    BY Zenon, <1>1, <1>2, <1>5 DEF SessionInvariant, ReadOK
<1> QED BY Zenon, <1>1, <1>3, <1>4, <1>6, <1>7, <1>8 DEF SessionInvariant

\* A goroutine begins an operation, or gets the mutex that nobody holds.
LEMMA EntryStep ==
    ASSUME SessionParameters, SessionInvariant, NEW u \in Users,
           Session!Lock(u) \/ \E k \in Session!Secrets, op \in {"seal", "open", "destroy"} : Session!Call(u, k, op)
    PROVE  SessionInvariant'
<1>1. UNCHANGED <<step, share, buf, material, destroyed, wire, opened>>
    BY Zenon DEF Session!Lock, Session!Call, Session!callVars
<1>2. CASE Session!Lock(u)
  <2> DEFINE k == user[u].secret
  <2>1. /\ user[u].at = "lock" /\ mu[k] = None /\ mu' = [mu EXCEPT ![k] = u] /\ Session!At(u, user[u].op)
        /\ k \in Session!Secrets /\ step[k] = "done" /\ user[u].op \in {"seal", "open", "destroy"}
      BY Zenon, <1>2 DEF Session!Lock, Session!Locked, SessionInvariant, UserOK
  <2>2. /\ user' \in [Users -> Activity]
        /\ user'[u].at = user[u].op /\ user'[u].secret = k /\ user'[u].op = user[u].op
        /\ \A v \in Users \ {u} : user'[v] = user[v]
      BY Zenon, <2>1, Moves DEF Places
  <2> HIDE DEF k
  <2>3. mu' \in [Session!Secrets -> Users \cup {None}] /\ mu'[k] = u /\ \A j \in Session!Secrets \ {k} : mu'[j] = mu[j]
      BY Zenon, <2>1 DEF SessionInvariant, SessionType
  <2>4. ASSUME NEW v \in Users PROVE UserOK(v)'
    <3>1. CASE v = u
        BY Zenon, <1>1, <2>1, <2>2, <2>3, <3>1 DEF UserOK, Inside, Places
    <3>2. CASE v # u
      <4>1. UserOK(v) /\ user'[v] = user[v]
          BY Zenon, <2>2, <3>2 DEF SessionInvariant
      <4>2. user[v].at \in Inside => user[v].secret # k /\ user[v].secret \in Session!Secrets
          BY Zenon, <2>1, <4>1 DEF UserOK, SessionParameters, Inside, Places
      <4> QED BY Zenon, <1>1, <2>3, <4>1, <4>2 DEF UserOK
    <3> QED BY Zenon, <3>1, <3>2
  <2>5. \A v \in Users : user[v].at = "zeroed" => user'[v] = user[v]
      BY Zenon, <2>1, <2>2
  <2>6. ASSUME NEW j \in Session!Secrets PROVE SecretOK(j)'
      BY <1>1, <2>5 DEF SessionInvariant, SecretOK
  <2>7. SessionType'
      BY Zenon, <1>1, <2>2, <2>3 DEF SessionInvariant, SessionType
  <2> QED BY Zenon, <1>1, <2>4, <2>6, <2>7 DEF SessionInvariant, TextOK, ReadOK
<1>3. ASSUME NEW k \in Session!Secrets, NEW op \in {"seal", "open", "destroy"}, Session!Call(u, k, op)
      PROVE  SessionInvariant'
  <2> DEFINE a == [at |-> "lock", secret |-> k, op |-> op]
  <2>1. /\ user[u] = Session!Idle /\ step[k] = "done" /\ user' = [user EXCEPT ![u] = a] /\ mu' = mu
        /\ a \in Activity /\ a.at = "lock" /\ a.secret = k /\ a.op = op
      BY Zenon, <1>3 DEF Session!Call, Activity, Places
  <2> HIDE DEF a
  <2>2. /\ user' \in [Users -> Activity] /\ user'[u] = a
        /\ \A v \in Users \ {u} : user'[v] = user[v]
      BY Zenon, <2>1 DEF SessionInvariant, SessionType
  <2>3. ASSUME NEW v \in Users PROVE UserOK(v)'
    <3>1. CASE v = u
        BY Zenon, <1>1, <2>1, <2>2, <3>1 DEF UserOK, Inside, Places
    <3>2. CASE v # u
        BY Zenon, <1>1, <2>1, <2>2, <3>2 DEF SessionInvariant, UserOK
    <3> QED BY Zenon, <3>1, <3>2
  <2>4. \A v \in Users : user[v].at = "zeroed" => user'[v] = user[v]
      BY <2>1, <2>2 DEF Session!Idle
  <2>5. ASSUME NEW j \in Session!Secrets PROVE SecretOK(j)'
      BY <1>1, <2>4 DEF SessionInvariant, SecretOK
  <2>6. SessionType'
      BY Zenon, <1>1, <2>1, <2>2 DEF SessionInvariant, SessionType
  <2> QED BY Zenon, <1>1, <2>3, <2>5, <2>6 DEF SessionInvariant, TextOK, ReadOK
<1> QED BY Zenon, <1>2, <1>3

\* A goroutine in the section moves on and leaves the secret alone.
LEMMA SectionMove ==
    ASSUME SessionInvariant, NEW u \in Users, user[u].at \in Inside \ {"zeroed"},
           NEW w \in {"sealing", "opening", "unlock"}, Session!At(u, w),
           w # "unlock" => material[user[u].secret] = share[user[u].secret],
           UNCHANGED <<Session!callVars, material, destroyed, mu>>
    PROVE  SessionType' /\ (\A k \in Session!Secrets : SecretOK(k)') /\ \A v \in Users : UserOK(v)'
<1>1. /\ user' \in [Users -> Activity]
      /\ user'[u].at = w /\ user'[u].secret = user[u].secret /\ user'[u].op = user[u].op
      /\ \A v \in Users \ {u} : user'[v] = user[v]
    BY Zenon, Moves DEF Places
<1>2. SessionType'
    BY Zenon, <1>1 DEF SessionInvariant, SessionType, Session!callVars
<1>3. \A v \in Users : user[v].at = "zeroed" => user'[v] = user[v]
    BY Zenon, <1>1
<1>4. ASSUME NEW k \in Session!Secrets PROVE SecretOK(k)'
    BY <1>3 DEF SessionInvariant, SecretOK, Session!callVars
<1>5. ASSUME NEW v \in Users PROVE UserOK(v)'
  <2>1. UserOK(v)
      BY Zenon DEF SessionInvariant
  <2>2. CASE v = u
      BY Zenon, <1>1, <2>1, <2>2 DEF UserOK, Session!callVars, Inside, Places
  <2>3. CASE v # u
      BY Zenon, <1>1, <2>1, <2>3 DEF UserOK, Session!callVars
  <2> QED BY Zenon, <2>2, <2>3
<1> QED BY Zenon, <1>2, <1>4, <1>5

\* In the section, a secret that is not destroyed holds its key: no other
\* goroutine is between the two steps of Destroy.
LEMMA KeyInSection ==
    ASSUME SessionInvariant, NEW u \in Users, user[u].at \in Inside \ {"zeroed"},
           ~destroyed[user[u].secret]
    PROVE  material[user[u].secret] = share[user[u].secret]
<1> DEFINE k == user[u].secret
<1>1. k \in Session!Secrets /\ step[k] = "done"
    BY Zenon DEF SessionInvariant, UserOK, Inside, Places
<1>2. ~\E v \in Users : user[v].at = "zeroed" /\ user[v].secret = k
    BY Zenon, Exclusion DEF Inside, Places
<1> QED BY Zenon, <1>1, <1>2 DEF SessionInvariant, SecretOK

\* Use, Seal, Open and Unlock.
LEMMA SealOpenStep ==
    ASSUME SessionParameters, SessionInvariant, NEW u \in Users,
           \/ Session!Use(u) \/ Session!Short(u)
           \/ \E aad \in Labels : Session!Seal(u, aad) \/ \E c \in wire : Session!Open(u, c, aad)
    PROVE  SessionInvariant'
<1> DEFINE k == user[u].secret
<1>1. CASE Session!Use(u)
  <2>1. /\ user[u].at \in {"seal", "open"} /\ user[u].op = user[u].at
        /\ Session!At(u, IF destroyed[k] THEN "unlock" ELSE Session!Running[user[u].op])
        /\ UNCHANGED <<Session!callVars, material, destroyed, mu, wire, opened>>
      BY Zenon, <1>1 DEF Session!Use, SessionInvariant, UserOK
  <2>2. Session!Running[user[u].op] \in {"sealing", "opening"}
      BY <2>1 DEF Session!Running
  <2>3. SessionType' /\ (\A j \in Session!Secrets : SecretOK(j)') /\ \A v \in Users : UserOK(v)'
    <3>1. CASE destroyed[k]
        BY Zenon, <2>1, <3>1, SectionMove DEF Inside, Places
    <3>2. CASE ~destroyed[k]
        BY Zenon, <2>1, <2>2, <3>2, SectionMove, KeyInSection DEF Inside, Places
    <3> QED BY Zenon, <3>1, <3>2
  <2> QED BY Zenon, <2>1, <2>3 DEF SessionInvariant, TextOK, ReadOK, Session!callVars
<1>2. CASE Session!Short(u)
  <2>1. SessionType' /\ (\A j \in Session!Secrets : SecretOK(j)') /\ \A v \in Users : UserOK(v)'
      BY Zenon, <1>2, SectionMove DEF Session!Short, Inside, Places
  <2> QED BY Zenon, <1>2, <2>1 DEF Session!Short, SessionInvariant, TextOK, ReadOK, Session!callVars
<1>3. ASSUME NEW aad \in Labels, Session!Seal(u, aad) PROVE SessionInvariant'
  <2> DEFINE t == [key |-> material[k], aad |-> aad, by |-> k]
  <2>1. /\ user[u].at = "sealing" /\ wire' = wire \cup {t} /\ Session!At(u, "unlock")
        /\ UNCHANGED <<Session!callVars, material, destroyed, mu, opened>>
      BY Zenon, <1>3 DEF Session!Seal
  <2>2. SessionType' /\ (\A j \in Session!Secrets : SecretOK(j)') /\ \A v \in Users : UserOK(v)'
      BY Zenon, <2>1, SectionMove DEF Inside, Places
  <2>3. t.by \in Session!Secrets /\ step[t.by] = "done" /\ t.key = share[t.by] /\ t.key \in Shares
      BY Zenon, <2>1 DEF SessionInvariant, UserOK, SecretOK
  <2> HIDE DEF t
  <2>4. ASSUME NEW c \in wire' PROVE TextOK(c)'
      BY Zenon, <2>1, <2>3 DEF SessionInvariant, TextOK, Session!callVars
  <2>5. ASSUME NEW o \in opened PROVE ReadOK(o)'
      BY Zenon, <2>1 DEF SessionInvariant, ReadOK, Session!callVars
  <2> QED BY Zenon, <2>1, <2>2, <2>4, <2>5 DEF SessionInvariant
<1>4. ASSUME NEW aad \in Labels, NEW c \in wire, Session!Open(u, c, aad) PROVE SessionInvariant'
  <2> DEFINE r == [secret |-> k, by |-> c.by, aad |-> aad]
  <2>1. /\ user[u].at = "opening" /\ Session!At(u, "unlock")
        /\ UNCHANGED <<Session!callVars, material, destroyed, mu, wire>>
        /\ opened' = IF c.key = material[k] /\ c.aad = aad THEN opened \cup {r} ELSE opened
      BY Zenon, <1>4 DEF Session!Open
  <2>2. SessionType' /\ (\A j \in Session!Secrets : SecretOK(j)') /\ \A v \in Users : UserOK(v)'
      BY Zenon, <2>1, SectionMove DEF Inside, Places
  <2>3. r.secret = k /\ r.by = c.by /\ r.aad = aad
      BY Zenon
  <2>4. k \in Session!Secrets /\ step[k] = "done" /\ material[k] = share[k] /\ TextOK(c)
      BY Zenon, <2>1 DEF SessionInvariant, UserOK
  <2> HIDE DEF r
  <2>5. ASSUME NEW o \in opened' PROVE ReadOK(o)'
    <3>1. CASE o \in opened
        BY Zenon, <2>1, <3>1 DEF SessionInvariant, ReadOK, Session!callVars
    <3>2. CASE o = r /\ c.key = material[k] /\ c.aad = aad
        BY <2>1, <2>3, <2>4, <3>2, Zenon DEF ReadOK, TextOK, Session!callVars
    <3> QED BY Zenon, <2>1, <3>1, <3>2
  <2>6. ASSUME NEW d \in wire PROVE TextOK(d)'
      BY Zenon, <2>1 DEF SessionInvariant, TextOK, Session!callVars
  <2> QED BY Zenon, <2>1, <2>2, <2>5, <2>6 DEF SessionInvariant
<1> QED BY Zenon, <1>1, <1>2, <1>3, <1>4

\* The two steps of Destroy: no other goroutine is in the section of the secret.
LEMMA DestroyStep ==
    ASSUME SessionParameters, SessionInvariant, NEW u \in Users, Session!Zero(u) \/ Session!Destroy(u)
    PROVE  SessionInvariant'
<1>0. PICK k \in Session!Secrets : k = user[u].secret
    BY Zenon DEF Session!Zero, Session!Destroy, SessionInvariant, UserOK
<1>1. /\ UNCHANGED <<step, share, buf, mu, wire, opened>> /\ user[u].at \in {"destroy", "zeroed"}
      /\ k \in Session!Secrets /\ step[k] = "done" /\ mu[k] = u
    BY Zenon, <1>0
       DEF Session!Zero, Session!Destroy, Session!callVars, SessionInvariant, UserOK, Inside,
           Places
<1>2. PICK w \in {"zeroed", "unlock"} : Session!At(u, w) /\ (w = "zeroed" => user[u].at = "destroy")
    BY Zenon DEF Session!Zero, Session!Destroy
<1>3. /\ user' \in [Users -> Activity]
      /\ user'[u].at = w /\ user'[u].secret = k /\ user'[u].op = user[u].op
      /\ \A v \in Users \ {u} : user'[v] = user[v]
    BY Zenon, <1>0, <1>2, Moves DEF Places
<1>4. /\ material' \in [Session!Secrets -> Shares \cup {None, Zeros}] /\ destroyed' \in [Session!Secrets -> BOOLEAN]
      /\ \A j \in Session!Secrets \ {k} : material'[j] = material[j] /\ destroyed'[j] = destroyed[j]
    BY <1>0, Zenon DEF Session!Zero, Session!Destroy, SessionInvariant, SessionType
<1>5. SessionType'
    BY Zenon, <1>1, <1>3, <1>4 DEF SessionInvariant, SessionType
<1>6. ASSUME NEW v \in Users PROVE UserOK(v)'
  <2>1. CASE v = u
      BY Zenon, <1>1, <1>3, <2>1 DEF UserOK, Inside, Places
  <2>2. CASE v # u
    <3>1. UserOK(v) /\ user'[v] = user[v]
        BY Zenon, <1>3, <2>2 DEF SessionInvariant
    <3>2. user[v].at \in Inside => user[v].secret \in Session!Secrets \ {k}
        BY Zenon, <1>0, <1>1, <2>2, <3>1, Exclusion DEF UserOK, Inside, Places
    <3> QED BY Zenon, <1>1, <1>4, <3>1, <3>2 DEF UserOK, Inside, Places
  <2> QED BY Zenon, <2>1, <2>2
<1>7. SecretOK(k)'
  <2>1. SecretOK(k)
      BY Zenon, <1>1 DEF SessionInvariant
  <2>2. CASE Session!Destroy(u)
    <3>1. destroyed'[k] = TRUE /\ material'[k] = None
        BY Zenon, <1>0, <1>1, <2>2 DEF Session!Destroy, SessionInvariant, SessionType
    <3>2. step'[k] = "done" /\ buf'[k] = {} /\ share'[k] \in Shares
        BY Zenon, <1>1, <2>1 DEF SecretOK
    <3> QED BY Zenon, <3>1, <3>2 DEF SecretOK
  <2>3. CASE Session!Zero(u) /\ destroyed[k]
    <3>1. UNCHANGED <<material, destroyed>>
        BY Zenon, <1>0, <2>3 DEF Session!Zero
    <3> QED BY Zenon, <1>1, <2>1, <2>3, <3>1 DEF SecretOK
  <2>4. CASE Session!Zero(u) /\ ~destroyed[k]
    <3>1. Session!At(u, "zeroed") /\ destroyed' = destroyed
        BY Zenon, <1>0, <2>4 DEF Session!Zero
    <3>2. user'[u].at = "zeroed" /\ user'[u].secret = k
        BY Zenon, <1>0, <3>1, Moves DEF Places
    <3> QED BY Zenon, <1>1, <2>1, <2>4, <3>1, <3>2 DEF SecretOK
  <2> QED BY Zenon, <2>2, <2>3, <2>4
<1>8. ASSUME NEW j \in Session!Secrets \ {k} PROVE SecretOK(j)'
  <2>1. \A v \in Users : user[v].secret = j => user'[v] = user[v]
      BY Zenon, <1>0, <1>3
  <2>2. SecretOK(j)
      BY Zenon DEF SessionInvariant
  <2> QED BY Zenon, <1>1, <1>4, <2>1, <2>2 DEF SecretOK
<1> QED BY Zenon, <1>1, <1>5, <1>6, <1>7, <1>8 DEF SessionInvariant, TextOK, ReadOK

\* The mutex is released by the goroutine that holds it.
LEMMA UnlockStep ==
    ASSUME SessionParameters, SessionInvariant, NEW u \in Users, Session!Unlock(u)
    PROVE  SessionInvariant'
<1> DEFINE k == user[u].secret
<1>1. /\ user[u].at = "unlock" /\ mu' = [mu EXCEPT ![k] = None] /\ user' = [user EXCEPT ![u] = Session!Idle]
      /\ UNCHANGED <<step, share, buf, material, destroyed, wire, opened>> /\ k \in Session!Secrets
    BY Zenon DEF Session!Unlock, Session!callVars, SessionInvariant, UserOK
<1>2. /\ Session!Idle \in Activity /\ Session!Idle.at = "idle"
    BY Zenon DEF Session!Idle, Activity, Places
<1>3. /\ user' \in [Users -> Activity] /\ user'[u] = Session!Idle /\ \A v \in Users \ {u} : user'[v] = user[v]
      /\ mu' \in [Session!Secrets -> Users \cup {None}] /\ \A j \in Session!Secrets \ {k} : mu'[j] = mu[j]
    BY Zenon, <1>1, <1>2 DEF SessionInvariant, SessionType
<1>4. ASSUME NEW v \in Users PROVE UserOK(v)'
  <2>1. CASE v = u
      BY Zenon, <1>2, <1>3, <2>1 DEF UserOK, Inside, Places
  <2>2. CASE v # u
    <3>1. UserOK(v) /\ user'[v] = user[v]
        BY Zenon, <1>3, <2>2 DEF SessionInvariant
    <3>2. user[v].at \in Inside => user[v].secret \in Session!Secrets \ {k}
        BY Zenon, <1>1, <2>2, <3>1, Exclusion DEF UserOK, Inside, Places
    <3> QED BY Zenon, <1>1, <1>3, <3>1, <3>2 DEF UserOK
  <2> QED BY Zenon, <2>1, <2>2
<1>5. \A v \in Users : user[v].at = "zeroed" => user'[v] = user[v]
    BY Zenon, <1>1, <1>3
<1>6. ASSUME NEW j \in Session!Secrets PROVE SecretOK(j)'
    BY <1>1, <1>5 DEF SessionInvariant, SecretOK
<1>7. SessionType'
    BY Zenon, <1>1, <1>3 DEF SessionInvariant, SessionType
<1> QED BY Zenon, <1>1, <1>4, <1>6, <1>7 DEF SessionInvariant, TextOK, ReadOK

\* For any offers, goroutines and labels: key material is where it should be.
THEOREM SecretsStayFaithful == Session!Spec => []SecretsFaithful
<1> SessionParameters
    BY Zenon, SessionAssumption
<1>1. Session!Init => SessionInvariant
  <2> SUFFICES ASSUME Session!Init PROVE SessionInvariant
      BY Zenon
  <2>1. Session!Idle \in Activity /\ Session!Idle.at = "idle"
      BY Zenon DEF Session!Idle, Activity, Places
  <2>2. SessionType
      BY Zenon, <2>1 DEF Session!Init, SessionType
  <2>3. ASSUME NEW u \in Users PROVE UserOK(u)
    <3>1. user[u].at = "idle"
        BY Zenon, <2>1 DEF Session!Init
    <3> QED BY Zenon, <3>1 DEF UserOK, Inside, Places
  <2>4. ASSUME NEW k \in Session!Secrets PROVE SecretOK(k)
      BY Zenon DEF Session!Init, SecretOK
  <2> QED BY Zenon, <2>2, <2>3, <2>4 DEF Session!Init, SessionInvariant
<1>2. SessionInvariant /\ [Session!Next]_Session!vars => SessionInvariant'
  <2> SUFFICES ASSUME SessionInvariant, [Session!Next]_Session!vars PROVE SessionInvariant'
      BY Zenon
  <2>1. CASE UNCHANGED Session!vars
    <3>1. /\ UNCHANGED <<step, share, buf, material, destroyed>>
          /\ UNCHANGED <<mu, user, wire, opened>>
        BY Zenon, <2>1 DEF Session!vars
    <3>2. SessionType'
        BY Zenon, <3>1 DEF SessionInvariant, SessionType
    <3>3. /\ \A k \in Session!Secrets : SecretOK(k)' = SecretOK(k)
          /\ \A u \in Users : UserOK(u)' = UserOK(u)
        BY Zenon, <3>1 DEF SecretOK, UserOK
    <3> QED BY Zenon, <3>1, <3>2, <3>3 DEF SessionInvariant, TextOK, ReadOK
  <2>2. ASSUME NEW k \in Offers, Session!Establish(k) PROVE SessionInvariant'
      BY Zenon, <2>2, AgreementStep DEF Session!Secrets
  <2>3. ASSUME NEW k \in Accepts, NEW x \in Offers \cup {Malformed},
               NEW c \in Offers \cup {Malformed}, Session!Accept(k, x, c)
        PROVE  SessionInvariant'
      BY Zenon, <2>3, AgreementStep DEF Session!Secrets
  <2>4. ASSUME NEW k \in Session!Secrets, Session!Encapsulate(k) \/ Session!Derive(k) \/ Session!newSecret(k)
        PROVE  SessionInvariant'
      BY Zenon, <2>4, AgreementStep, NewSecretStep
  <2>5. ASSUME NEW u \in Users, Session!Operation(u) PROVE SessionInvariant'
      BY Zenon, <2>5, SealOpenStep, DestroyStep, UnlockStep DEF Session!Operation
  <2> QED BY Zenon, <2>1, <2>2, <2>3, <2>4, <2>5, EntryStep DEF Session!Next
<1>3. SessionInvariant => SecretsFaithful
  <2> SUFFICES ASSUME SessionInvariant PROVE SecretsFaithful
      BY Zenon
  <2>1. Session!TypeOK
      BY Zenon DEF SessionInvariant, SessionType, SecretOK, Session!TypeOK
  <2>2. Session!NoResidue
      BY Zenon DEF SessionInvariant, SecretOK, Session!NoResidue
  <2>3. Session!NeverZeroKey
      BY Zenon DEF SessionInvariant, SessionParameters, TextOK, Session!NeverZeroKey
  <2>4. Session!OpenedFaithful
      BY Zenon DEF SessionInvariant, ReadOK, Session!OpenedFaithful
  <2> QED BY Zenon, <2>1, <2>2, <2>3, <2>4 DEF SecretsFaithful, Session!SecretsFaithful
<1> QED BY <1>1, <1>2, <1>3, PTL DEF Session!Spec
=============================================================================
