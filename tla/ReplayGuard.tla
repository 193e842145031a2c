---------------------------- MODULE ReplayGuard ----------------------------
(***************************************************************************)
(* Proof of possession in the Go daemon: NewPoP signs an envelope for one  *)
(* transport, VerifyPoP (crypto.go) accepts the proof while it is fresh    *)
(* and has not been seen, and forgets nonces by their age.  The DPoP       *)
(* verifier of the HTTP boundary (dpop.go) has the same steps, with an     *)
(* issue time in whole seconds: Grain is the unit of the time stamp in     *)
(* units of the clock.                                                     *)
(*                                                                         *)
(* Messages arrive late, twice, on another transport or damaged, and many  *)
(* goroutines verify at once.  A signature is symbolic: it matches exactly *)
(* what was signed.                                                        *)
(***************************************************************************)
EXTENDS Integers

CONSTANTS Proofs,     \* holder and nonce of a proof
          Targets,    \* transports (method and target of the proof)
          Envelopes,
          Calls,      \* goroutines inside VerifyPoP
          None,
          Skew,       \* maxSkew
          Grain,
          MaxWait,    \* how long a goroutine may wait for replayMu
          MaxTime     \* bound: the last instant of the clock

\* The wait for the mutex must not exceed the skew: see AcceptedOnce.
ASSUME GuardAssumption ==
    /\ Skew \in Nat /\ Grain \in Nat \ {0} /\ MaxTime \in Nat
    /\ MaxWait \in 0..Skew
    /\ None \notin Nat /\ None \notin Proofs

VARIABLES
    clock,
    issued,    \* per proof, what its holder signed, or None
    replay,    \* the replay table: per proof its time stamp, or None
    call,      \* per goroutine, what it verifies: it has yet to lock the table
    accepted,  \* how often VerifyPoP accepted each proof since the start
    took       \* what it accepted: the proof with the transport and envelope

vars == <<clock, issued, replay, call, accepted, took>>

Statement == [target : Targets, envelope : Envelopes, created : Nat]
Message == [proof : Proofs, target : Targets, envelope : Envelopes, created : Nat, now : Nat]

Init ==
    /\ clock = 0
    /\ issued = [p \in Proofs |-> None]
    /\ replay = [p \in Proofs |-> None]
    /\ call = [c \in Calls |-> None]
    /\ accepted = [p \in Proofs |-> 0]
    /\ took = {}

\* A time stamp counts whole units.
Stamp(t) == t - (t % Grain)

-----------------------------------------------------------------------------
\* The holder's clock is not the verifier's: at is any instant.
NewPoP(p, t, e, at) ==
    /\ issued[p] = None
    /\ issued' = [issued EXCEPT ![p] = [target |-> t, envelope |-> e, created |-> Stamp(at)]]
    /\ UNCHANGED <<clock, replay, call, accepted, took>>

\* Both signatures cover holder, nonce, time stamp, target and envelope hash.
VerifyHybrid(m) ==
    /\ issued[m.proof] # None
    /\ issued[m.proof].envelope = m.envelope /\ issued[m.proof].created = m.created

\* The proof names the transport it arrives on.
AnyTarget(m) == issued[m.proof] # None
Bound(m) == issued[m.proof] # None /\ issued[m.proof].target = m.target

Fresh(m) == m.now - m.created <= Skew /\ m.created - m.now <= Skew

\* The checks before the lock, with the instant the caller read.
VerifyPoP(c, m) ==
    /\ call[c] = None
    /\ m.now = clock
    /\ Bound(m) /\ Fresh(m) /\ VerifyHybrid(m)
    /\ call' = [call EXCEPT ![c] = m]
    /\ UNCHANGED <<clock, issued, replay, accepted, took>>

\* The section under replayMu: old entries go, then the proof is looked up and
\* entered.
HalfWindow(now) == Stamp(now - Skew + 1)
Cutoff(now) == Stamp(now - 2 * Skew)
Purged(now) == [p \in Proofs |->
    IF replay[p] # None /\ replay[p] < Cutoff(now) THEN None ELSE replay[p]]

Record(c) ==
    /\ call[c] # None
    /\ LET m == call[c]
           kept == Purged(m.now)
       IN  IF kept[m.proof] = None
           THEN /\ replay' = [kept EXCEPT ![m.proof] = m.created]
                /\ accepted' = [accepted EXCEPT ![m.proof] = @ + 1]
                /\ took' = took \cup {[proof |-> m.proof, target |-> m.target,
                                       envelope |-> m.envelope]}
           ELSE replay' = kept /\ UNCHANGED <<accepted, took>>
    /\ call' = [call EXCEPT ![c] = None]
    /\ UNCHANGED <<clock, issued>>

\* A new process starts with an empty table.
Restart ==
    /\ replay' = [p \in Proofs |-> None]
    /\ call' = [c \in Calls |-> None]
    /\ accepted' = [p \in Proofs |-> 0]
    /\ UNCHANGED <<clock, issued, took>>

Tick ==
    /\ clock < MaxTime
    /\ \A c \in Calls : call[c] # None => clock < call[c].now + MaxWait
    /\ clock' = clock + 1
    /\ UNCHANGED <<issued, replay, call, accepted, took>>

Next ==
    \/ \E p \in Proofs, t \in Targets, e \in Envelopes, at \in 0..MaxTime : NewPoP(p, t, e, at)
    \/ \E c \in Calls, p \in Proofs, t \in Targets, e \in Envelopes, at \in 0..MaxTime :
         VerifyPoP(c, [proof |-> p, target |-> t, envelope |-> e, created |-> at,
                       now |-> clock])
    \/ \E c \in Calls : Record(c)
    \/ Restart \/ Tick

Spec == Init /\ [][Next]_vars

-----------------------------------------------------------------------------
\* Every variable holds a value of its type.
TypeOK ==
    /\ clock \in 0..MaxTime
    /\ issued \in [Proofs -> Statement \cup {None}]
    /\ replay \in [Proofs -> Nat \cup {None}]
    /\ call \in [Calls -> Message \cup {None}]
    /\ accepted \in [Proofs -> Nat]
    /\ took \subseteq [proof : Proofs, target : Targets, envelope : Envelopes]

\* A process accepts a proof at most once, however often and late the message
\* arrives and however many goroutines verify it: an entry is purged from the
\* table only when no call still under way can find its proof fresh.  This is
\* where the window of 2 * maxSkew in VerifyPoP is needed, and why the wait for
\* the mutex must not exceed maxSkew.
AcceptedOnce == \A p \in Proofs : accepted[p] <= 1

\* What was accepted was signed by its holder for that transport and for that
\* envelope, whatever arrived (VerifyPoP: binding, hash and signature checks).
Authentic ==
    \A a \in took :
        issued[a.proof] # None /\ issued[a.proof].target = a.target
                               /\ issued[a.proof].envelope = a.envelope

-----------------------------------------------------------------------------
\* The inductive invariant behind AcceptedOnce: the table holds the signed time
\* stamps, an accepted proof is in the table or older than the window, and a
\* call under way passed its checks at most MaxWait ago.
EntrySigned(p) ==
    replay[p] # None => issued[p] # None /\ replay[p] = issued[p].created
Remembered(p) ==
    accepted[p] > 0 =>
        issued[p] # None /\ (replay[p] # None \/ issued[p].created < clock - 2 * Skew)
CallChecked(c) ==
    call[c] # None =>
        /\ call[c].now <= clock /\ clock <= call[c].now + MaxWait
        /\ Bound(call[c]) /\ Fresh(call[c]) /\ VerifyHybrid(call[c])
GuardInvariant ==
    /\ TypeOK /\ AcceptedOnce /\ Authentic
    /\ \A p \in Proofs : EntrySigned(p) /\ Remembered(p)
    /\ \A c \in Calls : CallChecked(c)
=============================================================================
