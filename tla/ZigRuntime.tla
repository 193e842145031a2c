----------------------------- MODULE ZigRuntime -----------------------------
(***************************************************************************)
(* Parts of the Zig runtime: the lock table (LeaseLock), membership with   *)
(* the replica queue and the migration (ClusterAuthority), streams         *)
(* (ResumableStream), the replay window and idempotency table              *)
(* (ReplayWindow), the transport registry (TransportHealth) and the        *)
(* semantic queue (SemanticQueue).  They share no state: a behaviour is    *)
(* one of a single part, named by the variable part, and the others stay   *)
(* as they start.                                                          *)
(***************************************************************************)
EXTENDS LeaseLock

CONSTANTS Nodes, Events, QueueCapacity, MaxChanges,
          MaxItems, MaxResumes,
          Nonces, WindowCapacity, TableCapacity, TTLs, Absent,
          Kinds, Late, MaxPending,
          ItemCapacity, LeaseLength, MaxAttempts, MaxHeld

VARIABLES part,
          members, epoch, fence_generation, view, expelled, losses, replicated, migration,
          accepted_sequence, stream, times, wire, sent, resumes,
          window, barred, records, working, done,
          health, allowed, pending,
          items, held, priority

Authority == INSTANCE ClusterAuthority WITH Capacity <- QueueCapacity, entries <- replicated
Stream == INSTANCE ResumableStream WITH state <- stream
Window == INSTANCE ReplayWindow WITH Capacity <- WindowCapacity, entries <- window
Transports == INSTANCE TransportHealth WITH state <- health
Semantic == INSTANCE SemanticQueue WITH Capacity <- ItemCapacity

\* The limits are numbers, and Absent is neither a key nor an outcome.
StreamParameters == MaxItems \in Nat /\ MaxResumes \in Nat
WindowParameters ==
    /\ TTLs \subseteq Nat
    /\ Absent \notin Keys \cup Window!Outcomes \cup {"dispatched"}
QueueParameters ==
    ItemCapacity \in Nat /\ LeaseLength \in Nat /\ MaxAttempts \in Nat /\ MaxHeld \in Nat

ASSUME RuntimeAssumption == StreamParameters /\ WindowParameters /\ QueueParameters

authorityPart ==
    <<members, epoch, fence_generation, view, expelled, losses, replicated, migration>>
streamPart == <<accepted_sequence, stream, times, wire, sent, resumes>>
windowPart == <<window, barred, records, working, done>>
healthPart == <<health, allowed, pending>>
queuePart == <<items, held, priority>>
RuntimeVars ==
    <<part, vars, authorityPart, streamPart, windowPart, healthPart, queuePart>>

RuntimeInit ==
    /\ Init /\ Authority!Init /\ Stream!Init /\ Window!Init /\ Transports!Init
    /\ Semantic!Init
    /\ part # "queue" => ~priority

RuntimeNext ==
    /\ UNCHANGED part
    /\ part # "lock" => UNCHANGED vars
    /\ part # "authority" => UNCHANGED authorityPart
    /\ part # "stream" => UNCHANGED streamPart
    /\ part # "window" => UNCHANGED windowPart
    /\ part # "health" => UNCHANGED healthPart
    /\ part # "queue" => UNCHANGED queuePart
    /\ \/ part = "lock" /\ Next
       \/ part = "authority" /\ Authority!Next
       \/ part = "stream" /\ Stream!Next
       \/ part = "window" /\ Window!Next
       \/ part = "health" /\ Transports!Next
       \/ part = "queue" /\ Semantic!Next

RuntimeSpec == RuntimeInit /\ [][RuntimeNext]_RuntimeVars

-----------------------------------------------------------------------------
\* What was started before a member was lost or the fence advanced is void: the
\* member does not pass validateWrite with the generation it knew, also after it
\* has come back; no replica record is delivered or applied (validateAuthority);
\* and a migration cuts over only with a checkpoint and under the membership and
\* fence it was planned with.
LostAuthorityVoid == Authority!LostAuthorityVoid

\* What has been taken is not taken again: the receiver of a stream has accepted
\* every item up to accepted_sequence, whatever is lost, repeated or resumed, and
\* one again only because of a resumption (accept, resumeFrom); the replay window
\* never accepts a nonce again within the lifetime it was accepted for, also when
\* its array is full and entries are reused; and once an outcome is settled for an
\* idempotency key, no worker is sent off to run its operation (begin).
TakenOnce ==
    /\ [](Stream!NoGap /\ Stream!RepeatsNeedResume)
    /\ [][Window!AcceptsUnbarred /\ Window!DispatchesUndone]_Window!vars

\* "disabled transports do not start": a transport that the configuration leaves
\* out is neither starting nor healthy, when no publication was under way at the
\* time of initialize.
DisabledDoesNotStart == Transports!DisabledDoesNotStart

\* The tables keep within their limits: there are never more locks or items than
\* fit, no lock has the generation zero, also when the counter wraps (acquire), and
\* an item is handed out once more than max_attempts and then never (next).
LimitsKept == TypeOK /\ Semantic!TypeOK
=============================================================================
