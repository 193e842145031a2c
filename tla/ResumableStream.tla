--------------------------- MODULE ResumableStream ---------------------------
(***************************************************************************)
(* Stream of contracts.zig between a sender and a receiver: items carry    *)
(* sequence numbers, the network may delay, repeat and lose them, and      *)
(* after an interruption the peers agree on a number to resume from.       *)
(* Nothing in the code enters the states cancelled and failed.             *)
(***************************************************************************)
EXTENDS Naturals, FiniteSets

CONSTANTS MaxItems,   \* bound: items of the stream
          MaxResumes  \* bound: resumptions

VARIABLES accepted_sequence, state, times, wire, sent, resumes

vars == <<accepted_sequence, state, times, wire, sent, resumes>>

Init ==
    /\ accepted_sequence = 0 /\ state = "open"
    /\ times = [i \in 1..MaxItems |-> 0]   \* how often each item was accepted
    /\ wire = {} /\ sent = 0 /\ resumes = 0

\* The sender sends items in order, and again from where the stream resumes.
Send ==
    /\ sent < MaxItems
    /\ sent' = sent + 1 /\ wire' = wire \cup {sent + 1}
    /\ UNCHANGED <<accepted_sequence, state, times, resumes>>

Lose(i) ==
    /\ i \in wire /\ wire' = wire \ {i}
    /\ UNCHANGED <<accepted_sequence, state, times, sent, resumes>>

Expected(sequence) == sequence = accepted_sequence + 1
accept(sequence) ==
    /\ sequence \in wire
    /\ state \in {"open", "paused"} /\ Expected(sequence)
    /\ accepted_sequence' = sequence
    /\ times' = [times EXCEPT ![sequence] = times[sequence] + 1]
    /\ UNCHANGED <<state, wire, sent, resumes>>

Resumable(last) == state \notin {"ended", "cancelled"} /\ last <= accepted_sequence
resumeFrom(last) ==
    /\ resumes < MaxResumes /\ Resumable(last)
    /\ accepted_sequence' = last /\ state' = "open"
    /\ sent' = last /\ resumes' = resumes + 1
    /\ UNCHANGED <<times, wire>>

pause ==
    /\ state = "open" /\ state' = "paused"
    /\ UNCHANGED <<accepted_sequence, times, wire, sent, resumes>>

end ==
    /\ state \notin {"cancelled", "failed"} /\ state' = "ended"
    /\ UNCHANGED <<accepted_sequence, times, wire, sent, resumes>>

Next ==
    \/ Send \/ pause \/ end
    \/ \E i \in 1..MaxItems : Lose(i) \/ accept(i)
    \/ \E last \in 0..MaxItems : resumeFrom(last)

Spec == Init /\ [][Next]_vars

-----------------------------------------------------------------------------
\* Whatever is lost, repeated or resumed, the receiver has accepted every item
\* up to accepted_sequence: a resumption leaves no gap.
NoGap == \A i \in 1..accepted_sequence : times[i] > 0

\* An item is accepted again only because of a resumption.
RepeatsNeedResume == \A i \in 1..MaxItems : times[i] <= 1 + resumes
=============================================================================
