--------------------------- MODULE MCControlStore ---------------------------
(* Small instances of ControlStore for TLC. *)
EXTENDS ControlStore, TLC

CONSTANTS w1, w2

\* Two ids and two keys in every combination: republication, one key under two
\* ids, one id under two keys.  Event 2 is older than event 1.
MCEnvelopes ==
    {[id |-> 1, key |-> "k1", created |-> 5], [id |-> 2, key |-> "k1", created |-> 4],
     [id |-> 2, key |-> "k2", created |-> 4]}

WorkerSymmetry == Permutations({w1, w2})
=============================================================================
