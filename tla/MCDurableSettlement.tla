------------------------ MODULE MCDurableSettlement ------------------------
(* Small instances of DurableSettlement for TLC. *)
EXTENDS DurableSettlement

Message(e, k) == [event |-> e, key |-> k]

\* Two events under one idempotency key, and one of its own.
MCRepublished == {Message("e1", "k1"), Message("e2", "k1"), Message("e3", "k2")}

\* Unrelated messages.
MCDistinct == {Message("e1", "k1"), Message("e2", "k2")}

\* One event id used again with another key.
MCReusedId == {Message("e1", "k1"), Message("e1", "k2")}
=============================================================================
