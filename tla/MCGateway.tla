----------------------------- MODULE MCGateway -----------------------------
(* Small instances of Gateway for TLC. *)
EXTENDS Gateway

CONSTANTS e1, e2, e3, t1, t2

MCConfigs == {{t1, t2}, {t1}}
=============================================================================
