--------------------------- MODULE CryptoProvider ---------------------------
(***************************************************************************)
(* The two stateful parts of the CryptoProvider: the replay table          *)
(* (ReplayGuard) and the session secrets (HybridSession).  They share no   *)
(* state: a behaviour is one of a single part, named by the variable part, *)
(* and the other stays as it starts.                                       *)
(***************************************************************************)
EXTENDS ReplayGuard, FiniteSets

CONSTANTS Offers, Accepts, Users, Labels, Malformed, Zeros,
          MaxTexts   \* bound: ciphertexts on the wire

VARIABLES part, step, share, buf, material, destroyed, mu, user, wire, opened

\* The shares a call may have; a key is a pair of them, which is neither None nor
\* a run of zeros.
Shares == (Offers \cup {Malformed}) \X (Offers \cup {Malformed})
SessionParameters == None \notin Users /\ None \notin Shares /\ Zeros \notin Shares

ASSUME SessionAssumption == SessionParameters

Session == INSTANCE HybridSession

sessionPart == <<step, share, buf, material, destroyed, mu, user, wire, opened>>
CryptoVars == <<part, vars, sessionPart>>

CryptoInit == part \in {"guard", "session"} /\ Init /\ Session!Init

CryptoNext ==
    /\ UNCHANGED part
    /\ \/ part = "guard" /\ Next /\ UNCHANGED sessionPart
       \/ part = "session" /\ Session!Next /\ Cardinality(wire') <= MaxTexts /\ UNCHANGED vars

CryptoSpec == CryptoInit /\ [][CryptoNext]_CryptoVars

-----------------------------------------------------------------------------
\* Key material is where it should be and nowhere else: when Establish or Accept
\* has returned, with a secret or by any of its error returns, none of its
\* intermediate buffers holds any; a destroyed secret holds no bytes; Seal never
\* encrypts under the wiped bytes of a secret that another goroutine is destroying
\* (Secret.Use, Secret.Destroy); and a text that Open returns was sealed under the
\* same aad with a secret that has both of the reader's shares.
SecretsFaithful == Session!SecretsFaithful
=============================================================================
