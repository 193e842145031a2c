--------------------------- MODULE HybridSession ---------------------------
(***************************************************************************)
(* Session secrets of the Go runtime (crypto.go).  Establish and Accept    *)
(* derive a key from an X25519 and an ML-KEM share, wiping every           *)
(* intermediate buffer; Secret hands the key to Seal and Open under a      *)
(* mutex until Destroy wipes it.                                           *)
(*                                                                         *)
(* Cryptography is symbolic.  The share of Establish call s is s itself; an *)
(* offer may arrive damaged (Malformed), or with the shares of two offers. *)
(* ML-KEM never reports a wrong ciphertext of the right size: it yields    *)
(* another share, and so another key.                                      *)
(***************************************************************************)
EXTENDS Naturals

CONSTANTS Offers,      \* calls of Establish
          Accepts,     \* calls of Accept
          Users,       \* goroutines that call Seal, Open and Destroy
          Labels,      \* additional data (aad)
          Malformed, None, Zeros

VARIABLES
    step,      \* progress of each call
    share,     \* its X25519 and ML-KEM shares
    buf,       \* its intermediate buffers that hold key material
    material,  \* Secret.material: None, the key, or Zeros
    destroyed, \* Secret.destroyed
    mu,        \* Secret.mu: the goroutine holding it, or None
    user,      \* what each goroutine does: idle, or at a step of an operation
    wire,      \* ciphertexts: their key, their aad and the sealing secret
    opened     \* successful Opens: the secret, and whose text it read under which aad

vars == <<step, share, buf, material, destroyed, mu, user, wire, opened>>
callVars == <<step, share, buf>>
secretVars == <<material, destroyed, mu, user, wire, opened>>

Secrets == Offers \cup Accepts
Idle == [at |-> "idle", secret |-> None, op |-> None]

Init ==
    /\ step = [k \in Secrets |-> "start"]
    /\ share = [k \in Secrets |-> None]
    /\ buf = [k \in Secrets |-> {}]
    /\ material = [k \in Secrets |-> None]
    /\ destroyed = [k \in Secrets |-> FALSE]
    /\ mu = [k \in Secrets |-> None]
    /\ user = [u \in Users |-> Idle]
    /\ wire = {} /\ opened = {}

-----------------------------------------------------------------------------
\* zero leaves nothing of a buffer.
Wiped == {}
Return(k, result) == step' = [step EXCEPT ![k] = result]

\* The X25519 part; ok is false when the peer's key or the exchange fails, and
\* nothing has been derived yet.
Classical(k, shares, ok) ==
    /\ step[k] = "start"
    /\ share' = [share EXCEPT ![k] = shares]
    /\ buf' = [buf EXCEPT ![k] = IF ok THEN {"classical"} ELSE {}]
    /\ Return(k, IF ok THEN "classical" ELSE "failed")
    /\ UNCHANGED secretVars

Establish(k) == \E ok \in BOOLEAN : Classical(k, <<k, k>>, ok)

Accept(k, x, c) == Classical(k, <<x, c>>, x # Malformed)

\* The ML-KEM part: NewEncapsulationKey768 or Decapsulate may fail on a
\* malformed input, after the X25519 share has been computed.
Encapsulate(k) ==
    /\ step[k] = "classical"
    /\ \E ok \in IF k \in Offers THEN BOOLEAN ELSE {share[k][2] # Malformed} :
          /\ buf' = [buf EXCEPT ![k] = IF ok THEN {"classical", "pq", "combined"} ELSE Wiped]
          /\ Return(k, IF ok THEN "combined" ELSE "failed")
    /\ UNCHANGED <<share, secretVars>>

\* hkdf.Key, then the three buffers are wiped whether it failed or not.
Derive(k) ==
    /\ step[k] = "combined"
    /\ \E ok \in BOOLEAN :
          /\ buf' = [buf EXCEPT ![k] = IF ok THEN {"key"} ELSE Wiped]
          /\ Return(k, IF ok THEN "key" ELSE "failed")
    /\ UNCHANGED <<share, secretVars>>

\* The key depends on both shares.
Key(k) == share[k]

\* newSecret copies the key and wipes the buffer it came in.
newSecret(k) ==
    /\ step[k] = "key"
    /\ material' = [material EXCEPT ![k] = Key(k)]
    /\ buf' = [buf EXCEPT ![k] = Wiped]
    /\ Return(k, "done")
    /\ UNCHANGED <<share, destroyed, mu, user, wire, opened>>

-----------------------------------------------------------------------------
At(u, where) == user' = [user EXCEPT ![u].at = where]

\* A goroutine calls Seal, Open or Destroy on a secret that exists.
Call(u, k, op) ==
    /\ user[u] = Idle /\ step[k] = "done"
    /\ user' = [user EXCEPT ![u] = [at |-> "lock", secret |-> k, op |-> op]]
    /\ UNCHANGED <<callVars, material, destroyed, mu, wire, opened>>

\* Use and Destroy begin with the mutex and end by releasing it.
NoMutex(k) == FALSE
Locked(k) == mu[k] # None
Lock(u) ==
    /\ user[u].at = "lock" /\ ~Locked(user[u].secret)
    /\ mu' = [mu EXCEPT ![user[u].secret] = u]
    /\ At(u, user[u].op)
    /\ UNCHANGED <<callVars, material, destroyed, wire, opened>>

Unlock(u) ==
    /\ user[u].at = "unlock"
    /\ mu' = [mu EXCEPT ![user[u].secret] = None]
    /\ user' = [user EXCEPT ![u] = Idle]
    /\ UNCHANGED <<callVars, material, destroyed, wire, opened>>

Running == [seal |-> "sealing", open |-> "opening"]

\* Use refuses a destroyed secret; the check and the function are two steps.
Use(u) ==
    /\ user[u].at \in {"seal", "open"}
    /\ At(u, IF destroyed[user[u].secret] THEN "unlock" ELSE Running[user[u].op])
    /\ UNCHANGED <<callVars, material, destroyed, mu, wire, opened>>

Seal(u, aad) ==
    /\ user[u].at = "sealing"
    /\ LET k == user[u].secret IN
       wire' = wire \cup {[key |-> material[k], aad |-> aad, by |-> k]}
    /\ At(u, "unlock")
    /\ UNCHANGED <<callVars, material, destroyed, mu, opened>>

\* The cipher opens a text under its key and its aad only.
Open(u, c, aad) ==
    /\ user[u].at = "opening"
    /\ LET k == user[u].secret IN
       opened' = IF c.key = material[k] /\ c.aad = aad
                 THEN opened \cup {[secret |-> k, by |-> c.by, aad |-> aad]} ELSE opened
    /\ At(u, "unlock")
    /\ UNCHANGED <<callVars, material, destroyed, mu, wire>>

\* A text that is too short to be a ciphertext is refused.
Short(u) == user[u].at = "opening" /\ At(u, "unlock")
            /\ UNCHANGED <<callVars, material, destroyed, mu, wire, opened>>

\* Destroy wipes the bytes, then drops them and sets the flag.
Zero(u) ==
    /\ user[u].at = "destroy"
    /\ LET k == user[u].secret IN
       IF destroyed[k] THEN At(u, "unlock") /\ UNCHANGED material
       ELSE material' = [material EXCEPT ![k] = Zeros] /\ At(u, "zeroed")
    /\ UNCHANGED <<callVars, destroyed, mu, wire, opened>>

Destroy(u) ==
    /\ user[u].at = "zeroed"
    /\ material' = [material EXCEPT ![user[u].secret] = None]
    /\ destroyed' = [destroyed EXCEPT ![user[u].secret] = TRUE]
    /\ At(u, "unlock")
    /\ UNCHANGED <<callVars, mu, wire, opened>>

Operation(u) ==
    \/ Use(u) \/ Zero(u) \/ Destroy(u) \/ Unlock(u)
    \/ \E aad \in Labels : Seal(u, aad) \/ \E c \in wire : Open(u, c, aad)
    \/ Short(u)

Next ==
    \/ \E k \in Offers : Establish(k)
    \/ \E k \in Accepts, x, c \in Offers \cup {Malformed} : Accept(k, x, c)
    \/ \E k \in Secrets : Encapsulate(k) \/ Derive(k) \/ newSecret(k)
    \/ \E u \in Users, k \in Secrets, op \in {"seal", "open", "destroy"} : Call(u, k, op)
    \/ \E u \in Users : Lock(u)
    \/ \E u \in Users : Operation(u)

\* A goroutine in the section goes on, and one that waits for the mutex gets it
\* although others keep taking it: Go's mutex hands over to a starving waiter.
Fairness == \A u \in Users : WF_vars(Operation(u)) /\ SF_vars(Lock(u))

Spec == Init /\ [][Next]_vars
FairSpec == Spec /\ Fairness

-----------------------------------------------------------------------------
\* Every variable holds a value of its type; a destroyed secret holds no bytes.
TypeOK ==
    /\ step \in [Secrets -> {"start", "classical", "combined", "key", "done", "failed"}]
    /\ buf \in [Secrets -> SUBSET {"classical", "pq", "combined", "key"}]
    /\ destroyed \in [Secrets -> BOOLEAN]
    /\ mu \in [Secrets -> Users \cup {None}]
    /\ \A k \in Secrets : destroyed[k] => material[k] = None

\* When Establish or Accept has returned, by any of its error returns or with a
\* secret, none of its intermediate buffers holds key material.
NoResidue == \A k \in Secrets : step[k] \in {"done", "failed"} => buf[k] = {}

\* Seal never encrypts under the wiped bytes of a secret that another goroutine
\* is destroying: Use and Destroy exclude each other.
NeverZeroKey == \A c \in wire : c.key \notin {Zeros, None}

\* A text that Open returns was sealed by the Establish (or Accept) call whose
\* two shares are both the reader's, under the same aad: a damaged or mixed
\* offer never opens anything.
OpenedFaithful ==
    \A o \in opened :
        /\ \E c \in wire : c.by = o.by /\ c.aad = o.aad
        /\ share[o.secret] = share[o.by]

\* Key material is where it should be and nowhere else (Establish, Accept,
\* Secret.Use, Secret.Destroy, Seal, Open).
SecretsFaithful == TypeOK /\ NoResidue /\ NeverZeroKey /\ OpenedFaithful

\* Destroy takes effect however busy the secret is: its material goes away.
DestroyedInTheEnd ==
    \A u \in Users, k \in Secrets :
        (user[u].secret = k /\ user[u].op = "destroy") ~> (destroyed[k] /\ material[k] = None)
=============================================================================
