-------------------------- MODULE TransportRoutes --------------------------
(***************************************************************************)
(* The transport registry of the Go runtime and the validation of routes   *)
(* (transport.go).  ValidateRoute looks the stages of a route up one by    *)
(* one, each under its own read lock, while transports are registered, and *)
(* combines what it saw.                                                   *)
(***************************************************************************)
EXTENDS Integers

CONSTANTS Transports,  \* transport objects
          Names,
          NameOf,      \* the name of each transport
          CapsOf,      \* its Capabilities, as a set
          Caps,        \* all capabilities
          Calls,       \* calls of ValidateRoute
          Routes,      \* the routes they validate
          None         \* no transport, and the empty name of an unused stage

\* Every transport has a name and capabilities, and routes name them.
RoutesParameters ==
    /\ NameOf \in [Transports -> Names]
    /\ CapsOf \in [Transports -> SUBSET Caps]
    /\ None \notin Transports /\ None \notin Names
    /\ {"durable", "execution_settlement"} \subseteq Caps
    /\ Routes \subseteq [stages : [1..3 -> Names \cup {None}], requires : SUBSET Caps]

VARIABLES
    registry,  \* per name, the registered transport or None
    closed,    \* transports that Registry.Close has closed
    call       \* per call: its route, the next stage, what it has seen, its result

vars == <<registry, closed, call>>

Result == {"running", "accepted", "rejected"}
Progress == [route : Routes, stage : 1..4, has : SUBSET Caps, result : Result]

Init ==
    /\ registry = [n \in Names |-> None]
    /\ closed = {}
    /\ call = [c \in Calls |-> None]

-----------------------------------------------------------------------------
\* A name is taken once.
AnyName(t) == TRUE
NameFree(t) == registry[NameOf[t]] = None
Register(t) ==
    /\ NameFree(t)
    /\ registry' = [registry EXCEPT ![NameOf[t]] = t]
    /\ UNCHANGED <<closed, call>>

\* Close closes the transports and leaves them registered.
Registered == {registry[n] : n \in Names} \ {None}
Close ==
    /\ closed' = closed \cup Registered
    /\ UNCHANGED <<registry, call>>

ValidateRoute(c, r) ==
    /\ call[c] = None
    /\ call' = [call EXCEPT ![c] = [route |-> r, stage |-> 1, has |-> {}, result |-> "running"]]
    /\ UNCHANGED <<registry, closed>>

\* The capabilities that Get finds for a stage.
Seen(n) == IF n = None THEN {} ELSE CapsOf[registry[n]]

\* One round of the loop: an unused stage is skipped, an unknown one is refused.
Get(c) ==
    /\ call[c] # None /\ call[c].result = "running" /\ call[c].stage <= 3
    /\ LET p == call[c]
           n == p.route.stages[p.stage]
       IN  call' = [call EXCEPT ![c] =
             IF n # None /\ registry[n] = None THEN [p EXCEPT !.result = "rejected"]
             ELSE [p EXCEPT !.stage = p.stage + 1, !.has = p.has \cup Seen(n)]]
    /\ UNCHANGED <<registry, closed>>

\* What the combined capabilities are held against.
Checked == {"durable", "execution_settlement"}
Decide(c) ==
    /\ call[c] # None /\ call[c].result = "running" /\ call[c].stage = 4
    /\ call' = [call EXCEPT ![c].result =
           IF call[c].route.requires \cap Checked \subseteq call[c].has
           THEN "accepted" ELSE "rejected"]
    /\ UNCHANGED <<registry, closed>>

Next ==
    \/ \E t \in Transports : Register(t)
    \/ \E c \in Calls : Get(c) \/ Decide(c) \/ \E r \in Routes : ValidateRoute(c, r)
    \/ Close

Spec == Init /\ [][Next]_vars

-----------------------------------------------------------------------------
\* Every variable holds a value of its type.
TypeOK ==
    /\ registry \in [Names -> Transports \cup {None}]
    /\ \A n \in Names : registry[n] # None => NameOf[registry[n]] = n
    /\ closed \subseteq Transports
    /\ call \in [Calls -> Progress \cup {None}]

Accepted(c) == call[c] # None /\ call[c].result = "accepted"
Stages(c) == {call[c].route.stages[i] : i \in 1..3} \ {None}

\* A route that ValidateRoute accepted stays usable: its stages are registered,
\* and a durable and a settling stage are there where the route asks for them,
\* although the stages were looked up at different times.
AcceptedHolds ==
    \A c \in Calls : Accepted(c) =>
        /\ \A n \in Stages(c) : registry[n] # None
        /\ \A cap \in call[c].route.requires \cap Checked :
              \E n \in Stages(c) : cap \in CapsOf[registry[n]]

-----------------------------------------------------------------------------
\* What a call has seen is there: the capabilities it has collected are those of
\* registered stages before its position.
SeenHolds(c) ==
    call[c] # None =>
        /\ \A i \in 1..3 : i < call[c].stage /\ call[c].route.stages[i] # None =>
              registry[call[c].route.stages[i]] # None
        /\ \A cap \in call[c].has : \E i \in 1..3 :
              /\ i < call[c].stage /\ call[c].route.stages[i] # None
              /\ cap \in CapsOf[registry[call[c].route.stages[i]]]
        /\ call[c].result = "accepted" =>
              call[c].stage = 4 /\ call[c].route.requires \cap Checked \subseteq call[c].has
RoutesInvariant == TypeOK /\ \A c \in Calls : SeenHolds(c)
=============================================================================
