-------------------------- MODULE TransportProofs ---------------------------
(***************************************************************************)
(* Machine-checked proofs about the transports of the Go daemon: an        *)
(* accepted route stays usable, for any transports, routes and calls, and  *)
(* a dispatch calls the subscriptions that are due, for any subscriptions  *)
(* and envelopes.                                                          *)
(***************************************************************************)
EXTENDS TransportLayer, Sequences, TLAPS

-----------------------------------------------------------------------------
\* The registry and the validation of routes.

\* A step that only adds registrations preserves what the calls have seen.
LEMMA RegistryGrows ==
    ASSUME RoutesParameters, RoutesInvariant, UNCHANGED call,
           \A n \in Names : registry[n] # None => registry'[n] = registry[n]
    PROVE  \A c \in Calls : SeenHolds(c)'
<1> SUFFICES ASSUME NEW c \in Calls, call[c] # None
             PROVE  SeenHolds(c)'
  BY Zenon DEF SeenHolds
<1>1. SeenHolds(c) /\ call[c] \in Progress
  BY Zenon DEF RoutesInvariant, TypeOK
<1>2. \A i \in 1..3 : call[c].route.stages[i] \in Names \cup {None}
  BY Zenon, <1>1 DEF RoutesParameters, Progress
<1>3. \A i \in 1..3 : i < call[c].stage /\ call[c].route.stages[i] # None =>
          registry'[call[c].route.stages[i]] = registry[call[c].route.stages[i]]
  BY Zenon, <1>1, <1>2 DEF SeenHolds
<1> QED
  BY Zenon, <1>1, <1>3 DEF SeenHolds

\* Registering a transport under a free name keeps the invariant (Register).
LEMMA RegisterStep ==
    ASSUME RoutesParameters, RoutesInvariant, NEW t \in Transports, Register(t)
    PROVE  RoutesInvariant'
<1>1. NameOf[t] \in Names /\ registry[NameOf[t]] = None
  BY Zenon DEF RoutesParameters, Register, NameFree
<1>2. TypeOK'
  BY Zenon, <1>1
     DEF RoutesParameters, Register, RoutesInvariant,
         TypeOK
<1>3. \A n \in Names : registry[n] # None => registry'[n] = registry[n]
  BY Zenon, <1>1 DEF Register, RoutesInvariant, TypeOK
<1> QED
  BY Zenon, <1>2, <1>3, RegistryGrows DEF Register, RoutesInvariant

\* Looking a stage up adds its capabilities to what the call has seen (Get).
LEMMA GetStep ==
    ASSUME RoutesParameters, RoutesInvariant, NEW c \in Calls, Get(c)
    PROVE  RoutesInvariant'
<1> DEFINE p == call[c]
           n == p.route.stages[p.stage]
<1>1. p \in Progress /\ p.result = "running" /\ p.stage \in 1..3 /\ p # None
  BY DEF Get, RoutesInvariant, TypeOK, Progress
<1>2. n \in Names \cup {None} /\ p.route \in Routes
  BY Zenon, <1>1 DEF RoutesParameters, Progress
<1>3. UNCHANGED <<registry, closed>>
  BY Zenon DEF Get
<1>4. CASE n # None /\ registry[n] = None
  <2>1. call' = [call EXCEPT ![c] = [p EXCEPT !.result = "rejected"]]
    BY Zenon, <1>4 DEF Get
  <2>2. [p EXCEPT !.result = "rejected"] \in Progress
    BY Zenon, <1>1 DEF Progress, Result
  <2>3. TypeOK'
    BY Zenon, <1>3, <2>1, <2>2 DEF RoutesInvariant, TypeOK
  <2>4. ASSUME NEW d \in Calls
        PROVE  SeenHolds(d)'
    <3>1. CASE d = c
      <4>1. call'[d] = [p EXCEPT !.result = "rejected"]
        BY Zenon, <2>1, <3>1 DEF RoutesInvariant, TypeOK
      <4>2. call'[d].route = p.route /\ call'[d].stage = p.stage /\ call'[d].has = p.has
            /\ call'[d].result = "rejected"
        BY Zenon, <1>1, <4>1 DEF Progress
      <4> QED
        BY <1>1, <1>3, <3>1, <4>2 DEF RoutesInvariant, SeenHolds
    <3>2. CASE d # c
      <4>1. call'[d] = call[d]
        BY Zenon, <2>1, <3>2 DEF RoutesInvariant, TypeOK
      <4> QED
        BY Zenon, <1>3, <4>1 DEF RoutesInvariant, SeenHolds
    <3> QED
      BY Zenon, <3>1, <3>2
  <2> QED
    BY Zenon, <2>3, <2>4 DEF RoutesInvariant
<1>5. CASE n = None \/ registry[n] # None
  <2> DEFINE q == [p EXCEPT !.stage = p.stage + 1, !.has = p.has \cup Seen(n)]
  <2>1. call' = [call EXCEPT ![c] = q]
    BY Zenon, <1>5 DEF Get
  <2>2. Seen(n) \subseteq Caps
    BY Zenon, <1>2, <1>5
       DEF RoutesParameters, Seen, RoutesInvariant, TypeOK
  <2>3. q \in Progress /\ q.route = p.route /\ q.stage = p.stage + 1
        /\ q.has = p.has \cup Seen(n) /\ q.result = "running"
    <3>1. p.stage + 1 \in 1..4 /\ p.has \cup Seen(n) \subseteq Caps
      BY <1>1, <2>2 DEF Progress
    <3> HIDE DEF n
    <3> QED
      BY Zenon, <1>1, <3>1 DEF Progress, Result
  <2> HIDE DEF q
  <2>4. TypeOK'
    BY Zenon, <1>3, <2>1, <2>3 DEF RoutesInvariant, TypeOK
  <2>5. ASSUME NEW d \in Calls
        PROVE  SeenHolds(d)'
    <3>1. CASE d = c
      <4>1. call'[d] = q
        BY Zenon, <2>1, <3>1 DEF RoutesInvariant, TypeOK
      <4>2. SeenHolds(c)
        BY Zenon DEF RoutesInvariant
      <4>3. \A i \in 1..3 : i < p.stage + 1 /\ p.route.stages[i] # None =>
                registry[p.route.stages[i]] # None
        <5> SUFFICES ASSUME NEW i \in 1..3, i < p.stage + 1, p.route.stages[i] # None
                     PROVE  registry[p.route.stages[i]] # None
          BY Zenon
        <5>1. CASE i = p.stage
          BY Zenon, <1>5, <5>1
        <5>2. CASE i < p.stage
          BY Zenon, <1>1, <4>2, <5>2 DEF SeenHolds
        <5> QED
          BY <1>1, <5>1, <5>2
      <4>4. \A cap \in p.has \cup Seen(n) : \E i \in 1..3 :
                i < p.stage + 1 /\ p.route.stages[i] # None
                /\ cap \in CapsOf[registry[p.route.stages[i]]]
        <5>1. ASSUME NEW cap \in p.has
              PROVE  \E i \in 1..3 : i < p.stage + 1 /\ p.route.stages[i] # None
                                   /\ cap \in CapsOf[registry[p.route.stages[i]]]
          BY <1>1, <4>2, <5>1 DEF SeenHolds
        <5>2. ASSUME NEW cap \in Seen(n)
              PROVE  \E i \in 1..3 : i < p.stage + 1 /\ p.route.stages[i] # None
                                   /\ cap \in CapsOf[registry[p.route.stages[i]]]
          BY <1>1, <5>2 DEF Seen
        <5> QED
          BY Zenon, <5>1, <5>2
      <4> QED
        BY Zenon, <1>3, <2>3, <4>1, <4>3, <4>4 DEF SeenHolds
    <3>2. CASE d # c
      <4>1. call'[d] = call[d]
        BY Zenon, <2>1, <3>2 DEF RoutesInvariant, TypeOK
      <4> QED
        BY Zenon, <1>3, <4>1 DEF RoutesInvariant, SeenHolds
    <3> QED
      BY Zenon, <3>1, <3>2
  <2> QED
    BY Zenon, <2>4, <2>5 DEF RoutesInvariant
<1> QED
  BY Zenon, <1>4, <1>5

\* The invariant is inductive: registrations stay and calls only collect.
THEOREM RoutesInductive == Spec => []RoutesInvariant
<1> RoutesParameters
  BY Zenon, LayerAssumption
<1>1. Init => RoutesInvariant
  BY Zenon DEF Init, RoutesInvariant, TypeOK, SeenHolds
<1>2. RoutesInvariant /\ [Next]_vars => RoutesInvariant'
  <2> SUFFICES ASSUME RoutesInvariant, [Next]_vars
               PROVE  RoutesInvariant'
    BY Zenon
  <2>1. ASSUME NEW t \in Transports, Register(t)
        PROVE  RoutesInvariant'
    BY Zenon, <2>1, RegisterStep
  <2>2. ASSUME NEW c \in Calls, NEW r \in Routes, ValidateRoute(c, r)
        PROVE  RoutesInvariant'
    <3> DEFINE q == [route |-> r, stage |-> 1, has |-> {}, result |-> "running"]
    <3>1. q \in Progress /\ q.stage = 1 /\ q.has = {} /\ q.result = "running"
      BY DEF Progress, Result
    <3>2. call' = [call EXCEPT ![c] = q] /\ UNCHANGED <<registry, closed>>
      BY Zenon, <2>2 DEF ValidateRoute
    <3> HIDE DEF q
    <3>3. TypeOK'
      BY Zenon, <3>1, <3>2 DEF RoutesInvariant, TypeOK
    <3>4. ASSUME NEW d \in Calls
          PROVE  SeenHolds(d)'
      <4>1. CASE d = c
        <5>1. call'[d] = q
          BY Zenon, <3>2, <4>1 DEF RoutesInvariant, TypeOK
        <5> QED
          BY <3>1, <5>1 DEF SeenHolds
      <4>2. CASE d # c
        <5>1. call'[d] = call[d] /\ registry' = registry /\ SeenHolds(d)
          BY Zenon, <3>2, <4>2 DEF RoutesInvariant, TypeOK
        <5> QED
          BY Zenon, <5>1 DEF SeenHolds
      <4> QED
        BY Zenon, <4>1, <4>2
    <3> QED
      BY Zenon, <3>3, <3>4 DEF RoutesInvariant
  <2>3. ASSUME NEW c \in Calls, Get(c)
        PROVE  RoutesInvariant'
    BY Zenon, <2>3, GetStep
  <2>4. ASSUME NEW c \in Calls, Decide(c)
        PROVE  RoutesInvariant'
    <3>1. PICK res \in {"accepted", "rejected"} :
             /\ call' = [call EXCEPT ![c].result = res] /\ UNCHANGED <<registry, closed>>
             /\ res = "accepted" => call[c].route.requires \cap Checked \subseteq call[c].has
      BY Zenon, <2>4 DEF Decide
    <3>2. call[c] \in Progress /\ call[c].stage = 4
      BY Zenon, <2>4 DEF Decide, RoutesInvariant, TypeOK
    <3>3. /\ call'[c] \in Progress /\ call'[c].route = call[c].route
          /\ call'[c].stage = call[c].stage /\ call'[c].has = call[c].has
          /\ call'[c].result = res
      BY Zenon, <3>1, <3>2
         DEF RoutesInvariant, TypeOK, Progress, Result
    <3>4. \A d \in Calls : d # c => call'[d] = call[d]
      BY Zenon, <3>1 DEF RoutesInvariant, TypeOK
    <3>5. TypeOK'
      BY Zenon, <3>1, <3>3, <3>4 DEF RoutesInvariant, TypeOK
    <3>6. ASSUME NEW d \in Calls
          PROVE  SeenHolds(d)'
      <4>1. CASE d = c
        <5>1. SeenHolds(c) /\ call[c] # None /\ registry' = registry
          BY Zenon, <2>4, <3>1 DEF Decide, RoutesInvariant
        <5>2. \A i \in 1..3 : i < call'[c].stage /\ call'[c].route.stages[i] # None =>
                 registry'[call'[c].route.stages[i]] # None
          BY Zenon, <3>3, <5>1 DEF SeenHolds
        <5>3. \A cap \in call'[c].has : \E i \in 1..3 :
                 /\ i < call'[c].stage /\ call'[c].route.stages[i] # None
                 /\ cap \in CapsOf[registry'[call'[c].route.stages[i]]]
          BY Zenon, <3>3, <5>1 DEF SeenHolds
        <5>4. call'[c].result = "accepted" =>
                 /\ call'[c].stage = 4
                 /\ call'[c].route.requires \cap Checked \subseteq call'[c].has
          BY Zenon, <3>1, <3>2, <3>3
        <5> QED
          BY Zenon, <4>1, <5>2, <5>3, <5>4 DEF SeenHolds
      <4>2. CASE d # c
        <5>1. SeenHolds(d) /\ call'[d] = call[d] /\ registry' = registry
          BY Zenon, <2>4, <3>1, <3>4, <4>2 DEF Decide, RoutesInvariant
        <5> QED
          BY Zenon, <5>1 DEF SeenHolds
      <4> QED
        BY Zenon, <4>1, <4>2
    <3> QED
      BY Zenon, <3>5, <3>6 DEF RoutesInvariant
  <2>5. CASE Close
    BY <2>5
       DEF RoutesParameters, Close, Registered,
           RoutesInvariant, TypeOK, SeenHolds
  <2>6. CASE UNCHANGED vars
    BY Zenon, <2>6 DEF vars, RoutesInvariant, TypeOK, SeenHolds
  <2> QED
    BY Zenon, <2>1, <2>2, <2>3, <2>4, <2>5, <2>6 DEF Next
<1> QED
  BY <1>1, <1>2, PTL DEF Spec

\* A route that ValidateRoute accepted keeps its stages and its durable and
\* settling stage for ever.
THEOREM AcceptedRouteHolds == Spec => []AcceptedHolds
<1>1. RoutesInvariant => AcceptedHolds
  <2> SUFFICES ASSUME RoutesInvariant, NEW c \in Calls, Accepted(c)
               PROVE  /\ \A n \in Stages(c) : registry[n] # None
                      /\ \A cap \in call[c].route.requires \cap Checked :
                            \E n \in Stages(c) : cap \in CapsOf[registry[n]]
    BY Zenon DEF AcceptedHolds
  <2>1. /\ SeenHolds(c) /\ call[c] # None /\ call[c].stage = 4
        /\ call[c].route.requires \cap Checked \subseteq call[c].has
    BY Zenon DEF RoutesInvariant, SeenHolds, Accepted
  <2>2. \A i \in 1..3 : i < 4
    OBVIOUS
  <2>3. \A n \in Stages(c) : registry[n] # None
    BY Zenon, <2>1, <2>2 DEF SeenHolds, Stages
  <2>4. ASSUME NEW cap \in call[c].route.requires \cap Checked
        PROVE  \E n \in Stages(c) : cap \in CapsOf[registry[n]]
    <3>1. PICK i \in 1..3 : call[c].route.stages[i] # None
                           /\ cap \in CapsOf[registry[call[c].route.stages[i]]]
      BY Zenon, <2>1, <2>4 DEF SeenHolds
    <3> QED
      BY Zenon, <3>1 DEF Stages
  <2> QED
    BY Zenon, <2>3, <2>4
<1> QED
  BY <1>1, RoutesInductive, PTL

\* The registry maps names to transports of that name.
THEOREM RoutesTypes == Spec => []TypeOK
<1>1. RoutesInvariant => TypeOK
  BY Zenon DEF RoutesInvariant
<1> QED
  BY <1>1, RoutesInductive, PTL

-----------------------------------------------------------------------------
\* The point-to-point transports.

\* What a table, a subscription and an envelope hold.
Slot == Subs \cup {Nil}
Subscription == [topic : Dispatch!Topics \cup {Nil}, slot : Nat, state : {"new", "open", "closed"}]
Letter == [event : Events \cup {Nil}, at : {"new", "sent", "lost", "dispatch", "done", "failed"}]

DispatchType ==
    /\ kind \in Kinds
    /\ table \in [Dispatch!Topics -> Seq(Slot)] /\ sub \in [Subs -> Subscription]
    /\ env \in [Envelopes -> Letter]
    /\ dispatching \in [Envelopes -> Seq(Slot)] /\ due \in [Envelopes -> SUBSET Subs]
    /\ called \in [Envelopes -> Seq(Subs)]
    /\ result \in [Envelopes -> {"none", "ok", "error"}]

\* A subscription is open exactly while its slot, and no other, holds its handler.
Placed(s) ==
    sub[s].state = "open" =>
        /\ sub[s].topic \in Dispatch!Topics /\ sub[s].slot \in DOMAIN table[sub[s].topic]
        /\ table[sub[s].topic][sub[s].slot] = s
Held(t) ==
    \A i \in DOMAIN table[t] : table[t][i] # Nil =>
        /\ sub[table[t][i]].state = "open" /\ sub[table[t][i]].topic = t
        /\ sub[table[t][i]].slot = i

\* The handlers still to call are those that are due and have not been called.
Pending(slots, done, all) ==
    /\ \A i \in DOMAIN slots : slots[i] # Nil =>
          /\ slots[i] \in all /\ slots[i] \notin Dispatch!Range(done)
          /\ \A j \in DOMAIN slots : slots[i] = slots[j] => i = j
    /\ all \subseteq Dispatch!Range(slots) \cup Dispatch!Range(done)

\* The calls of an envelope are, at every moment, some of those that are due, each
\* once, and all of them once it is done.
Dispatched(e) ==
    /\ env[e].at # "new" => env[e].event \in Events
    /\ env[e].at \in {"new", "sent", "lost"} => called[e] = <<>>
    /\ env[e].at = "dispatch" => Pending(dispatching[e], called[e], due[e])
    /\ env[e].at = "dispatch" /\ kind = "memory" =>
          \A i \in DOMAIN dispatching[e] : dispatching[e][i] # Nil => sub[dispatching[e][i]].state = "open"
    /\ Dispatch!Range(called[e]) \subseteq due[e] /\ Dispatch!IsInjective(called[e])
    /\ env[e].at = "done" => Dispatch!Range(called[e]) = due[e]
    /\ Dispatch!StopsOnError /\ result[e] = "ok" => env[e].at = "done"

\* The inductive invariant.
DispatchInvariant ==
    /\ DispatchType
    /\ \A s \in Subs : Placed(s)
    /\ \A t \in Dispatch!Topics : Held(t)
    /\ \A e \in Envelopes : Dispatched(e)

-----------------------------------------------------------------------------
\* The concatenation of two sequences.
LEMMA Concatenation ==
    ASSUME NEW S, NEW a \in Seq(S), NEW b \in Seq(S)
    PROVE  /\ a \o b \in Seq(S) /\ Len(a \o b) = Len(a) + Len(b)
           /\ DOMAIN (a \o b) = 1..(Len(a) + Len(b))
           /\ \A j \in 1..(Len(a) + Len(b)) : (a \o b)[j] = IF j <= Len(a) THEN a[j] ELSE b[j - Len(a)]
OBVIOUS

\* What Without leaves: the other elements, those behind moved up.
LEMMA Removed ==
    ASSUME NEW S, NEW s \in Seq(S), NEW i \in DOMAIN s
    PROVE  /\ Dispatch!Without(s, i) \in Seq(S) /\ DOMAIN Dispatch!Without(s, i) = 1..(Len(s) - 1)
           /\ \A j \in 1..(Len(s) - 1) : Dispatch!Without(s, i)[j] = s[IF j < i THEN j ELSE j + 1]
<1>1. /\ i \in 1..Len(s) /\ Len(s) \in Nat /\ DOMAIN s = 1..Len(s)
    OBVIOUS
<1> DEFINE a == SubSeq(s, 1, i - 1)
           b == SubSeq(s, i + 1, Len(s))
<1>2. a \in Seq(S) /\ Len(a) = i - 1 /\ \A j \in 1..(i - 1) : a[j] = s[j]
    BY <1>1
<1>3. b \in Seq(S) /\ Len(b) = Len(s) - i /\ \A j \in 1..(Len(s) - i) : b[j] = s[i + j]
    BY <1>1
<1> HIDE DEF a, b
<1>4. /\ a \o b \in Seq(S) /\ Len(a \o b) = Len(s) - 1
      /\ \A j \in 1..(Len(s) - 1) : (a \o b)[j] = IF j < i THEN a[j] ELSE b[j - (i - 1)]
  <2>1. a \o b \in Seq(S) /\ Len(a \o b) = Len(a) + Len(b)
      BY Zenon, <1>2, <1>3, Concatenation
  <2>2. Len(a) + Len(b) = Len(s) - 1
      BY <1>1, <1>2, <1>3
  <2>3. ASSUME NEW j \in 1..(Len(s) - 1) PROVE (a \o b)[j] = IF j < i THEN a[j] ELSE b[j - (i - 1)]
    <3>1. j \in 1..(Len(a) + Len(b)) /\ (j <= Len(a) <=> j < i)
        BY <1>1, <1>2, <2>2
    <3>2. (a \o b)[j] = IF j <= Len(a) THEN a[j] ELSE b[j - Len(a)]
        BY <1>2, <1>3, <3>1, Concatenation, Zenon
    <3> QED BY Zenon, <1>2, <3>1, <3>2
  <2> QED BY Zenon, <2>1, <2>2, <2>3
<1>5. ASSUME NEW j \in 1..(Len(s) - 1) PROVE (a \o b)[j] = s[IF j < i THEN j ELSE j + 1]
  <2>1. CASE j < i
      BY <1>1, <1>2, <1>4, <2>1
  <2>2. CASE ~(j < i)
    <3>1. j - (i - 1) \in 1..(Len(s) - i) /\ i + (j - (i - 1)) = j + 1
        BY <1>1, <2>2
    <3> QED BY Zenon, <1>1, <1>3, <1>4, <2>2, <3>1
  <2> QED BY <2>1, <2>2, Zenon
<1>6. Dispatch!Without(s, i) = a \o b
    BY Zenon DEF Dispatch!Without, a, b
<1>7. DOMAIN (a \o b) = 1..(Len(s) - 1)
  <2>1. DOMAIN (a \o b) = 1..Len(a \o b)
      BY <1>2, <1>3, Concatenation
  <2> QED BY Zenon, <1>4, <2>1
<1> QED BY Zenon, <1>4, <1>5, <1>6, <1>7

\* The elements of a sequence with one more.
LEMMA Appended ==
    ASSUME NEW S, NEW s \in Seq(S), NEW x \in S
    PROVE  /\ Append(s, x) \in Seq(S) /\ Dispatch!Range(Append(s, x)) = Dispatch!Range(s) \cup {x}
           /\ Dispatch!IsInjective(s) /\ x \notin Dispatch!Range(s) => Dispatch!IsInjective(Append(s, x))
<1>1. /\ Append(s, x) \in Seq(S) /\ DOMAIN Append(s, x) = 1..(Len(s) + 1) /\ Len(s) \in Nat
      /\ DOMAIN s = 1..Len(s) /\ Len(Append(s, x)) = Len(s) + 1
      /\ \A i \in DOMAIN s : Append(s, x)[i] = s[i]
      /\ Append(s, x)[Len(s) + 1] = x
    OBVIOUS
<1>2. DOMAIN Append(s, x) = DOMAIN s \cup {Len(s) + 1} /\ Len(s) + 1 \notin DOMAIN s
    BY <1>1
<1>3. Dispatch!Range(Append(s, x)) = Dispatch!Range(s) \cup {x}
    BY Zenon, <1>1, <1>2 DEF Dispatch!Range
<1>4. Dispatch!IsInjective(s) /\ x \notin Dispatch!Range(s) => Dispatch!IsInjective(Append(s, x))
    BY <1>1, <1>2 DEF Dispatch!Range, Dispatch!IsInjective
<1> QED BY Zenon, <1>1, <1>3, <1>4

\* Calling the handler in slot i, or skipping it when it is empty, leaves the others.
LEMMA OneLess ==
    ASSUME NEW slots \in Seq(Slot), NEW done \in Seq(Subs), NEW all \in SUBSET Subs,
           Nil \notin Subs, Pending(slots, done, all), NEW i \in DOMAIN slots
    PROVE  /\ Dispatch!Without(slots, i) \in Seq(Slot)
           /\ \A j \in DOMAIN Dispatch!Without(slots, i) : \E k \in DOMAIN slots : Dispatch!Without(slots, i)[j] = slots[k]
           /\ slots[i] = Nil => Pending(Dispatch!Without(slots, i), done, all)
           /\ slots[i] # Nil => Pending(Dispatch!Without(slots, i), Append(done, slots[i]), all)
<1> DEFINE rest == Dispatch!Without(slots, i)
           from(j) == IF j < i THEN j ELSE j + 1
           h == slots[i]
<1>1. /\ rest \in Seq(Slot) /\ DOMAIN rest = 1..(Len(slots) - 1)
      /\ \A j \in DOMAIN rest : rest[j] = slots[from(j)]
    BY Removed, Zenon
<1>2. i \in 1..Len(slots) /\ Len(slots) \in Nat /\ DOMAIN slots = 1..Len(slots)
    OBVIOUS
<1>3. \A j \in DOMAIN rest : from(j) \in DOMAIN slots /\ from(j) # i
    BY <1>1, <1>2
<1>4. \A j, k \in DOMAIN rest : from(j) = from(k) => j = k
    BY <1>1, <1>2
<1>5. ASSUME NEW k \in DOMAIN slots, k # i PROVE slots[k] \in Dispatch!Range(rest)
  <2>1. CASE k < i
    <3>1. k \in DOMAIN rest /\ from(k) = k
        BY <1>1, <1>2, <2>1
    <3> QED BY Zenon, <1>1, <3>1 DEF Dispatch!Range
  <2>2. CASE k > i
    <3>1. k - 1 \in DOMAIN rest /\ from(k - 1) = k
        BY <1>1, <1>2, <2>2
    <3> QED BY Zenon, <1>1, <3>1 DEF Dispatch!Range
  <2> QED BY <1>2, <1>5, <2>1, <2>2
<1> HIDE DEF rest, from
<1>6. Dispatch!Range(slots) \subseteq Dispatch!Range(rest) \cup {h}
    BY Zenon, <1>5 DEF Dispatch!Range
<1>7. ASSUME NEW j \in DOMAIN rest, rest[j] # Nil
      PROVE  /\ rest[j] \in all /\ rest[j] \notin Dispatch!Range(done) /\ rest[j] # h
             /\ \A k \in DOMAIN rest : rest[j] = rest[k] => j = k
    BY Zenon, <1>1, <1>3, <1>4, <1>7 DEF Pending
<1>8. CASE h = Nil
  <2>1. all \subseteq Dispatch!Range(rest) \cup Dispatch!Range(done)
      BY Zenon, <1>6, <1>8 DEF Pending
  <2> QED BY Zenon, <1>1, <1>3, <1>7, <1>8, <2>1 DEF Pending, rest
<1>9. CASE h # Nil
  <2>1. h \in Subs
      BY <1>9 DEF Slot
  <2>2. Dispatch!Range(Append(done, h)) = Dispatch!Range(done) \cup {h}
      BY <2>1, Appended
  <2>3. all \subseteq Dispatch!Range(rest) \cup Dispatch!Range(Append(done, h))
      BY Zenon, <1>6, <2>2 DEF Pending
  <2> QED BY Zenon, <1>1, <1>3, <1>7, <1>9, <2>2, <2>3 DEF Pending, rest
<1> QED BY Zenon, <1>8, <1>9

-----------------------------------------------------------------------------
\* A new subscription gets a slot of its own at the end.
LEMMA SubscribeStep ==
    ASSUME DispatchParameters, DispatchInvariant, NEW s \in Subs, NEW t \in Dispatch!Topics, Dispatch!Subscribe(s, t)
    PROVE  DispatchInvariant'
<1> DEFINE slots == table[t]
           new == [topic |-> t, slot |-> Len(slots) + 1, state |-> "open"]
<1>1. /\ sub[s].state = "new" /\ table' = [table EXCEPT ![t] = Append(slots, s)]
      /\ sub' = [sub EXCEPT ![s] = new] /\ UNCHANGED <<kind, env, dispatching, due, called, result>>
    BY Zenon DEF Dispatch!Subscribe, Dispatch!dispatchVars
<1>2. /\ slots \in Seq(Slot) /\ Len(slots) \in Nat /\ DOMAIN slots = 1..Len(slots) /\ s \in Slot
    BY DEF DispatchInvariant, DispatchType, Slot
<1>3. /\ Append(slots, s) \in Seq(Slot) /\ DOMAIN Append(slots, s) = 1..(Len(slots) + 1)
      /\ Append(slots, s)[Len(slots) + 1] = s
      /\ \A i \in DOMAIN slots : Append(slots, s)[i] = slots[i]
    BY <1>2
<1>4. new \in Subscription /\ new.topic = t /\ new.slot = Len(slots) + 1 /\ new.state = "open"
    BY <1>2 DEF Subscription
<1> HIDE DEF new
<1>5. /\ table' \in [Dispatch!Topics -> Seq(Slot)] /\ table'[t] = Append(slots, s)
      /\ \A u \in Dispatch!Topics \ {t} : table'[u] = table[u]
      /\ sub' \in [Subs -> Subscription] /\ sub'[s] = new /\ \A r \in Subs \ {s} : sub'[r] = sub[r]
    BY Zenon, <1>1, <1>3, <1>4 DEF DispatchInvariant, DispatchType
<1>6. DispatchType'
    BY Zenon, <1>1, <1>5 DEF DispatchInvariant, DispatchType
<1>7. ASSUME NEW r \in Subs PROVE Placed(r)'
  <2>1. CASE r = s
      BY <1>2, <1>3, <1>4, <1>5, <2>1 DEF Placed
  <2>2. CASE r # s
    <3>1. Placed(r) /\ sub'[r] = sub[r]
        BY Zenon, <1>5, <2>2 DEF DispatchInvariant
    <3>2. CASE sub[r].topic = t
      <4>1. DOMAIN slots \subseteq DOMAIN Append(slots, s)
          BY <1>2, <1>3
      <4>2. /\ table[sub[r].topic] = slots
            /\ table'[sub'[r].topic] = Append(slots, s) /\ sub'[r].topic = t
          BY Zenon, <1>5, <3>1, <3>2
      <4>3. ASSUME sub[r].state = "open"
            PROVE  /\ sub[r].slot \in DOMAIN Append(slots, s)
                   /\ Append(slots, s)[sub[r].slot] = r
        <5>1. sub[r].slot \in DOMAIN slots /\ slots[sub[r].slot] = r
            BY Zenon, <3>1, <4>2, <4>3 DEF Placed
        <5> QED BY Zenon, <1>3, <4>1, <5>1
      <4> HIDE DEF slots
      <4> QED BY Zenon, <3>1, <4>2, <4>3 DEF Placed
    <3>3. CASE sub[r].topic # t
        BY Zenon, <1>5, <3>1, <3>3 DEF Placed
    <3> QED BY Zenon, <3>2, <3>3
  <2> QED BY Zenon, <2>1, <2>2
<1>8. ASSUME NEW u \in Dispatch!Topics, NEW i \in DOMAIN table[u], table[u][i] # Nil
      PROVE  /\ table[u][i] \in Subs \ {s}
             /\ sub'[table[u][i]] = sub[table[u][i]]
  <2>1. table[u][i] \in Slot
      BY DEF DispatchInvariant, DispatchType
  <2>2. sub[table[u][i]].state = "open"
      BY <1>8 DEF DispatchInvariant, Held
  <2> QED BY Zenon, <1>1, <1>5, <1>8, <2>1, <2>2 DEF Slot
<1>9. ASSUME NEW u \in Dispatch!Topics PROVE Held(u)'
  <2>1. CASE u # t
      BY <1>5, <1>8, <2>1 DEF Held, DispatchInvariant
  <2>2. CASE u = t
    <3>1. ASSUME NEW i \in DOMAIN slots, slots[i] # Nil
          PROVE  sub'[slots[i]].state = "open" /\ sub'[slots[i]].topic = t /\ sub'[slots[i]].slot = i
        BY <1>8, <3>1 DEF Held, DispatchInvariant
    <3> QED BY <1>2, <1>3, <1>4, <1>5, <2>2, <3>1 DEF Held
  <2> QED BY Zenon, <2>1, <2>2
<1>10. \A r \in Subs : sub[r].state = "open" => sub'[r].state = "open"
    BY Zenon, <1>1, <1>5
<1>11. ASSUME NEW e \in Envelopes PROVE Dispatched(e)'
  <2>1. Dispatched(e)
      BY Zenon DEF DispatchInvariant
  <2>2. \A i \in DOMAIN dispatching[e] : dispatching[e][i] # Nil => dispatching[e][i] \in Subs
      BY DEF DispatchInvariant, DispatchType, Slot
  <2> QED BY Zenon, <1>1, <1>10, <2>1, <2>2 DEF Dispatched, Dispatch!StopsOnError
<1> QED BY Zenon, <1>6, <1>7, <1>9, <1>11 DEF DispatchInvariant

\* Close empties its own slot, and moves no other; MemoryTransport is not
\* dispatching meanwhile.
LEMMA CloseStep ==
    ASSUME DispatchParameters, DispatchInvariant, NEW s \in Subs, Dispatch!CloseSubscription(s)
    PROVE  DispatchInvariant'
<1>a. PICK t \in Dispatch!Topics : sub[s].topic = t
    BY Zenon DEF Dispatch!CloseSubscription, DispatchInvariant, Placed
<1>1. PICK i \in DOMAIN table[t] : sub[s].topic = t /\ sub[s].slot = i /\ table[t][i] = s
    BY Zenon, <1>a DEF Dispatch!CloseSubscription, DispatchInvariant, Placed
<1> DEFINE slots == table[t]
<1>2. /\ sub[s].state = "open" /\ Dispatch!TableFree
      /\ table' = [table EXCEPT ![t] = [slots EXCEPT ![i] = Nil]]
      /\ sub' = [sub EXCEPT ![s].state = "closed"]
      /\ UNCHANGED <<kind, env, dispatching, due, called, result>>
  <2>1. slots \in Seq(Slot) /\ i <= Len(slots)
      BY DEF DispatchInvariant, DispatchType
  <2> QED BY Zenon, <1>1, <2>1 DEF Dispatch!CloseSubscription, Dispatch!Emptied, Dispatch!dispatchVars
<1>3. /\ [slots EXCEPT ![i] = Nil] \in Seq(Slot) /\ DOMAIN [slots EXCEPT ![i] = Nil] = DOMAIN slots
      /\ [slots EXCEPT ![i] = Nil][i] = Nil
      /\ \A j \in DOMAIN slots \ {i} : [slots EXCEPT ![i] = Nil][j] = slots[j]
  <2>1. slots \in Seq(Slot) /\ Nil \in Slot
      BY Zenon DEF DispatchInvariant, DispatchType, Slot
  <2> QED BY <2>1
<1>4. /\ table' \in [Dispatch!Topics -> Seq(Slot)] /\ table'[t] = [slots EXCEPT ![i] = Nil]
      /\ \A u \in Dispatch!Topics \ {t} : table'[u] = table[u]
    BY Zenon, <1>2, <1>3 DEF DispatchInvariant, DispatchType
<1>5. /\ sub' \in [Subs -> Subscription] /\ sub'[s].state = "closed"
      /\ \A r \in Subs \ {s} : sub'[r] = sub[r]
  <2>1. sub \in [Subs -> Subscription] /\ sub[s] \in Subscription
      BY Zenon DEF DispatchInvariant, DispatchType
  <2>2. [sub[s] EXCEPT !.state = "closed"] \in Subscription
        /\ [sub[s] EXCEPT !.state = "closed"].state = "closed"
      BY Zenon, <2>1 DEF Subscription
  <2> QED BY Zenon, <1>2, <2>1, <2>2
<1>6. DispatchType'
    BY Zenon, <1>2, <1>4, <1>5 DEF DispatchInvariant, DispatchType
<1>7. ASSUME NEW r \in Subs PROVE Placed(r)'
  <2>1. CASE r = s
      BY Zenon, <1>5, <2>1 DEF Placed
  <2>2. CASE r # s
    <3>1. Placed(r) /\ sub'[r] = sub[r]
        BY Zenon, <1>5, <2>2 DEF DispatchInvariant
    <3>2. sub[r].state = "open" /\ sub[r].topic = t => sub[r].slot # i
        BY Zenon, <1>1, <2>2, <3>1 DEF Placed
    <3> QED BY <1>3, <1>4, <3>1, <3>2 DEF Placed
  <2> QED BY Zenon, <2>1, <2>2
<1>8. ASSUME NEW u \in Dispatch!Topics, NEW j \in DOMAIN table[u], table[u][j] # Nil, u # t \/ j # i
      PROVE  sub'[table[u][j]] = sub[table[u][j]]
  <2>1. table[u][j] \in Slot
      BY DEF DispatchInvariant, DispatchType
  <2>2. sub[table[u][j]].topic = u /\ sub[table[u][j]].slot = j
      BY Zenon, <1>8 DEF DispatchInvariant, Held
  <2> QED BY Zenon, <1>1, <1>5, <1>8, <2>1, <2>2 DEF Slot
<1>9. ASSUME NEW u \in Dispatch!Topics PROVE Held(u)'
  <2>1. CASE u # t
      BY <1>4, <1>8, <2>1 DEF Held, DispatchInvariant
  <2>2. CASE u = t
    <3>1. ASSUME NEW j \in DOMAIN slots \ {i}, slots[j] # Nil
          PROVE  sub'[slots[j]].state = "open" /\ sub'[slots[j]].topic = t /\ sub'[slots[j]].slot = j
        BY <1>8, <3>1 DEF Held, DispatchInvariant
    <3> QED BY <1>3, <1>4, <2>2, <3>1 DEF Held
  <2> QED BY Zenon, <2>1, <2>2
<1>10. ASSUME NEW e \in Envelopes PROVE Dispatched(e)'
    BY Zenon, <1>2
       DEF DispatchInvariant, Dispatched, Dispatch!TableFree, Dispatch!Running,
           Dispatch!StopsOnError
<1> QED BY Zenon, <1>6, <1>7, <1>9, <1>10 DEF DispatchInvariant

\* A step of one envelope leaves the subscriptions and the other envelopes alone.
LEMMA EnvelopeOnly ==
    ASSUME DispatchInvariant, NEW e \in Envelopes, UNCHANGED <<kind, table, sub>>,
           DispatchType', Dispatched(e)',
           \A f \in Envelopes \ {e} : /\ env'[f] = env[f] /\ dispatching'[f] = dispatching[f] /\ due'[f] = due[f]
                                      /\ called'[f] = called[f] /\ result'[f] = result[f]
    PROVE  DispatchInvariant'
<1>1. ASSUME NEW f \in Envelopes PROVE Dispatched(f)'
  <2>1. CASE f # e
      BY <2>1 DEF DispatchInvariant, Dispatched, Dispatch!StopsOnError, Pending
  <2> QED BY Zenon, <2>1
<1> QED BY <1>1 DEF DispatchInvariant, Placed, Held

\* Publish and the loss of a connection.
LEMMA SendStep ==
    ASSUME DispatchParameters, DispatchInvariant, NEW e \in Envelopes,
           Dispatch!ConnectionClosed(e) \/ \E event \in Events : Dispatch!Publish(e, event)
    PROVE  DispatchInvariant'
<1>1. /\ UNCHANGED <<kind, table, sub, dispatching, due, called>> /\ env[e].at \in {"new", "sent"}
      /\ called[e] = <<>>
    BY Zenon DEF Dispatch!ConnectionClosed, Dispatch!Publish, DispatchInvariant, Dispatched
<1>2. PICK a \in Letter, r \in {"none", "ok", "error"} :
         /\ env' = [env EXCEPT ![e] = a] /\ result' = [result EXCEPT ![e] = r]
         /\ a.event \in Events /\ a.at \in {"sent", "lost"} /\ (Dispatch!StopsOnError => r # "ok")
  <2>1. ASSUME NEW event \in Events, Dispatch!Publish(e, event)
        PROVE  \E a \in Letter, r \in {"none", "ok", "error"} :
                 /\ env' = [env EXCEPT ![e] = a] /\ result' = [result EXCEPT ![e] = r]
                 /\ a.event \in Events /\ a.at \in {"sent", "lost"} /\ (Dispatch!StopsOnError => r # "ok")
    <3> DEFINE lost == [event |-> event, at |-> "lost"]
               sent == [event |-> event, at |-> "sent"]
               told == IF kind \in {"quic", "tcp"} THEN "ok" ELSE "none"
    <3>1. /\ lost \in Letter /\ lost.event \in Events /\ lost.at = "lost"
          /\ sent \in Letter /\ sent.event \in Events /\ sent.at = "sent"
          /\ told \in {"none", "ok", "error"} /\ (Dispatch!StopsOnError => told # "ok")
        BY Zenon DEF Letter, Dispatch!StopsOnError
    <3>2. \/ env' = [env EXCEPT ![e] = lost] /\ result' = [result EXCEPT ![e] = "error"]
          \/ env' = [env EXCEPT ![e] = sent] /\ result' = [result EXCEPT ![e] = told]
        BY Zenon, <2>1 DEF Dispatch!Publish
    <3> HIDE DEF lost, sent, told
    <3> QED BY Zenon, <3>1, <3>2
  <2>2. ASSUME Dispatch!ConnectionClosed(e)
        PROVE  \E a \in Letter, r \in {"none", "ok", "error"} :
                 /\ env' = [env EXCEPT ![e] = a] /\ result' = [result EXCEPT ![e] = r]
                 /\ a.event \in Events /\ a.at \in {"sent", "lost"} /\ (Dispatch!StopsOnError => r # "ok")
    <3> DEFINE lost == [env[e] EXCEPT !.at = "lost"]
               told == IF kind = "grpc" THEN "error" ELSE result[e]
    <3>1. env[e] \in Letter /\ env[e].event \in Events /\ env[e].at = "sent" /\ kind # "memory"
          /\ result[e] \in {"none", "ok", "error"}
        BY Zenon, <2>2 DEF Dispatch!ConnectionClosed, DispatchInvariant, DispatchType, Dispatched
    <3>2. lost \in Letter /\ lost.event \in Events /\ lost.at = "lost"
          /\ told \in {"none", "ok", "error"} /\ (Dispatch!StopsOnError => told # "ok")
        BY Zenon, <3>1 DEF Letter, Dispatch!StopsOnError
    <3>3. env' = [env EXCEPT ![e] = lost] /\ result' = [result EXCEPT ![e] = told]
        BY Zenon, <2>2 DEF Dispatch!ConnectionClosed
    <3> HIDE DEF lost, told
    <3> QED BY <3>2, <3>3, Zenon
  <2> QED BY Zenon, <2>1, <2>2
<1>3. DispatchType' /\ env'[e] = a /\ result'[e] = r
      /\ \A f \in Envelopes \ {e} : env'[f] = env[f] /\ result'[f] = result[f]
    BY Zenon, <1>1, <1>2 DEF DispatchInvariant, DispatchType
<1>4. Dispatched(e)'
    BY Zenon, <1>1, <1>2, <1>3 DEF DispatchInvariant, Dispatched, Dispatch!StopsOnError
<1> QED BY Zenon, <1>1, <1>3, <1>4, EnvelopeOnly

\* The copy of the lists holds exactly the open subscriptions, each once.
LEMMA DispatchStep ==
    ASSUME DispatchParameters, DispatchInvariant, NEW e \in Envelopes, Dispatch!dispatch(e)
    PROVE  DispatchInvariant'
<1>1. PICK event \in Events : env[e].event = event
    BY Zenon DEF Dispatch!dispatch, DispatchInvariant, Dispatched
<1> DEFINE a == table[event]
           b == table["*"]
           next == [env[e] EXCEPT !.at = "dispatch"]
<1>2. /\ env[e].at = "sent" /\ env' = [env EXCEPT ![e] = next]
      /\ dispatching' = [dispatching EXCEPT ![e] = a \o b] /\ due' = [due EXCEPT ![e] = Dispatch!Open(event)]
      /\ UNCHANGED <<kind, table, sub, called, result>>
    BY Zenon, <1>1 DEF Dispatch!dispatch, Dispatch!Handlers
<1>3. next \in Letter /\ next.event = event /\ next.at = "dispatch"
  <2>1. env[e] \in Letter
      BY Zenon DEF DispatchInvariant, DispatchType
  <2> QED BY Zenon, <1>1, <2>1 DEF Letter
<1>4. /\ event \in Dispatch!Topics /\ "*" \in Dispatch!Topics /\ event # "*" /\ a \in Seq(Slot) /\ b \in Seq(Slot)
    BY Zenon DEF DispatchParameters, DispatchInvariant, DispatchType, Dispatch!Topics
<1> HIDE DEF next
<1>b. PICK x \in Seq(Slot), y \in Seq(Slot) : x = a /\ y = b
    BY Zenon, <1>4
<1>c. dispatching' = [dispatching EXCEPT ![e] = x \o y]
    BY <1>2, <1>b, Zenon
<1>d. /\ x \o y \in Seq(Slot) /\ DOMAIN (x \o y) = 1..(Len(x) + Len(y))
      /\ \A j \in 1..(Len(x) + Len(y)) : (x \o y)[j] = IF j <= Len(x) THEN x[j] ELSE y[j - Len(x)]
    BY Concatenation, Zenon
<1>a. PICK all \in Seq(Slot) :
         /\ dispatching' = [dispatching EXCEPT ![e] = all]
         /\ DOMAIN all = 1..(Len(x) + Len(y))
         /\ \A j \in 1..(Len(x) + Len(y)) : all[j] = IF j <= Len(x) THEN x[j] ELSE y[j - Len(x)]
    BY <1>c, <1>d, Zenon
<1>5. Len(x) \in Nat /\ Len(y) \in Nat /\ DOMAIN x = 1..Len(x) /\ DOMAIN y = 1..Len(y)
    OBVIOUS
<1> DEFINE t(j) == IF j <= Len(x) THEN event ELSE "*"
           k(j) == IF j <= Len(x) THEN j ELSE j - Len(x)
<1>6. ASSUME NEW j \in DOMAIN all
      PROVE  t(j) \in Dispatch!Topics /\ k(j) \in DOMAIN table[t(j)] /\ all[j] = table[t(j)][k(j)]
  <2>1. j \in 1..(Len(x) + Len(y)) /\ all[j] = IF j <= Len(x) THEN x[j] ELSE y[j - Len(x)]
      BY Zenon, <1>a
  <2>2. j <= Len(x) => j \in DOMAIN x
      BY <1>5, <2>1
  <2>3. ~(j <= Len(x)) => j - Len(x) \in DOMAIN y
      BY <1>5, <2>1
  <2>4. x = table[event] /\ y = table["*"]
      BY Zenon, <1>b
  <2>5. CASE j <= Len(x)
      BY Zenon, <1>4, <2>1, <2>2, <2>4, <2>5
  <2>6. CASE ~(j <= Len(x))
      BY Zenon, <1>4, <2>1, <2>3, <2>4, <2>6
  <2> QED BY Zenon, <2>5, <2>6
<1>7. ASSUME NEW j \in DOMAIN all, NEW i \in DOMAIN all, t(j) = t(i), k(j) = k(i) PROVE j = i
    BY <1>a, <1>4, <1>5, <1>7
<1>8. ASSUME NEW j \in DOMAIN all, all[j] # Nil
      PROVE  /\ all[j] \in Dispatch!Open(event) /\ sub[all[j]].state = "open"
             /\ sub[all[j]].topic = t(j) /\ sub[all[j]].slot = k(j)
  <2>1. all[j] \in Subs
      BY <1>a, <1>8 DEF Slot
  <2>2. sub[all[j]].state = "open" /\ sub[all[j]].topic = t(j) /\ sub[all[j]].slot = k(j)
    <3> HIDE DEF t, k
    <3> QED BY <1>6, <1>8 DEF DispatchInvariant, Held
  <2>3. t(j) \in {event, "*"}
      BY Zenon
  <2> HIDE DEF t, k
  <2> QED BY Zenon, <2>1, <2>2, <2>3 DEF Dispatch!Open
<1>9. ASSUME NEW s \in Dispatch!Open(event) PROVE s \in Dispatch!Range(all)
  <2>1. s \in Subs /\ sub[s].state = "open" /\ sub[s].topic \in {event, "*"}
      BY Zenon DEF Dispatch!Open
  <2>2. sub[s].slot \in DOMAIN table[sub[s].topic] /\ table[sub[s].topic][sub[s].slot] = s
      BY Zenon, <2>1 DEF DispatchInvariant, Placed
  <2>3. CASE sub[s].topic = event
    <3>1. PICK i \in DOMAIN x : x[i] = s
        BY Zenon, <1>b, <2>2, <2>3
    <3>2. i \in DOMAIN all /\ i <= Len(x)
        BY <1>a, <1>5
    <3>3. all[i] = s
        BY Zenon, <1>a, <3>1, <3>2
    <3> QED BY Zenon, <3>2, <3>3 DEF Dispatch!Range
  <2>4. CASE sub[s].topic = "*"
    <3>1. PICK i \in DOMAIN y : y[i] = s
        BY Zenon, <1>b, <2>2, <2>4
    <3>2. Len(x) + i \in DOMAIN all /\ ~(Len(x) + i <= Len(x)) /\ (Len(x) + i) - Len(x) = i
        BY <1>a, <1>5
    <3>3. all[Len(x) + i] = s
        BY Zenon, <1>a, <3>1, <3>2
    <3> QED BY Zenon, <3>2, <3>3 DEF Dispatch!Range
  <2> QED BY Zenon, <2>1, <2>3, <2>4
<1>10. called[e] = <<>> /\ Dispatch!Range(called[e]) = {}
    BY <1>2 DEF DispatchInvariant, Dispatched, Dispatch!Range
<1> HIDE DEF t, k
<1>11. Pending(all, called[e], Dispatch!Open(event))
    BY Zenon, <1>7, <1>8, <1>9, <1>10 DEF Pending
<1>12. Dispatch!Open(event) \subseteq Subs
    BY Zenon DEF Dispatch!Open
<1>13. /\ DispatchType' /\ env'[e] = next /\ dispatching'[e] = all /\ due'[e] = Dispatch!Open(event)
       /\ \A f \in Envelopes \ {e} : env'[f] = env[f] /\ dispatching'[f] = dispatching[f] /\ due'[f] = due[f]
  <2>1. all \in Seq(Slot) /\ dispatching' = [dispatching EXCEPT ![e] = all]
      BY Zenon, <1>a, <1>2
  <2> QED BY <1>2, <1>3, <1>12, <2>1, Zenon DEF DispatchInvariant, DispatchType
<1>14. Dispatched(e)'
  <2>1. /\ Dispatch!Range(called[e]) \subseteq due'[e] /\ Dispatch!IsInjective(called[e])
        /\ ~(Dispatch!StopsOnError /\ result[e] = "ok")
      BY Zenon, <1>2, <1>10 DEF DispatchInvariant, Dispatched
  <2>2. Dispatch!StopsOnError' = Dispatch!StopsOnError /\ called' = called /\ result' = result /\ sub' = sub
      BY Zenon, <1>2 DEF Dispatch!StopsOnError
  <2> QED BY Zenon, <1>3, <1>8, <1>11, <1>13, <2>1, <2>2 DEF Dispatched
<1> QED BY Zenon, <1>2, <1>13, <1>14, EnvelopeOnly

\* One handler is called, or an empty slot is skipped.  MemoryTransport calls only
\* open subscriptions.
LEMMA CallStep ==
    ASSUME DispatchParameters, DispatchInvariant, NEW e \in Envelopes, NEW i, Dispatch!CallHandler(e, i)
    PROVE  /\ DispatchInvariant'
           /\ \A f \in Envelopes \ {e} : called'[f] = called[f]
           /\ \A s \in Dispatch!Range(called'[e]) \ Dispatch!Range(called[e]) : kind = "memory" => sub[s].state = "open"
<1> DEFINE h == dispatching[e][i]
           rest == Dispatch!Without(dispatching[e], i)
<1>1. /\ env[e].at = "dispatch" /\ i \in DOMAIN dispatching[e] /\ UNCHANGED <<kind, table, sub, due>>
      /\ \/ h = Nil /\ dispatching' = [dispatching EXCEPT ![e] = rest] /\ UNCHANGED <<env, called, result>>
         \/ /\ h # Nil /\ dispatching' = [dispatching EXCEPT ![e] = rest]
            /\ called' = [called EXCEPT ![e] = Append(called[e], h)] /\ UNCHANGED <<env, result>>
         \/ /\ h # Nil /\ called' = [called EXCEPT ![e] = Append(called[e], h)]
            /\ dispatching' = [dispatching EXCEPT ![e] = <<>>]
            /\ env' = [env EXCEPT ![e].at = "failed"] /\ result' = [result EXCEPT ![e] = "error"]
    BY Zenon DEF Dispatch!CallHandler, Dispatch!Callable, Dispatch!Running
<1>2. /\ dispatching[e] \in Seq(Slot) /\ called[e] \in Seq(Subs) /\ due[e] \in SUBSET Subs /\ h \in Slot
      /\ env[e] \in Letter /\ Dispatched(e) /\ Pending(dispatching[e], called[e], due[e]) /\ Nil \notin Subs
    BY <1>1 DEF DispatchInvariant, DispatchType, Dispatched, DispatchParameters
<1>3. /\ rest \in Seq(Slot) /\ \A j \in DOMAIN rest : \E k \in DOMAIN dispatching[e] : rest[j] = dispatching[e][k]
      /\ h = Nil => Pending(rest, called[e], due[e])
      /\ h # Nil => Pending(rest, Append(called[e], h), due[e])
    BY <1>1, <1>2, OneLess
<1>4. h # Nil => /\ h \in Subs /\ h \in due[e] /\ h \notin Dispatch!Range(called[e])
                 /\ kind = "memory" => sub[h].state = "open"
    BY Zenon, <1>1, <1>2 DEF Pending, Slot, Dispatched
<1>5. h # Nil => /\ Append(called[e], h) \in Seq(Subs)
                 /\ Dispatch!Range(Append(called[e], h)) = Dispatch!Range(called[e]) \cup {h}
                 /\ Dispatch!IsInjective(Append(called[e], h))
  <2> HIDE DEF h
  <2> QED BY <1>2, <1>4, Appended DEF Dispatched
<1>6. PICK left : /\ left \in Seq(Slot) /\ left = rest
                  /\ \A j \in DOMAIN left : \E k \in DOMAIN dispatching[e] : left[j] = dispatching[e][k]
                  /\ h = Nil => Pending(left, called[e], due[e])
                  /\ h # Nil => Pending(left, Append(called[e], h), due[e])
    BY <1>3, Zenon
<1> DEFINE still(q) == \A j \in DOMAIN q : q[j] # Nil => sub[q[j]].state = "open"
<1>7. kind = "memory" => still(left)
  <2>1. kind = "memory" => still(dispatching[e])
      BY Zenon, <1>1, <1>2 DEF Dispatched
  <2> HIDE DEF rest, h
  <2> QED BY Zenon, <1>6, <2>1
<1>8. /\ Dispatch!StopsOnError' = Dispatch!StopsOnError /\ ~(Dispatch!StopsOnError /\ result[e] = "ok")
      /\ env[e].event \in Events
    BY Zenon, <1>1, <1>2 DEF Dispatch!StopsOnError, Dispatched
<1>9. CASE h = Nil
  <2>1. dispatching' = [dispatching EXCEPT ![e] = left] /\ UNCHANGED <<env, called, result>>
      BY <1>1, <1>6, <1>9, Zenon
  <2> HIDE DEF h, rest
  <2>2. /\ DispatchType' /\ dispatching'[e] = left /\ \A f \in Envelopes \ {e} : dispatching'[f] = dispatching[f]
      BY Zenon, <1>1, <1>6, <2>1 DEF DispatchInvariant, DispatchType
  <2>3. Dispatched(e)'
    <3>1. Pending(left, called[e], due[e]) /\ (kind = "memory" => still(left))
        BY Zenon, <1>6, <1>7, <1>9
    <3>2. /\ Dispatch!Range(called[e]) \subseteq due[e] /\ Dispatch!IsInjective(called[e])
          /\ env[e].at = "dispatch"
        BY Zenon, <1>1, <1>2 DEF Dispatched
    <3> QED BY Zenon, <1>1, <1>8, <2>1, <2>2, <3>1, <3>2 DEF Dispatched
  <2> QED BY Zenon, <1>1, <2>1, <2>2, <2>3, EnvelopeOnly
<1>10. CASE h # Nil /\ env' = env
  <2>1. /\ dispatching' = [dispatching EXCEPT ![e] = left] /\ UNCHANGED <<env, result>>
        /\ called' = [called EXCEPT ![e] = Append(called[e], h)]
    <3>1. env[e].at # "failed"
        BY Zenon, <1>1
    <3>2. [env EXCEPT ![e].at = "failed"][e].at = "failed"
        BY Zenon, <1>2 DEF DispatchInvariant, DispatchType, Letter
    <3> QED BY <1>1, <1>6, <1>10, <3>1, <3>2, Zenon
  <2> HIDE DEF h, rest
  <2>2. PICK now \in Seq(Subs) : /\ now = Append(called[e], h) /\ called' = [called EXCEPT ![e] = now]
                                 /\ Dispatch!Range(now) = Dispatch!Range(called[e]) \cup {h} /\ Dispatch!IsInjective(now)
      BY <1>5, <1>10, <2>1, Zenon
  <2>3. Pending(left, now, due[e])
      BY <1>6, <1>10, <2>2, Zenon
  <2>4. /\ DispatchType' /\ dispatching'[e] = left /\ called'[e] = now
        /\ \A f \in Envelopes \ {e} : dispatching'[f] = dispatching[f] /\ called'[f] = called[f]
      BY <1>1, <1>6, <2>1, <2>2 DEF DispatchInvariant, DispatchType
  <2>5. Dispatch!Range(now) \subseteq due[e]
      BY Zenon, <1>2, <1>4, <1>10, <2>2 DEF Dispatched
  <2>6. Dispatched(e)'
      BY <1>1, <1>7, <1>8, <2>1, <2>2, <2>3, <2>4, <2>5 DEF Dispatched
  <2> QED BY Zenon, <1>1, <1>4, <1>10, <2>1, <2>2, <2>4, <2>6, EnvelopeOnly
<1>11. CASE h # Nil /\ env' # env
  <2>1. /\ called' = [called EXCEPT ![e] = Append(called[e], h)] /\ dispatching' = [dispatching EXCEPT ![e] = <<>>]
        /\ env' = [env EXCEPT ![e].at = "failed"] /\ result' = [result EXCEPT ![e] = "error"]
      BY <1>1, <1>11, Zenon
  <2> HIDE DEF h, rest
  <2>2. PICK now \in Seq(Subs) : /\ now = Append(called[e], h) /\ called' = [called EXCEPT ![e] = now]
                                 /\ Dispatch!Range(now) = Dispatch!Range(called[e]) \cup {h} /\ Dispatch!IsInjective(now)
      BY <1>5, <1>11, <2>1, Zenon
  <2>3. PICK a \in Letter : /\ env' = [env EXCEPT ![e] = a] /\ a.at = "failed"
                            /\ a.event = env[e].event
    <3> DEFINE a == [env[e] EXCEPT !.at = "failed"]
    <3>1. a \in Letter /\ a.at = "failed" /\ a.event = env[e].event
        BY <1>2, Zenon DEF Letter
    <3>2. env' = [env EXCEPT ![e] = a]
        BY Zenon, <2>1
    <3> HIDE DEF a
    <3> QED BY <3>1, <3>2, Zenon
  <2>4. /\ DispatchType' /\ called'[e] = now /\ env'[e] = a /\ result'[e] = "error"
        /\ \A f \in Envelopes \ {e} : /\ dispatching'[f] = dispatching[f] /\ called'[f] = called[f]
                                      /\ env'[f] = env[f] /\ result'[f] = result[f]
    <3>1. <<>> \in Seq(Slot)
        OBVIOUS
    <3>2. /\ dispatching' = [dispatching EXCEPT ![e] = <<>>] /\ result' = [result EXCEPT ![e] = "error"]
          /\ called' = [called EXCEPT ![e] = now] /\ UNCHANGED <<kind, table, sub, due>>
        BY Zenon, <1>1, <2>1, <2>2
    <3>3. /\ dispatching' \in [Envelopes -> Seq(Slot)] /\ \A f \in Envelopes \ {e} : dispatching'[f] = dispatching[f]
        BY Zenon, <3>1, <3>2 DEF DispatchInvariant, DispatchType
    <3>4. /\ called' \in [Envelopes -> Seq(Subs)] /\ called'[e] = now
          /\ \A f \in Envelopes \ {e} : called'[f] = called[f]
        BY Zenon, <3>2 DEF DispatchInvariant, DispatchType
    <3>5. /\ env' \in [Envelopes -> Letter] /\ env'[e] = a
          /\ \A f \in Envelopes \ {e} : env'[f] = env[f]
        BY Zenon, <2>3 DEF DispatchInvariant, DispatchType
    <3>6. /\ result' \in [Envelopes -> {"none", "ok", "error"}] /\ result'[e] = "error"
          /\ \A f \in Envelopes \ {e} : result'[f] = result[f]
        BY Zenon, <3>2 DEF DispatchInvariant, DispatchType
    <3> QED BY Zenon, <3>2, <3>3, <3>4, <3>5, <3>6 DEF DispatchInvariant, DispatchType
  <2>5. Dispatch!Range(now) \subseteq due[e]
      BY Zenon, <1>2, <1>4, <1>11, <2>2 DEF Dispatched
  <2>6. Dispatched(e)'
      BY Zenon, <1>1, <1>8, <2>2, <2>3, <2>4, <2>5 DEF Dispatched
  <2> QED BY Zenon, <1>1, <1>4, <1>11, <2>2, <2>4, <2>6, EnvelopeOnly
<1> QED BY Zenon, <1>9, <1>10, <1>11

\* A dispatch that has gone through all slots has called everyone.
LEMMA ReturnStep ==
    ASSUME DispatchParameters, DispatchInvariant, NEW e \in Envelopes, Dispatch!Return(e)
    PROVE  DispatchInvariant'
<1>1. /\ env[e].at = "dispatch" /\ dispatching[e] = <<>> /\ env' = [env EXCEPT ![e].at = "done"]
      /\ result' = [result EXCEPT ![e] = "ok"] /\ UNCHANGED <<kind, table, sub, dispatching, due, called>>
    BY Zenon DEF Dispatch!Return, Dispatch!Running
<1>2. env[e] \in Letter /\ Dispatched(e) /\ Pending(dispatching[e], called[e], due[e])
    BY Zenon, <1>1 DEF DispatchInvariant, DispatchType, Dispatched
<1>3. PICK a \in Letter : env' = [env EXCEPT ![e] = a] /\ a.at = "done" /\ a.event = env[e].event
  <2> DEFINE a == [env[e] EXCEPT !.at = "done"]
  <2>1. a \in Letter /\ a.at = "done" /\ a.event = env[e].event
      BY Zenon, <1>2 DEF Letter
  <2>2. env' = [env EXCEPT ![e] = a]
      BY Zenon, <1>1
  <2> HIDE DEF a
  <2> QED BY <2>1, <2>2, Zenon
<1>4. /\ DispatchType' /\ env'[e] = a /\ result'[e] = "ok"
      /\ \A f \in Envelopes \ {e} : env'[f] = env[f] /\ result'[f] = result[f]
    BY <1>1, <1>3, Zenon DEF DispatchInvariant, DispatchType
<1>5. Dispatch!Range(called[e]) = due[e]
  <2>1. Dispatch!Range(dispatching[e]) = {}
      BY <1>1 DEF Dispatch!Range
  <2> QED BY <1>2, <2>1, Zenon DEF Pending, Dispatched
<1>6. Dispatched(e)'
    BY Zenon, <1>1, <1>2, <1>3, <1>4, <1>5 DEF Dispatched
<1> QED BY Zenon, <1>1, <1>4, <1>6, EnvelopeOnly

\* For any subscriptions, events and envelopes: a dispatch calls those that are
\* due, and MemoryTransport nobody whose Close has returned.
THEOREM DispatchStaysFaithful == Dispatch!Spec => DispatchFaithful
<1> DispatchParameters
    BY Zenon, LayerAssumption
<1>1. Dispatch!Init => DispatchInvariant
  <2> SUFFICES ASSUME Dispatch!Init PROVE DispatchInvariant
      BY Zenon
  <2>1. Dispatch!NewSub \in Subscription /\ Dispatch!NewSub.state = "new" /\ Dispatch!NewEnvelope \in Letter /\ Dispatch!NewEnvelope.at = "new"
      BY Zenon DEF Dispatch!NewSub, Dispatch!NewEnvelope, Subscription, Letter
  <2>2. <<>> \in Seq(Slot) /\ <<>> \in Seq(Subs) /\ Dispatch!Range(<<>>) = {} /\ Dispatch!IsInjective(<<>>)
      BY DEF Dispatch!Range, Dispatch!IsInjective
  <2>3. DispatchType
      BY Zenon, <2>1, <2>2 DEF Dispatch!Init, DispatchType
  <2>4. ASSUME NEW s \in Subs PROVE Placed(s)
      BY Zenon, <2>1 DEF Dispatch!Init, Placed
  <2>5. ASSUME NEW t \in Dispatch!Topics PROVE Held(t)
      BY DEF Dispatch!Init, Held
  <2>6. ASSUME NEW e \in Envelopes PROVE Dispatched(e)
    <3>1. env[e].at = "new" /\ called[e] = <<>> /\ due[e] = {} /\ result[e] = "none"
        BY Zenon, <2>1 DEF Dispatch!Init
    <3> QED BY Zenon, <2>2, <3>1 DEF Dispatched
  <2> QED BY Zenon, <2>3, <2>4, <2>5, <2>6 DEF DispatchInvariant
<1> DEFINE Timely == \A e \in Envelopes : \A s \in Dispatch!Range(called'[e]) \ Dispatch!Range(called[e]) :
                         kind = "memory" => sub[s].state = "open"
<1>2. DispatchInvariant /\ [Dispatch!Next]_Dispatch!vars => DispatchInvariant' /\ [Timely]_Dispatch!vars
  <2> SUFFICES ASSUME DispatchInvariant, [Dispatch!Next]_Dispatch!vars PROVE DispatchInvariant' /\ [Timely]_Dispatch!vars
      BY Zenon
  <2>1. CASE UNCHANGED Dispatch!vars
    <3>1. /\ kind' = kind /\ table' = table /\ sub' = sub /\ env' = env
          /\ dispatching' = dispatching /\ due' = due /\ called' = called /\ result' = result
        BY Zenon, <2>1 DEF Dispatch!vars
    <3>2. DispatchType'
        BY Zenon, <3>1 DEF DispatchInvariant, DispatchType
    <3>3. \A s \in Subs : Placed(s)'
        BY Zenon, <3>1 DEF DispatchInvariant, Placed
    <3>4. \A t \in Dispatch!Topics : Held(t)'
        BY <3>1 DEF DispatchInvariant, Held
    <3>5. ASSUME NEW e \in Envelopes PROVE Dispatched(e)'
      <4>1. Dispatched(e)
          BY Zenon DEF DispatchInvariant
      <4> QED BY <3>1, <4>1, Zenon DEF Dispatched, Dispatch!StopsOnError, Pending
    <3> QED BY Zenon, <2>1, <3>2, <3>3, <3>4, <3>5 DEF DispatchInvariant
  <2>2. ASSUME NEW e \in Envelopes, NEW i, Dispatch!CallHandler(e, i) PROVE DispatchInvariant' /\ Timely
      BY Zenon, <2>2, CallStep
  <2>3. ASSUME UNCHANGED called PROVE Timely
      BY Zenon, <2>3
  <2>4. ASSUME NEW s \in Subs, Dispatch!CloseSubscription(s) \/ \E t \in Dispatch!Topics : Dispatch!Subscribe(s, t)
        PROVE  DispatchInvariant' /\ Timely
    <3>1. UNCHANGED called
        BY Zenon, <2>4 DEF Dispatch!CloseSubscription, Dispatch!Subscribe, Dispatch!dispatchVars
    <3> QED BY Zenon, <2>3, <2>4, <3>1, CloseStep, SubscribeStep
  <2>5. ASSUME NEW e \in Envelopes,
               \/ \E event \in Events : Dispatch!Publish(e, event)
               \/ Dispatch!ConnectionClosed(e) \/ Dispatch!dispatch(e) \/ Dispatch!Return(e)
        PROVE  DispatchInvariant' /\ Timely
    <3>1. UNCHANGED called
        BY Zenon, <2>5
           DEF Dispatch!Publish, Dispatch!ConnectionClosed, Dispatch!dispatch, Dispatch!Return
    <3> QED BY Zenon, <2>3, <2>5, <3>1, SendStep, DispatchStep, ReturnStep
  <2> HIDE DEF Timely
  <2> QED BY Zenon, <2>1, <2>2, <2>4, <2>5 DEF Dispatch!Next
<1>3. DispatchInvariant => Dispatch!TypeOK /\ Dispatch!OwnSlot /\ Dispatch!CallsDue
  <2> SUFFICES ASSUME DispatchInvariant PROVE Dispatch!TypeOK /\ Dispatch!OwnSlot /\ Dispatch!CallsDue
      BY Zenon
  <2>1. Dispatch!TypeOK
      BY Zenon DEF DispatchInvariant, DispatchType, Dispatch!TypeOK, Slot, Subscription, Letter
  <2>2. Dispatch!OwnSlot
      BY DEF DispatchInvariant, Placed, Held, Dispatch!OwnSlot
  <2>3. Dispatch!CallsDue
      BY Zenon DEF DispatchInvariant, Dispatched, Dispatch!CallsDue
  <2> QED BY Zenon, <2>1, <2>2, <2>3
<1> QED BY <1>1, <1>2, <1>3, PTL
           DEF Dispatch!Spec, DispatchFaithful, Dispatch!DispatchFaithful, Dispatch!NoLateCall
=============================================================================
