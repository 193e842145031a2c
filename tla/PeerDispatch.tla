---------------------------- MODULE PeerDispatch ----------------------------
(***************************************************************************)
(* The point-to-point transports of the Go runtime: QUIC, TCP, gRPC and    *)
(* the in-process MemoryTransport.  Subscribe puts a handler in a slot of  *)
(* the topic's list and returns a subscription that remembers the index;   *)
(* closing it empties the slot.  An arriving envelope is dispatched to the *)
(* handlers of its event and of "*", from a copy of the lists taken under  *)
(* the mutex, called one by one after it is released.  MemoryTransport     *)
(* takes no copy: it holds the read lock while it calls the handlers, and  *)
(* Subscribe and Close wait for it.                                        *)
(***************************************************************************)
EXTENDS Naturals, Sequences, FiniteSets, Functions

CONSTANTS Kinds,       \* the kinds of transport a behaviour may have
          Events,
          Subs,        \* subscriptions
          Envelopes,   \* calls of Publish
          Nil

VARIABLES
    kind,
    table,   \* handlers: per topic a sequence of slots
    sub,     \* per subscription its topic, its slot and whether it is open
    env,     \* per envelope its event, and how far it has come
    todo,    \* the slots its dispatch has yet to call
    due,     \* the subscriptions open for it when its dispatch began
    called,  \* the handlers called with it, in order
    result   \* what Publish has told its caller

vars == <<kind, table, sub, env, todo, due, called, result>>
dispatchVars == <<env, todo, due, called, result>>

Topics == Events \cup {"*"}
NewSub == [topic |-> Nil, slot |-> 0, state |-> "new"]
NewEnvelope == [event |-> Nil, at |-> "new"]

Init ==
    /\ kind \in Kinds
    /\ table = [t \in Topics |-> <<>>]
    /\ sub = [s \in Subs |-> NewSub]
    /\ env = [e \in Envelopes |-> NewEnvelope]
    /\ todo = [e \in Envelopes |-> <<>>]
    /\ due = [e \in Envelopes |-> {}]
    /\ called = [e \in Envelopes |-> <<>>]
    /\ result = [e \in Envelopes |-> "none"]

Running(e) == env[e].at = "dispatch"

\* The write lock of MemoryTransport is free only between publications.
TableFree == kind = "memory" => \A e \in Envelopes : ~Running(e)

\* A list without its i-th element.
Without(slots, i) == SubSeq(slots, 1, i - 1) \o SubSeq(slots, i + 1, Len(slots))

-----------------------------------------------------------------------------
Subscribe(s, t) ==
    /\ sub[s].state = "new" /\ TableFree
    /\ table' = [table EXCEPT ![t] = Append(@, s)]
    /\ sub' = [sub EXCEPT ![s] = [topic |-> t, slot |-> Len(table[t]) + 1, state |-> "open"]]
    /\ UNCHANGED <<kind, dispatchVars>>

\* The slot stays, empty: the indexes of the other subscriptions do not move.
Compacted(slots, i) == Without(slots, i)
Emptied(slots, i) == IF i <= Len(slots) THEN [slots EXCEPT ![i] = Nil] ELSE slots

\* funcSubscription runs its close function once.
CloseSubscription(s) ==
    /\ sub[s].state = "open" /\ TableFree
    /\ table' = [table EXCEPT ![sub[s].topic] = Emptied(@, sub[s].slot)]
    /\ sub' = [sub EXCEPT ![s].state = "closed"]
    /\ UNCHANGED <<kind, dispatchVars>>

\* Publish fails before anything is sent, or the envelope is on its way: QUIC
\* and TCP report success once it is written, gRPC and memory wait for the
\* dispatch.
Publish(e, event) ==
    /\ env[e].at = "new"
    /\ \/ env' = [env EXCEPT ![e] = [event |-> event, at |-> "lost"]]
          /\ result' = [result EXCEPT ![e] = "error"]
       \/ env' = [env EXCEPT ![e] = [event |-> event, at |-> "sent"]]
          /\ result' = [result EXCEPT ![e] = IF kind \in {"quic", "tcp"} THEN "ok" ELSE "none"]
    /\ UNCHANGED <<kind, table, sub, todo, due, called>>

\* The connection closes before the peer has read the stream: Publish closes it
\* as soon as it has written (the deferred CloseWithError of QUIC, the
\* deferred Close of TCP).  A broken gRPC call is reported.
ConnectionClosed(e) ==
    /\ env[e].at = "sent" /\ kind # "memory"
    /\ env' = [env EXCEPT ![e].at = "lost"]
    /\ result' = [result EXCEPT ![e] = IF kind = "grpc" THEN "error" ELSE @]
    /\ UNCHANGED <<kind, table, sub, todo, due, called>>

\* The lists are copied under the mutex.
Handlers(event) == table[event] \o table["*"]
Open(event) == {s \in Subs : sub[s].state = "open" /\ sub[s].topic \in {event, "*"}}

dispatch(e) ==
    /\ env[e].at = "sent"
    /\ env' = [env EXCEPT ![e].at = "dispatch"]
    /\ todo' = [todo EXCEPT ![e] = Handlers(env[e].event)]
    /\ due' = [due EXCEPT ![e] = Open(env[e].event)]
    /\ UNCHANGED <<kind, table, sub, called, result>>

\* A handler's error ends the dispatch of gRPC and memory, and is their result.
StopsOnError == kind \in {"grpc", "memory"}

\* A slot that Close emptied is skipped.  MemoryTransport iterates over a map.
Callable(h) == h # Nil

CallHandler(e, i) ==
    /\ Running(e) /\ i \in DOMAIN todo[e] /\ (kind = "memory" \/ i = 1)
    /\ LET h == todo[e][i]
           rest == Without(todo[e], i)
           call == [called EXCEPT ![e] = Append(@, h)]
       IN  \/ /\ ~Callable(h) /\ todo' = [todo EXCEPT ![e] = rest]
              /\ UNCHANGED <<env, called, result>>
           \/ /\ Callable(h) /\ todo' = [todo EXCEPT ![e] = rest] /\ called' = call
              /\ UNCHANGED <<env, result>>
           \/ /\ Callable(h) /\ StopsOnError /\ called' = call
              /\ todo' = [todo EXCEPT ![e] = <<>>]
              /\ env' = [env EXCEPT ![e].at = "failed"]
              /\ result' = [result EXCEPT ![e] = "error"]
    /\ UNCHANGED <<kind, table, sub, due>>

Return(e) ==
    /\ Running(e) /\ todo[e] = <<>>
    /\ env' = [env EXCEPT ![e].at = "done"]
    /\ result' = [result EXCEPT ![e] = "ok"]
    /\ UNCHANGED <<kind, table, sub, todo, due, called>>

Next ==
    \/ \E s \in Subs : CloseSubscription(s) \/ \E t \in Topics : Subscribe(s, t)
    \/ \E e \in Envelopes :
         \/ \E event \in Events : Publish(e, event)
         \/ ConnectionClosed(e) \/ dispatch(e) \/ Return(e)
         \/ \E i \in 1..Cardinality(Subs) : CallHandler(e, i)

Spec == Init /\ [][Next]_vars

-----------------------------------------------------------------------------
\* Every variable holds a value of its type.
TypeOK ==
    /\ kind \in Kinds
    /\ \A t \in Topics : table[t] \in Seq(Subs \cup {Nil})
    /\ \A s \in Subs : sub[s].state \in {"new", "open", "closed"} /\ sub[s].slot \in Nat
    /\ \A e \in Envelopes :
         /\ env[e].at \in {"new", "sent", "lost", "dispatch", "done", "failed"}
         /\ todo[e] \in Seq(Subs \cup {Nil}) /\ called[e] \in Seq(Subs) /\ due[e] \subseteq Subs
         /\ result[e] \in {"none", "ok", "error"}

\* The index a subscription remembers is its own slot as long as it is open, and
\* no slot calls a closed one, however many subscriptions come and go.
OwnSlot ==
    /\ \A s \in Subs : sub[s].state = "open" =>
          /\ sub[s].slot \in DOMAIN table[sub[s].topic]
          /\ table[sub[s].topic][sub[s].slot] = s
    /\ \A t \in Topics : \A i \in DOMAIN table[t] :
          table[t][i] # Nil => sub[table[t][i]].state = "open"

\* A dispatch calls exactly the subscriptions that were open for the event when
\* it began, each once, although subscriptions come and go while it runs; when
\* it is done it has called them all, and what gRPC and memory report as
\* published has been dispatched.
CallsDue ==
    \A e \in Envelopes :
        /\ Range(called[e]) \subseteq due[e]
        /\ IsInjective(called[e])
        /\ env[e].at = "done" => Range(called[e]) = due[e]
        /\ StopsOnError /\ result[e] = "ok" => env[e].at = "done"

\* MemoryTransport never calls a handler whose Close has returned; the others
\* may, from a copy taken earlier.
NoLateCall ==
    [][\A e \in Envelopes : \A s \in Range(called'[e]) \ Range(called[e]) :
         kind = "memory" => sub[s].state = "open"]_vars

\* What a dispatch does is decided by the subscriptions of the instant it began
\* (Subscribe, funcSubscription.Close, dispatch).
DispatchFaithful == [](TypeOK /\ OwnSlot /\ CallsDue) /\ NoLateCall
=============================================================================
