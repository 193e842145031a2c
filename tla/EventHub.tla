------------------------------ MODULE EventHub ------------------------------
(***************************************************************************)
(* The Hub of the Go daemon (server.go) and the SSE and WebSocket handlers *)
(* that use it: each connection subscribes with a bounded channel, Publish *)
(* offers an envelope to every channel under the read lock and drops it    *)
(* where the channel is full, a handler that ends unsubscribes under the   *)
(* write lock, which closes the channel.                                   *)
(*                                                                         *)
(* A WebSocket connection has two goroutines: the writer drains the        *)
(* channel until it is closed or a write fails, the reader decides when    *)
(* the handler ends.  An SSE connection has one.                           *)
(***************************************************************************)
EXTENDS Naturals, Sequences

CONSTANTS Streams,     \* SSE connections
          Sockets,     \* WebSocket connections
          Publishers,  \* goroutines that publish
          Capacity,    \* length of a channel (64 in the code)
          Rounds       \* bound: publications of each publisher

VARIABLES
    conn,      \* state of each connection
    chan,      \* its channel: [p |-> publisher, n |-> publication] in order
    reader,    \* whether something still receives from the channel
    received,  \* per publisher, the last publication it received
    todo,      \* per publisher, the channels Publish has yet to offer to
    readers,   \* publishers that hold the read lock
    round      \* per publisher, how many publications it has begun

vars == <<conn, chan, reader, received, todo, readers, round>>

Conns == Streams \cup Sockets

Init ==
    /\ conn = [c \in Conns |-> "new"]
    /\ chan = [c \in Conns |-> <<>>]
    /\ reader = [c \in Conns |-> FALSE]
    /\ received = [c \in Conns |-> [p \in Publishers |-> 0]]
    /\ todo = [p \in Publishers |-> {}]
    /\ readers = {}
    /\ round = [p \in Publishers |-> 0]

Registered(c) == conn[c] \in {"open", "leaving"}
WriterWaiting == \E c \in Conns : conn[c] \in {"joining", "leaving"}

\* The write lock: no reader inside; a waiting writer keeps new readers out.
NoLock == TRUE
WriteLock == readers = {}
ReadLock == ~WriterWaiting

-----------------------------------------------------------------------------
\* A request arrives, and waits for the lock in Hub.Subscribe.
Connect(c) ==
    /\ conn[c] = "new"
    /\ conn' = [conn EXCEPT ![c] = "joining"]
    /\ UNCHANGED <<chan, reader, received, todo, readers, round>>

Subscribe(c) ==
    /\ conn[c] = "joining" /\ readers = {}
    /\ conn' = [conn EXCEPT ![c] = "open"]
    /\ reader' = [reader EXCEPT ![c] = TRUE]
    /\ UNCHANGED <<chan, received, todo, readers, round>>

\* The request ends: SSE stops receiving here, the writer of a socket does not.
Leave(c) ==
    /\ conn[c] = "open"
    /\ conn' = [conn EXCEPT ![c] = "leaving"]
    /\ reader' = [reader EXCEPT ![c] = @ /\ c \in Sockets]
    /\ UNCHANGED <<chan, received, todo, readers, round>>

\* The deferred Unsubscribe: out of the map, and the channel is closed.
Unsubscribe(c) ==
    /\ conn[c] = "leaving" /\ WriteLock
    /\ conn' = [conn EXCEPT ![c] = "closed"]
    /\ UNCHANGED <<chan, reader, received, todo, readers, round>>

Receive(c) ==
    /\ reader[c] /\ chan[c] # <<>>
    /\ received' = [received EXCEPT ![c][Head(chan[c]).p] = Head(chan[c]).n]
    /\ chan' = [chan EXCEPT ![c] = Tail(@)]
    /\ UNCHANGED <<conn, reader, todo, readers, round>>

\* A write on the socket fails: the writer ends, the reader does not notice.
WriteFails(c) ==
    /\ c \in Sockets /\ reader[c] /\ chan[c] # <<>>
    /\ chan' = [chan EXCEPT ![c] = Tail(@)]
    /\ reader' = [reader EXCEPT ![c] = FALSE]
    /\ UNCHANGED <<conn, received, todo, readers, round>>

\* The writer's range ends when the channel is closed and empty.
Drained(c) == conn[c] = "closed" /\ chan[c] = <<>>
WriterEnds(c) ==
    /\ reader[c] /\ Drained(c)
    /\ reader' = [reader EXCEPT ![c] = FALSE]
    /\ UNCHANGED <<conn, chan, received, todo, readers, round>>

-----------------------------------------------------------------------------
\* Hub.Publish under the read lock.
Publish(p) ==
    /\ p \notin readers /\ round[p] < Rounds /\ ReadLock
    /\ readers' = readers \cup {p}
    /\ round' = [round EXCEPT ![p] = @ + 1]
    /\ todo' = [todo EXCEPT ![p] = {c \in Conns : Registered(c)}]
    /\ UNCHANGED <<conn, chan, reader, received>>

\* One select: send, or drop what the channel has no room for.
Blocking(c) == Len(chan[c]) < Capacity
Selects(c) == TRUE
Sent(c, e) == Append(chan[c], e)
HasRoom(c) == Len(chan[c]) < Capacity
Offer(p, c) ==
    /\ p \in readers /\ c \in todo[p] /\ Selects(c)
    /\ chan' = [chan EXCEPT ![c] =
         IF HasRoom(c) THEN Sent(c, [p |-> p, n |-> round[p]]) ELSE @]
    /\ todo' = [todo EXCEPT ![p] = @ \ {c}]
    /\ UNCHANGED <<conn, reader, received, readers, round>>

Published(p) ==
    /\ p \in readers /\ todo[p] = {}
    /\ readers' = readers \ {p}
    /\ UNCHANGED <<conn, chan, reader, received, todo, round>>

PublisherStep(p) == Published(p) \/ \E c \in Conns : Offer(p, c)

Next ==
    \/ \E c \in Conns :
         \/ Connect(c) \/ Subscribe(c) \/ Leave(c) \/ Unsubscribe(c)
         \/ Receive(c) \/ WriteFails(c) \/ WriterEnds(c)
    \/ \E p \in Publishers : Publish(p) \/ PublisherStep(p)

\* A goroutine that can go on does.  Nothing makes a client read: Receive is
\* fair only once the channel is closed and the deferred conn.Close has ended a
\* write that was stuck.
Fairness ==
    /\ \A p \in Publishers : WF_vars(PublisherStep(p))
    /\ \A c \in Conns :
         /\ WF_vars(Subscribe(c)) /\ WF_vars(Unsubscribe(c)) /\ WF_vars(WriterEnds(c))
         /\ WF_vars(conn[c] = "closed" /\ (Receive(c) \/ WriteFails(c)))

Spec == Init /\ [][Next]_vars
FairSpec == Spec /\ Fairness

-----------------------------------------------------------------------------
\* Every variable holds a value of its type, and no channel exceeds its length.
TypeOK ==
    /\ conn \in [Conns -> {"new", "joining", "open", "leaving", "closed"}]
    /\ reader \in [Conns -> BOOLEAN]
    /\ \A c \in Conns : Len(chan[c]) <= Capacity
    /\ \A p \in Publishers : todo[p] \subseteq Conns /\ round[p] \in 0..Rounds
    /\ readers \subseteq Publishers

\* Publish never sends on a channel that Unsubscribe has closed, which would
\* end the daemon with a panic.
NeverSendsOnClosed ==
    \A p \in readers : \A c \in todo[p] : Registered(c)

\* A connection sees the publications of one goroutine in their order, each at
\* most once, whatever was dropped in between.
PublisherOrder ==
    \A c \in Conns : \A i \in DOMAIN chan[c] :
        /\ received[c][chan[c][i].p] < chan[c][i].n
        /\ \A j \in DOMAIN chan[c] :
              i < j /\ chan[c][i].p = chan[c][j].p => chan[c][i].n < chan[c][j].n

\* The hub never sends on a closed channel, no channel exceeds its length, and a
\* connection sees the publications of a goroutine in their order.
HubFaithful == TypeOK /\ NeverSendsOnClosed /\ PublisherOrder

\* A handler that has ended leaves the hub, although its channel is full and
\* nobody reads from it: no publisher waits for a slow client.
LeaverUnsubscribed == \A c \in Conns : (conn[c] = "leaving") ~> (conn[c] = "closed")

\* The writer goroutine of a socket does not outlive its handler.
NoWriterLeft == \A c \in Conns : (conn[c] = "closed") ~> ~reader[c]
=============================================================================
