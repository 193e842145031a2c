---------------------------- MODULE BrokerProofs ----------------------------
(***************************************************************************)
(* Machine-checked proofs about the brokers: the hub of the Go daemon,     *)
(* which keeps the order of what is published, for any connections and     *)
(* publishers; its broker loops, which settle a message when it is stored, *)
(* for any messages and faults; and the in-memory broker of the Zig        *)
(* runtime, for any capacity, keys, workers and lease durations.           *)
(***************************************************************************)
EXTENDS MemoryBroker, BrokerLayer, Sequences, WellFoundedInduction, TLAPS

-----------------------------------------------------------------------------
\* The hub.

\* What is in a channel, and the types of the variables.
Publication == [p : Publishers, n : Nat]
HubType ==
    /\ conn \in [Hub!Conns -> {"new", "joining", "open", "leaving", "closed"}]
    /\ chan \in [Hub!Conns -> Seq(Publication)] /\ \A c \in Hub!Conns : Len(chan[c]) <= ChanCapacity
    /\ reader \in [Hub!Conns -> BOOLEAN]
    /\ received \in [Hub!Conns -> [Publishers -> Nat]]
    /\ offering \in [Publishers -> SUBSET Hub!Conns] /\ readers \subseteq Publishers
    /\ round \in [Publishers -> 0..Rounds]

\* In a channel the publications of one goroutine are in order, behind what was
\* received and not ahead of what has begun.
InOrder(s, got, begun) ==
    \A i \in DOMAIN s :
        /\ got[s[i].p] < s[i].n /\ s[i].n <= begun[s[i].p]
        /\ \A j \in DOMAIN s : i < j /\ s[i].p = s[j].p => s[i].n < s[j].n

\* A publication that is yet to be offered to a connection is newer than all of
\* its goroutine that the connection has seen.
Newer(p, c) ==
    /\ received[c][p] < round[p]
    /\ \A i \in DOMAIN chan[c] : chan[c][i].p = p => chan[c][i].n < round[p]

\* The inductive invariant: what is in a channel is in order, and a publisher that
\* holds the read lock offers only to connections that are still registered.
HubInvariant ==
    /\ HubType
    /\ \A c \in Hub!Conns : InOrder(chan[c], received[c], round)
    /\ \A c \in Hub!Conns, p \in Publishers : received[c][p] <= round[p]
    /\ \A p \in readers : \A c \in offering[p] : Hub!Registered(c) /\ Newer(p, c)

\* The fields of what is in a channel.
LEMMA Channels ==
    ASSUME HubInvariant, NEW c \in Hub!Conns, NEW i \in DOMAIN chan[c]
    PROVE  chan[c][i].p \in Publishers /\ chan[c][i].n \in Nat
<1>1. chan[c] \in Seq(Publication)
    BY Zenon DEF HubInvariant, HubType
<1>2. chan[c][i] \in Publication
    BY <1>1
<1> QED BY Zenon, <1>2 DEF Publication

\* The first of the channel is received: the others are newer.
LEMMA ReceiveStep ==
    ASSUME HubParameters, HubInvariant, NEW c \in Hub!Conns, Hub!Receive(c) \/ Hub!WriteFails(c)
    PROVE  HubInvariant'
<1> DEFINE s == chan[c]
           e == Head(s)
<1>1. /\ s \in Seq(Publication) /\ s # <<>> /\ Len(s) <= ChanCapacity
      /\ chan' = [chan EXCEPT ![c] = Tail(s)]
      /\ UNCHANGED <<conn, offering, readers, round>>
    BY Zenon DEF HubInvariant, HubType, Hub!Receive, Hub!WriteFails
<1>2. /\ e \in Publication /\ e = s[1] /\ 1 \in DOMAIN s /\ e.p \in Publishers /\ e.n \in Nat
      /\ Tail(s) \in Seq(Publication) /\ Len(Tail(s)) = Len(s) - 1
      /\ \A i \in DOMAIN Tail(s) : i + 1 \in DOMAIN s /\ Tail(s)[i] = s[i + 1]
  <2>1. e \in Publication /\ e = s[1] /\ 1 \in DOMAIN s
      BY <1>1
  <2>2. e.p \in Publishers /\ e.n \in Nat
      BY Zenon, <2>1 DEF Publication
  <2>3. /\ Tail(s) \in Seq(Publication) /\ Len(Tail(s)) = Len(s) - 1
        /\ \A i \in DOMAIN Tail(s) : i + 1 \in DOMAIN s /\ Tail(s)[i] = s[i + 1]
      BY <1>1
  <2> QED BY Zenon, <2>1, <2>2, <2>3
<1>3. \/ received' = received
      \/ /\ received' = [received EXCEPT ![c][e.p] = e.n] /\ received' \in [Hub!Conns -> [Publishers -> Nat]]
  <2>1. received' = received \/ received' = [received EXCEPT ![c][e.p] = e.n]
      BY Zenon DEF Hub!Receive, Hub!WriteFails
  <2>2. received \in [Hub!Conns -> [Publishers -> Nat]]
      BY Zenon DEF HubInvariant, HubType
  <2>3. [received EXCEPT ![c][e.p] = e.n] \in [Hub!Conns -> [Publishers -> Nat]]
    <3> HIDE DEF e
    <3> QED BY Zenon, <1>2, <2>2
  <2> QED BY Zenon, <2>1, <2>3
<1>4. HubType'
  <2>1. reader' \in [Hub!Conns -> BOOLEAN]
      BY Zenon DEF Hub!Receive, Hub!WriteFails, HubInvariant, HubType
  <2>2. received' \in [Hub!Conns -> [Publishers -> Nat]]
      BY Zenon, <1>3 DEF HubInvariant, HubType
  <2>3. chan' \in [Hub!Conns -> Seq(Publication)]
      BY Zenon, <1>1, <1>2 DEF HubInvariant, HubType
  <2>4. ASSUME NEW d \in Hub!Conns PROVE Len(chan'[d]) <= ChanCapacity
    <3>1. chan'[d] = (IF d = c THEN Tail(s) ELSE chan[d])
        BY Zenon, <1>1 DEF HubInvariant, HubType
    <3>2. Len(s) \in Nat /\ Len(Tail(s)) <= ChanCapacity
        BY <1>1, <1>2 DEF HubParameters
    <3> QED BY Zenon, <3>1, <3>2 DEF HubInvariant, HubType
  <2> QED BY Zenon, <1>1, <2>1, <2>2, <2>3, <2>4 DEF HubInvariant, HubType
<1>5. ASSUME NEW d \in Hub!Conns, NEW i \in DOMAIN chan[d]
      PROVE  chan[d][i].p \in Publishers /\ chan[d][i].n \in Nat
    BY Zenon, Channels
<1>6. ASSUME NEW p \in Publishers
      PROVE  /\ received'[c][p] \in Nat /\ received[c][p] \in Nat /\ round[p] \in Nat
             /\ received'[c][p] \in {received[c][p], IF p = e.p THEN e.n ELSE received[c][p]}
  <2>1. received \in [Hub!Conns -> [Publishers -> Nat]] /\ received' \in [Hub!Conns -> [Publishers -> Nat]]
        /\ round \in [Publishers -> 0..Rounds]
      BY Zenon, <1>4 DEF HubInvariant, HubType
  <2>2. round[p] \in Nat
      BY <2>1 DEF HubParameters
  <2>3. [received EXCEPT ![c][e.p] = e.n][c][p] = (IF p = e.p THEN e.n ELSE received[c][p])
    <3> HIDE DEF e
    <3> QED BY Zenon, <1>2, <2>1
  <2> HIDE DEF e
  <2>4. received'[c][p] \in {received[c][p], IF p = e.p THEN e.n ELSE received[c][p]}
      BY Zenon, <1>3, <2>3
  <2>5. received'[c][p] \in Nat /\ received[c][p] \in Nat
      BY Zenon, <2>1
  <2> QED BY Zenon, <2>2, <2>4, <2>5
<1>7. \A d \in Hub!Conns \ {c} : chan'[d] = chan[d] /\ received'[d] = received[d]
    BY Zenon, <1>1, <1>3 DEF HubInvariant, HubType
<1>8. chan'[c] = Tail(s)
    BY Zenon, <1>1 DEF HubInvariant, HubType
<1>9. InOrder(s, received[c], round)
    BY Zenon DEF HubInvariant
<1>10. InOrder(Tail(s), received'[c], round)
  <2> SUFFICES ASSUME NEW i \in DOMAIN Tail(s)
               PROVE  /\ received'[c][Tail(s)[i].p] < Tail(s)[i].n /\ Tail(s)[i].n <= round[Tail(s)[i].p]
                      /\ \A j \in DOMAIN Tail(s) : i < j /\ Tail(s)[i].p = Tail(s)[j].p =>
                            Tail(s)[i].n < Tail(s)[j].n
      BY Zenon DEF InOrder
  <2>1. i + 1 \in DOMAIN s /\ Tail(s)[i] = s[i + 1] /\ 1 < i + 1 /\ i \in Nat
      BY <1>1, <1>2
  <2>2. /\ received[c][s[i + 1].p] < s[i + 1].n /\ s[i + 1].n <= round[s[i + 1].p]
        /\ e.p = s[i + 1].p => e.n < s[i + 1].n
      BY Zenon, <1>2, <1>9, <2>1 DEF InOrder
  <2>3. received'[c][s[i + 1].p] < s[i + 1].n
      BY Zenon, <1>5, <1>6, <2>1, <2>2
  <2>4. ASSUME NEW j \in DOMAIN Tail(s), i < j, Tail(s)[i].p = Tail(s)[j].p
        PROVE  Tail(s)[i].n < Tail(s)[j].n
    <3>1. j + 1 \in DOMAIN s /\ Tail(s)[j] = s[j + 1] /\ i + 1 < j + 1
        BY <1>1, <1>2, <2>1, <2>4
    <3> QED BY Zenon, <1>9, <2>1, <2>4, <3>1 DEF InOrder
  <2> QED BY <2>1, <2>2, <2>3, <2>4, Zenon
<1>11. \A d \in Hub!Conns : InOrder(chan'[d], received'[d], round')
    BY Zenon, <1>1, <1>7, <1>8, <1>10 DEF HubInvariant
<1>12. \A p \in Publishers : received'[c][p] <= round[p]
  <2>1. e.n <= round[e.p]
      BY Zenon, <1>2, <1>9 DEF InOrder
  <2> QED BY Zenon, <1>6, <2>1 DEF HubInvariant
<1>13. ASSUME NEW p \in readers, NEW d \in offering[p] PROVE Newer(p, d)' /\ Hub!Registered(d)'
  <2>1. Newer(p, d) /\ Hub!Registered(d) /\ d \in Hub!Conns /\ p \in Publishers
      BY Zenon DEF HubInvariant, HubType
  <2>2. CASE d # c
      BY Zenon, <1>1, <1>7, <2>1, <2>2 DEF Newer, Hub!Registered
  <2>3. CASE d = c
    <3>1. received'[c][p] < round[p]
        BY Zenon, <1>2, <1>6, <2>1, <2>3 DEF Newer
    <3>2. ASSUME NEW i \in DOMAIN Tail(s), Tail(s)[i].p = p PROVE Tail(s)[i].n < round[p]
        BY Zenon, <1>2, <2>1, <2>3, <3>2 DEF Newer
    <3> QED BY Zenon, <1>1, <1>8, <2>1, <2>3, <3>1, <3>2 DEF Newer, Hub!Registered
  <2> QED BY Zenon, <2>2, <2>3
<1> QED BY Zenon, <1>1, <1>4, <1>7, <1>11, <1>12, <1>13 DEF HubInvariant

\* A connection changes its state; only Unsubscribe makes it leave the map, and it
\* waits until nobody publishes.
LEMMA ConnectionStep ==
    ASSUME HubInvariant, NEW c \in Hub!Conns,
           Hub!Connect(c) \/ Hub!Subscribe(c) \/ Hub!Leave(c) \/ Hub!Unsubscribe(c) \/ Hub!WriterEnds(c)
    PROVE  HubInvariant'
<1>1. UNCHANGED <<chan, received, offering, readers, round>>
    BY Zenon DEF Hub!Connect, Hub!Subscribe, Hub!Leave, Hub!Unsubscribe, Hub!WriterEnds
<1>2. conn' \in [Hub!Conns -> {"new", "joining", "open", "leaving", "closed"}]
    BY Zenon
       DEF HubInvariant, HubType, Hub!Connect, Hub!Subscribe, Hub!Leave, Hub!Unsubscribe,
           Hub!WriterEnds
<1>3. reader' \in [Hub!Conns -> BOOLEAN]
    BY Zenon
       DEF HubInvariant, HubType, Hub!Connect, Hub!Subscribe, Hub!Leave, Hub!Unsubscribe,
           Hub!WriterEnds
<1>4. ASSUME NEW p \in readers, NEW d \in offering[p] PROVE Hub!Registered(d)'
  <2>1. Hub!Registered(d) /\ d \in Hub!Conns /\ readers # {}
      BY Zenon DEF HubInvariant, HubType
  <2> QED BY Zenon, <2>1
             DEF HubInvariant, HubType, Hub!Connect, Hub!Subscribe, Hub!Leave, Hub!Unsubscribe,
                 Hub!WriterEnds,
                      Hub!WriteLock, Hub!Registered
<1>5. HubType'
    BY Zenon, <1>1, <1>2, <1>3 DEF HubInvariant, HubType
<1> QED BY Zenon, <1>1, <1>4, <1>5 DEF HubInvariant, Newer, InOrder

\* Publish begins: its number is new.
LEMMA PublishStep ==
    ASSUME HubParameters, HubInvariant, NEW p \in Publishers, Hub!Publish(p)
    PROVE  HubInvariant'
<1>1. /\ UNCHANGED <<conn, chan, reader, received>> /\ readers' = readers \cup {p} /\ p \notin readers
      /\ round' = [round EXCEPT ![p] = @ + 1] /\ round[p] < Rounds
      /\ offering' = [offering EXCEPT ![p] = {c \in Hub!Conns : Hub!Registered(c)}]
    BY Zenon DEF Hub!Publish
<1>2. /\ round \in [Publishers -> 0..Rounds] /\ round' \in [Publishers -> 0..Rounds]
      /\ round'[p] = round[p] + 1 /\ \A q \in Publishers \ {p} : round'[q] = round[q]
      /\ offering'[p] = {c \in Hub!Conns : Hub!Registered(c)} /\ \A q \in Publishers \ {p} : offering'[q] = offering[q]
    BY <1>1 DEF HubParameters, HubInvariant, HubType
<1>3. \A q \in Publishers : round[q] \in Nat /\ round'[q] \in Nat /\ round[q] <= round'[q]
    BY <1>2 DEF HubParameters
<1>4. HubType'
    BY Zenon, <1>1, <1>2 DEF HubInvariant, HubType
<1>5. ASSUME NEW c \in Hub!Conns PROVE InOrder(chan[c], received[c], round')
  <2>1. InOrder(chan[c], received[c], round)
      BY Zenon DEF HubInvariant
  <2>2. ASSUME NEW i \in DOMAIN chan[c] PROVE chan[c][i].n <= round'[chan[c][i].p]
    <3>1. chan[c][i].p \in Publishers /\ chan[c][i].n \in Nat
        BY Zenon, Channels
    <3>2. chan[c][i].n <= round[chan[c][i].p]
        BY Zenon, <2>1 DEF InOrder
    <3> QED BY <1>3, <3>1, <3>2
  <2> QED BY <2>1, <2>2, Zenon DEF InOrder
<1>6. ASSUME NEW c \in Hub!Conns, NEW q \in Publishers PROVE received[c][q] <= round'[q]
    BY <1>3 DEF HubInvariant, HubType
<1>7. ASSUME NEW c \in Hub!Conns PROVE Newer(p, c)'
  <2>1. received[c][p] < round'[p]
      BY <1>2, <1>3 DEF HubInvariant, HubType
  <2>2. ASSUME NEW i \in DOMAIN chan[c], chan[c][i].p = p PROVE chan[c][i].n < round'[p]
      BY <1>2, <1>3, <2>2, Channels DEF HubInvariant, InOrder
  <2> QED BY Zenon, <1>1, <2>1, <2>2 DEF Newer
<1>8. ASSUME NEW q \in readers', NEW c \in offering'[q] PROVE Hub!Registered(c)' /\ Newer(q, c)'
  <2>1. CASE q = p
      BY Zenon, <1>1, <1>2, <1>7, <2>1, <1>8 DEF Hub!Registered
  <2>2. CASE q # p
    <3>1. q \in readers /\ c \in offering[q] /\ round'[q] = round[q]
        BY Zenon, <1>1, <1>2, <1>8, <2>2 DEF HubInvariant, HubType
    <3> QED BY Zenon, <1>1, <3>1 DEF HubInvariant, Hub!Registered, Newer
  <2> QED BY Zenon, <2>1, <2>2
<1> QED BY <1>1, <1>4, <1>5, <1>6, <1>8, Zenon DEF HubInvariant

\* A select sends the publication or drops it.
LEMMA OfferStep ==
    ASSUME HubParameters, HubInvariant, NEW p \in Publishers, NEW c \in Hub!Conns, Hub!Offer(p, c)
    PROVE  HubInvariant'
<1> DEFINE e == [p |-> p, n |-> round[p]]
           s == chan[c]
<1>1. /\ UNCHANGED <<conn, reader, received, readers, round>> /\ p \in readers /\ c \in offering[p]
      /\ chan' = [chan EXCEPT ![c] = IF Len(s) < ChanCapacity THEN Append(s, e) ELSE s]
      /\ offering' = [offering EXCEPT ![p] = offering[p] \ {c}]
    BY Zenon DEF Hub!Offer, Hub!HasRoom, Hub!Sent, HubInvariant, HubType
<1>2. /\ e \in Publication /\ e.p = p /\ e.n = round[p] /\ round[p] \in Nat /\ Newer(p, c)
      /\ s \in Seq(Publication) /\ Len(s) \in Nat /\ Len(s) <= ChanCapacity
    BY <1>1 DEF HubParameters, HubInvariant, HubType, Publication
<1> HIDE DEF e
<1>3. /\ Append(s, e) \in Seq(Publication) /\ Len(Append(s, e)) = Len(s) + 1
      /\ DOMAIN Append(s, e) = 1..(Len(s) + 1) /\ DOMAIN s = 1..Len(s)
      /\ \A i \in DOMAIN s : Append(s, e)[i] = s[i]
      /\ Append(s, e)[Len(s) + 1] = e
    BY <1>2
<1>4. /\ offering' \in [Publishers -> SUBSET Hub!Conns]
      /\ \A q \in Publishers : offering'[q] \subseteq offering[q] /\ (q = p => c \notin offering'[q])
      /\ chan'[c] = (IF Len(s) < ChanCapacity THEN Append(s, e) ELSE s)
      /\ \A d \in Hub!Conns \ {c} : chan'[d] = chan[d]
    BY Zenon, <1>1 DEF HubInvariant, HubType
<1>5. HubType'
  <2>1. chan' \in [Hub!Conns -> Seq(Publication)]
      BY Zenon, <1>1, <1>2, <1>3 DEF HubInvariant, HubType
  <2>2. ASSUME NEW d \in Hub!Conns PROVE Len(chan'[d]) <= ChanCapacity
    <3>1. Len(Append(s, e)) <= ChanCapacity \/ ~(Len(s) < ChanCapacity)
        BY <1>2, <1>3 DEF HubParameters
    <3>2. chan'[d] \in {chan[d], chan'[c]} /\ Len(chan[d]) <= ChanCapacity
        BY <1>4, Zenon DEF HubInvariant, HubType
    <3> QED BY Zenon, <1>2, <1>4, <3>1, <3>2
  <2> QED BY Zenon, <1>1, <1>4, <2>1, <2>2 DEF HubInvariant, HubType
<1>6. InOrder(s, received[c], round)
    BY Zenon DEF HubInvariant
<1>7. InOrder(Append(s, e), received[c], round)
  <2> SUFFICES ASSUME NEW i \in DOMAIN Append(s, e)
               PROVE  LET a == Append(s, e) IN
                      /\ received[c][a[i].p] < a[i].n /\ a[i].n <= round[a[i].p]
                      /\ \A j \in DOMAIN a : i < j /\ a[i].p = a[j].p => a[i].n < a[j].n
      BY Zenon DEF InOrder
  <2>1. CASE i = Len(s) + 1
      BY <1>2, <1>3, <2>1 DEF Newer
  <2>2. CASE i \in DOMAIN s
    <3>1. /\ received[c][s[i].p] < s[i].n /\ s[i].n <= round[s[i].p]
          /\ \A j \in DOMAIN s : i < j /\ s[i].p = s[j].p => s[i].n < s[j].n
          /\ s[i].p = p => s[i].n < round[p]
        BY Zenon, <1>2, <1>6, <2>2 DEF InOrder, Newer
    <3>2. ASSUME NEW j \in DOMAIN Append(s, e), i < j, s[i].p = Append(s, e)[j].p
          PROVE  s[i].n < Append(s, e)[j].n
      <4>1. j \in DOMAIN s \/ j = Len(s) + 1
          BY <1>2, <1>3
      <4>2. CASE j \in DOMAIN s
          BY Zenon, <1>3, <3>1, <3>2, <4>2
      <4>3. CASE j = Len(s) + 1
          BY Zenon, <1>2, <1>3, <3>1, <3>2, <4>3
      <4> QED BY Zenon, <4>1, <4>2, <4>3
    <3> QED BY Zenon, <1>3, <2>2, <3>1, <3>2
  <2>3. i \in DOMAIN s \/ i = Len(s) + 1
      BY <1>2, <1>3
  <2> QED BY Zenon, <2>1, <2>2, <2>3
<1>8. ASSUME NEW q \in readers, NEW d \in offering'[q] PROVE Hub!Registered(d)' /\ Newer(q, d)'
  <2>1. q \in Publishers /\ d \in Hub!Conns /\ Hub!Registered(d) /\ Newer(q, d)
      BY Zenon, <1>4 DEF HubInvariant, HubType
  <2>2. CASE d # c
      BY Zenon, <1>1, <1>4, <2>1, <2>2 DEF Hub!Registered, Newer
  <2>3. CASE d = c
    <3>1. q # p
        BY Zenon, <1>4, <2>1, <2>3
    <3>2. ASSUME NEW i \in DOMAIN chan'[c], chan'[c][i].p = q PROVE chan'[c][i].n < round[q]
        BY <1>2, <1>3, <1>4, <2>1, <2>3, <3>1, <3>2 DEF Newer
    <3> QED BY Zenon, <1>1, <2>1, <2>3, <3>2 DEF Hub!Registered, Newer
  <2> QED BY Zenon, <2>2, <2>3
<1>9. \A d \in Hub!Conns : InOrder(chan'[d], received[d], round)
    BY Zenon, <1>4, <1>6, <1>7 DEF HubInvariant
<1> QED BY Zenon, <1>1, <1>5, <1>8, <1>9 DEF HubInvariant

\* For any connections, publishers and channel length: the hub is faithful.
THEOREM HubAlwaysFaithful == Hub!Spec => []HubFaithful
<1> HubParameters
    BY Zenon, LoopAssumption
<1>1. Hub!Init => HubInvariant
  <2> SUFFICES ASSUME Hub!Init PROVE HubInvariant
      BY Zenon
  <2>1. HubType
      BY DEF Hub!Init, HubType, HubParameters
  <2> QED BY <2>1 DEF Hub!Init, HubInvariant, InOrder, HubType
<1>2. HubInvariant /\ [Hub!Next]_Hub!vars => HubInvariant'
  <2> SUFFICES ASSUME HubInvariant, [Hub!Next]_Hub!vars PROVE HubInvariant'
      BY Zenon
  <2>1. CASE UNCHANGED Hub!vars
      BY Zenon, <2>1 DEF Hub!vars, HubInvariant, HubType, InOrder, Newer, Hub!Registered
  <2>2. ASSUME NEW p \in Publishers, Hub!Published(p) PROVE HubInvariant'
    <3>1. HubType'
        BY Zenon, <2>2 DEF Hub!Published, HubInvariant, HubType
    <3> QED BY Zenon, <2>2, <3>1 DEF Hub!Published, HubInvariant, InOrder, Newer, Hub!Registered
  <2> QED BY Zenon, <2>1, <2>2, ReceiveStep, ConnectionStep, PublishStep, OfferStep
          DEF Hub!Next, Hub!PublisherStep
<1>3. HubInvariant => HubFaithful
  <2> SUFFICES ASSUME HubInvariant PROVE HubFaithful
      BY Zenon
  <2>1. Hub!TypeOK
      BY Zenon DEF HubInvariant, HubType, Hub!TypeOK
  <2>2. Hub!NeverSendsOnClosed
      BY Zenon DEF HubInvariant, Hub!NeverSendsOnClosed
  <2>3. Hub!PublisherOrder
      BY Zenon DEF HubInvariant, InOrder, Hub!PublisherOrder
  <2> QED BY Zenon, <2>1, <2>2, <2>3 DEF HubFaithful, Hub!HubFaithful
<1> QED BY <1>1, <1>2, <1>3, PTL DEF Hub!Spec

-----------------------------------------------------------------------------
\* The broker loops.

\* A Kafka loop that has met no error: a message that is not stored is yet to be
\* read, or is being processed, and those before the current one have been read.
OffsetCovered ==
    broker = "kafka" =>
        /\ inbox = {} \/ \E m \in Ingress!Messages : inbox = {m}
        /\ \A m \in inbox : queue[m] = "pending" /\ \A q \in Ingress!Messages : q < m => queue[q] # "ready"
        /\ fails = 0 /\ ~secured =>
              /\ verdict # "error"
              /\ \A m \in Ingress!Wanted : m \in stored \/ queue[m] = "ready" \/ m \in inbox

\* What the loop knows of the current message.
VerdictTrue ==
    /\ verdict # "none" => inbox # {}
    /\ verdict = "ok" => Ingress!Current \in stored
    /\ verdict \in {"garbled", "other"} => Ingress!Current \notin Ingress!Wanted

\* The inductive invariant.
IngressInvariant == Ingress!TypeOK /\ Ingress!AckedIsStored /\ OffsetCovered /\ VerdictTrue

\* A set of numbers that is not empty has a smallest element ...
LEMMA SmallestExists ==
    ASSUME NEW S \in SUBSET Nat, S # {}
    PROVE  \E j \in S : \A i \in S : j <= i
<1> DEFINE R == {p \in Nat \X Nat : p[1] < p[2]}
<1>1. IsWellFoundedOn(R, Nat)
    BY Zenon, NatLessThanWellFounded DEF OpToRel
<1>2. PICK x \in S : \A y \in S : ~(<<y, x>> \in R)
  <2> HIDE DEF R
  <2> QED BY <1>1, WFMin, Zenon
<1>3. ASSUME NEW y \in S PROVE x <= y
  <2>1. x \in Nat /\ y \in Nat /\ ~(<<y, x>> \in R)
      BY Zenon, <1>2
  <2>2. ~(y < x)
      BY Zenon, <2>1
  <2> QED BY <2>1, <2>2
<1> QED BY Zenon, <1>3

\* ... which is Min, for the current message and the first that is ready.
LEMMA SmallestMessage ==
    ASSUME IngressParameters, NEW S \in SUBSET Ingress!Messages, S # {}
    PROVE  Ingress!Oldest(S) \in S /\ \A q \in S : Ingress!Oldest(S) <= q
<1>1. Ingress!Messages \subseteq Nat
    BY DEF IngressParameters, Ingress!Messages
<1>2. PICK m \in S : \A q \in S : m <= q
    BY Zenon, <1>1, SmallestExists
<1> QED BY Zenon, <1>2 DEF Ingress!Oldest

\* The broker hands out a message, or a batch.
LEMMA ReadStep ==
    ASSUME IngressParameters, IngressInvariant, NEW m \in Ingress!Messages, Ingress!Read(m)
    PROVE  IngressInvariant'
<1>1. /\ inbox = {} /\ m \in Ingress!Ready /\ inbox' = Ingress!Batch(m) /\ verdict = "none"
      /\ queue' = [q \in Ingress!Messages |-> IF q \in Ingress!Batch(m) THEN "pending" ELSE queue[q]]
      /\ UNCHANGED <<broker, secured, verdict, stored, seen, stale, fails, faults>>
    BY Zenon DEF Ingress!Read, Ingress!setup, IngressInvariant, VerdictTrue
<1>2. Ingress!Batch(m) \subseteq Ingress!Ready /\ Ingress!Ready \subseteq Ingress!Messages
    BY Zenon, <1>1 DEF Ingress!Batch, Ingress!Ready
<1>3. Ingress!TypeOK'
    BY Zenon, <1>1, <1>2 DEF IngressInvariant, Ingress!TypeOK
<1>4. ASSUME NEW q \in Ingress!Messages PROVE queue'[q] = "acked" => queue[q] = "acked"
    BY Zenon, <1>1
<1>5. Ingress!AckedIsStored'
    BY Zenon, <1>1, <1>3, <1>4
       DEF IngressInvariant, Ingress!AckedIsStored, Ingress!ClaimsSettlement,
           Ingress!OffsetSafe, Ingress!Wanted
<1>6. ASSUME broker = "kafka" PROVE OffsetCovered'
  <2>1. Ingress!Batch(m) = {m} /\ \A q \in Ingress!Ready : m <= q
      BY Zenon, <1>1, <1>2, <1>6, SmallestMessage DEF Ingress!Batch, Ingress!Read
  <2>2. ASSUME NEW q \in Ingress!Messages, q < m PROVE queue'[q] # "ready"
    <3>1. q \notin Ingress!Ready
        BY <2>1, <2>2 DEF IngressParameters, Ingress!Messages
    <3> QED BY Zenon, <1>1, <2>1, <3>1 DEF Ingress!Ready
  <2>3. ASSUME NEW q \in Ingress!Wanted, fails = 0, ~secured
        PROVE  q \in stored \/ queue'[q] = "ready" \/ q \in inbox'
      BY Zenon, <1>1, <1>6, <2>3 DEF IngressInvariant, OffsetCovered, Ingress!Wanted
  <2>4. inbox' = {m} /\ queue'[m] = "pending"
      BY Zenon, <1>1, <2>1
  <2> QED BY Zenon, <1>1, <2>2, <2>3, <2>4
             DEF IngressInvariant, OffsetCovered, Ingress!Wanted, Ingress!Messages
<1>7. OffsetCovered'
    BY Zenon, <1>1, <1>6 DEF OffsetCovered
<1>8. VerdictTrue'
    BY Zenon, <1>1 DEF VerdictTrue
<1> QED BY Zenon, <1>3, <1>5, <1>7, <1>8 DEF IngressInvariant

\* The handler runs: what it reports as stored is stored.
LEMMA ProcessStep ==
    ASSUME IngressParameters, IngressInvariant, Ingress!Process
    PROVE  IngressInvariant'
<1>0. Ingress!Current \in inbox /\ Ingress!Current \in Ingress!Messages /\ Ingress!Current' = Ingress!Current
  <2>1. inbox # {} /\ inbox \subseteq Ingress!Messages /\ inbox' = inbox
      BY Zenon DEF Ingress!Process, IngressInvariant, Ingress!TypeOK
  <2> QED BY Zenon, <2>1, SmallestMessage DEF Ingress!Current
<1>1. UNCHANGED <<broker, secured, queue, inbox, stale, faults>> /\ inbox # {}
    BY Zenon DEF Ingress!Process, Ingress!setup
<1>2. PICK m \in Ingress!Messages : m = Ingress!Current
    BY Zenon, <1>0
<1>3. CASE Ingress!Unhandled(m)
  <2>1. /\ m \in Garbled \cup OtherEvents /\ verdict' \in {"garbled", "other"}
        /\ UNCHANGED <<stored, seen, fails>>
      BY Zenon, <1>3 DEF Ingress!Unhandled, Ingress!Skips
  <2>2. Ingress!TypeOK'
      BY Zenon, <1>1, <2>1 DEF IngressInvariant, Ingress!TypeOK
  <2>3. Ingress!AckedIsStored'
      BY Zenon, <1>1, <2>1, <2>2
         DEF IngressInvariant, Ingress!AckedIsStored, Ingress!ClaimsSettlement,
             Ingress!OffsetSafe
  <2>4. OffsetCovered'
      BY Zenon, <1>1, <2>1 DEF IngressInvariant, OffsetCovered
  <2>5. VerdictTrue'
      BY Zenon, <1>0, <1>1, <1>2, <2>1 DEF VerdictTrue, Ingress!Wanted
  <2> QED BY Zenon, <2>2, <2>3, <2>4, <2>5 DEF IngressInvariant
<1>4. CASE Ingress!Handled(m)
  <2>1. /\ m \in Ingress!Wanted /\ verdict' \in {"ok", "error"} /\ seen' \in {seen, seen \cup {m}}
        /\ stored \subseteq stored' /\ stored' \in {stored, stored \cup {m}}
        /\ verdict' = "ok" => m \in stored'
        /\ fails' = fails \/ (fails < MaxFails /\ fails' = fails + 1)
        /\ verdict' = "error" => secured \/ fails' = fails + 1
      BY Zenon, <1>4 DEF Ingress!Handled, Ingress!Skips, Ingress!Refused, Ingress!Wanted
  <2>2. Ingress!TypeOK'
    <3>1. fails' \in 0..MaxFails
        BY <2>1 DEF IngressInvariant, Ingress!TypeOK, IngressParameters
    <3> QED BY Zenon, <1>1, <2>1, <3>1 DEF IngressInvariant, Ingress!TypeOK
  <2>3. fails' = 0 => fails = 0 /\ (verdict' = "error" => secured)
      BY <2>1 DEF IngressInvariant, Ingress!TypeOK, IngressParameters
  <2>4. Ingress!AckedIsStored'
      BY Zenon, <1>1, <2>1, <2>2, <2>3
         DEF IngressInvariant, Ingress!AckedIsStored, Ingress!ClaimsSettlement,
             Ingress!OffsetSafe
  <2>5. OffsetCovered'
      BY Zenon, <1>1, <2>1, <2>3 DEF IngressInvariant, OffsetCovered
  <2>6. VerdictTrue'
      BY Zenon, <1>0, <1>1, <1>2, <2>1 DEF VerdictTrue
  <2> QED BY Zenon, <2>2, <2>4, <2>5, <2>6 DEF IngressInvariant
<1> QED BY Zenon, <1>2, <1>3, <1>4 DEF Ingress!Process

\* A message is settled, or not: an offset covers only what is stored.
LEMMA SettleStep ==
    ASSUME IngressParameters, IngressInvariant, Ingress!Settle
    PROVE  IngressInvariant'
<1>0. Ingress!Current \in inbox /\ Ingress!Current \in Ingress!Messages
  <2>1. inbox # {} /\ inbox \subseteq Ingress!Messages
      BY Zenon DEF Ingress!Settle, IngressInvariant, Ingress!TypeOK, VerdictTrue
  <2> QED BY Zenon, <2>1, SmallestMessage DEF Ingress!Current
<1>1. PICK m \in Ingress!Messages : m = Ingress!Current /\ m \in inbox
    BY Zenon, <1>0
<1>2. /\ UNCHANGED <<broker, secured, stored, seen, stale, fails>> /\ verdict # "none"
      /\ inbox' = inbox \ {m} /\ verdict' = "none" /\ faults' \in 0..MaxFaults
    BY <1>1
       DEF Ingress!Settle, Ingress!setup, IngressInvariant, Ingress!TypeOK, IngressParameters
<1>3. /\ queue' \in [Ingress!Messages -> {"ready", "pending", "acked", "dropped", "elsewhere"}]
      /\ \A q \in Ingress!Messages : queue'[q] = "acked" /\ queue[q] # "acked" =>
            /\ Ingress!Acknowledges(verdict)
            /\ q = m \/ (broker = "kafka" /\ q <= m)
      /\ broker = "kafka" => \A q \in Ingress!Messages : queue'[q] = "acked" \/ queue'[q] = queue[q]
  <2>0. queue \in [Ingress!Messages -> {"ready", "pending", "acked", "dropped", "elsewhere"}]
      BY Zenon DEF IngressInvariant, Ingress!TypeOK
  <2>1. CASE Ingress!Acknowledges(verdict) /\ queue' = Ingress!Acked(m)
      BY Zenon, <2>0, <2>1 DEF Ingress!Acked
  <2>2. CASE queue' = queue
      BY Zenon, <2>0, <2>2
  <2>3. CASE /\ ~Ingress!Acknowledges(verdict)
             /\ queue' = [queue EXCEPT ![m] =
                  CASE Ingress!Requeues(verdict) -> "ready"
                    [] broker = "rabbit" /\ verdict = "garbled" -> "dropped"
                    [] OTHER -> queue[m]]
    <3> DEFINE next == CASE Ingress!Requeues(verdict) -> "ready"
                         [] broker = "rabbit" /\ verdict = "garbled" -> "dropped"
                         [] OTHER -> queue[m]
    <3>1. /\ next \in {"ready", "dropped", queue[m]} /\ (broker # "rabbit" => next = queue[m])
        BY Zenon DEF Ingress!Requeues
    <3>2. queue' = [queue EXCEPT ![m] = next]
        BY Zenon, <2>3
    <3> HIDE DEF next
    <3> QED BY Zenon, <2>0, <3>1, <3>2
  <2> QED BY Zenon, <1>1, <2>1, <2>2, <2>3 DEF Ingress!Settle
<1>4. Ingress!TypeOK'
    BY Zenon, <1>2, <1>3 DEF IngressInvariant, Ingress!TypeOK
<1>5. ASSUME broker = "kafka" PROVE inbox = {m} /\ inbox' = {}
  <2>1. PICK n \in Ingress!Messages : inbox = {n}
      BY Zenon, <1>1, <1>5 DEF IngressInvariant, OffsetCovered
  <2> QED BY Zenon, <1>1, <1>2, <2>1
<1>6. Ingress!Acknowledges(verdict) /\ Ingress!ClaimsSettlement => m \in stored \/ m \notin Ingress!Wanted
    BY Zenon, <1>1, <1>2
       DEF Ingress!Acknowledges, Ingress!ClaimsSettlement, IngressInvariant, VerdictTrue
<1>7. ASSUME NEW q \in Ingress!Wanted, Ingress!ClaimsSettlement, Ingress!OffsetSafe, queue'[q] = "acked" PROVE q \in stored
  <2>1. q \in Ingress!Messages
      BY Zenon DEF Ingress!Wanted
  <2>2. CASE queue[q] = "acked"
      BY Zenon, <1>7, <2>2 DEF IngressInvariant, Ingress!AckedIsStored
  <2>3. CASE queue[q] # "acked" /\ q = m
      BY Zenon, <1>3, <1>6, <1>7, <2>1, <2>3
  <2>4. CASE queue[q] # "acked" /\ q # m
    <3>1. broker = "kafka" /\ q < m
        BY <1>3, <1>7, <2>1, <2>4 DEF Ingress!Messages, IngressParameters
    <3>2. queue[q] # "ready" /\ q \notin inbox
        BY Zenon, <1>1, <1>5, <2>1, <2>4, <3>1 DEF IngressInvariant, OffsetCovered
    <3> QED BY Zenon, <1>7, <3>1, <3>2 DEF IngressInvariant, OffsetCovered, Ingress!OffsetSafe
  <2> QED BY Zenon, <2>2, <2>3, <2>4
<1>8. Ingress!AckedIsStored'
    BY Zenon, <1>2, <1>4, <1>7 DEF Ingress!AckedIsStored, Ingress!ClaimsSettlement, Ingress!OffsetSafe
<1>9. ASSUME broker = "kafka", fails = 0, ~secured, NEW q \in Ingress!Wanted
      PROVE  q \in stored \/ queue'[q] = "ready"
  <2>1. q \in Ingress!Messages /\ verdict \in {"ok", "garbled", "other"}
      BY Zenon, <1>2, <1>9 DEF IngressInvariant, OffsetCovered, Ingress!TypeOK, Ingress!Wanted
  <2>2. q \in stored \/ queue[q] = "ready"
      BY Zenon, <1>1, <1>5, <1>9, <2>1 DEF IngressInvariant, OffsetCovered, VerdictTrue
  <2>3. CASE queue'[q] = "acked"
      BY Zenon, <1>7, <1>9, <2>3 DEF Ingress!ClaimsSettlement, Ingress!OffsetSafe
  <2> QED BY Zenon, <1>3, <1>9, <2>1, <2>2, <2>3
<1>10. OffsetCovered'
    BY Zenon, <1>2, <1>5, <1>9 DEF OffsetCovered
<1>11. VerdictTrue'
    BY Zenon, <1>2 DEF VerdictTrue
<1> QED BY Zenon, <1>4, <1>8, <1>10, <1>11 DEF IngressInvariant

\* A restart gives back what was being processed.
LEMMA RestartStep ==
    ASSUME IngressParameters, IngressInvariant, Ingress!Restart
    PROVE  IngressInvariant'
<1>1. /\ UNCHANGED <<broker, secured, stored, stale, fails>> /\ inbox' = {} /\ seen' = {}
      /\ verdict' = "none" /\ faults' \in 0..MaxFaults
      /\ queue' = [m \in Ingress!Messages |-> Ingress!AfterRestart(m)]
    BY DEF Ingress!Restart, Ingress!setup, IngressInvariant, Ingress!TypeOK, IngressParameters
<1>2. ASSUME NEW m \in Ingress!Messages
      PROVE  /\ queue'[m] \in {"ready", "pending", "acked", "dropped", "elsewhere"}
             /\ queue'[m] = "acked" => queue[m] = "acked"
             /\ broker = "kafka" /\ queue[m] \in {"pending", "ready"} => queue'[m] = "ready"
    BY Zenon, <1>1 DEF Ingress!AfterRestart, IngressInvariant, Ingress!TypeOK
<1>3. Ingress!TypeOK'
    BY Zenon, <1>1, <1>2 DEF IngressInvariant, Ingress!TypeOK
<1>4. Ingress!AckedIsStored'
    BY Zenon, <1>1, <1>2, <1>3
       DEF IngressInvariant, Ingress!AckedIsStored, Ingress!ClaimsSettlement,
           Ingress!OffsetSafe, Ingress!Wanted
<1>5. OffsetCovered'
    BY Zenon, <1>1, <1>2 DEF IngressInvariant, OffsetCovered, Ingress!Wanted
<1>6. VerdictTrue'
    BY Zenon, <1>1 DEF VerdictTrue
<1> QED BY Zenon, <1>3, <1>4, <1>5, <1>6 DEF IngressInvariant

\* For any number of messages, failures and restarts: what a transport that
\* declares ExecutionSettlement settles is stored.
THEOREM SettledIsStored == Ingress!Spec => []AckedIsStored
<1> IngressParameters
    BY Zenon, LoopAssumption
<1>1. Ingress!Init => IngressInvariant
  <2> SUFFICES ASSUME Ingress!Init PROVE IngressInvariant
      BY Zenon
  <2>1. Ingress!TypeOK
      BY DEF Ingress!Init, Ingress!TypeOK, IngressParameters, Ingress!Wanted
  <2>2. \A m \in Ingress!Messages : queue[m] = IF Ingress!Elsewhere(m) THEN "elsewhere" ELSE "ready"
      BY Zenon DEF Ingress!Init
  <2>3. Ingress!AckedIsStored
      BY Zenon, <2>1, <2>2 DEF Ingress!AckedIsStored, Ingress!Wanted
  <2>4. OffsetCovered
      BY Zenon, <2>2
         DEF Ingress!Init, OffsetCovered, Ingress!Wanted, Ingress!Elsewhere, Ingress!Filters
  <2>5. VerdictTrue
      BY Zenon DEF Ingress!Init, VerdictTrue
  <2> QED BY Zenon, <2>1, <2>3, <2>4, <2>5 DEF IngressInvariant
<1>2. IngressInvariant /\ [Ingress!Next]_Ingress!vars => IngressInvariant'
  <2> SUFFICES ASSUME IngressInvariant, [Ingress!Next]_Ingress!vars PROVE IngressInvariant'
      BY Zenon
  <2>1. ASSUME NEW m \in Ingress!Messages, Ingress!Redeliver(m) PROVE IngressInvariant'
    <3>1. /\ broker = "jetstream" /\ queue[m] = "pending" /\ queue' = [queue EXCEPT ![m] = "ready"]
          /\ UNCHANGED <<broker, secured, inbox, verdict, stored, seen, stale, fails, faults>>
        BY Zenon, <2>1 DEF Ingress!Redeliver, Ingress!setup
    <3>2. Ingress!TypeOK' /\ \A q \in Ingress!Messages : queue'[q] = "acked" => queue[q] = "acked"
        BY Zenon, <3>1 DEF IngressInvariant, Ingress!TypeOK
    <3>3. Ingress!AckedIsStored'
        BY Zenon, <3>1, <3>2
           DEF IngressInvariant, Ingress!AckedIsStored, Ingress!ClaimsSettlement,
               Ingress!OffsetSafe, Ingress!Wanted
    <3> QED BY Zenon, <3>1, <3>2, <3>3
               DEF IngressInvariant, OffsetCovered, VerdictTrue, Ingress!Current
  <2>2. ASSUME NEW m \in Ingress!Messages, Ingress!Age(m) PROVE IngressInvariant'
    <3>1. Ingress!TypeOK'
        BY <2>2, Zenon DEF Ingress!Age, Ingress!setup, IngressInvariant, Ingress!TypeOK
    <3> QED BY Zenon, <2>2, <3>1
               DEF Ingress!Age, Ingress!setup, IngressInvariant, Ingress!AckedIsStored,
                   Ingress!ClaimsSettlement, Ingress!OffsetSafe,
                              OffsetCovered, VerdictTrue, Ingress!Current
  <2>3. CASE UNCHANGED Ingress!vars
      BY Zenon, <2>3
         DEF Ingress!vars, IngressInvariant, Ingress!TypeOK, Ingress!AckedIsStored,
             Ingress!ClaimsSettlement, Ingress!OffsetSafe,
                  OffsetCovered, VerdictTrue, Ingress!Current
  <2> QED BY Zenon, <2>1, <2>2, <2>3, ReadStep, ProcessStep, SettleStep, RestartStep DEF Ingress!Next
<1>3. IngressInvariant => AckedIsStored
    BY Zenon DEF IngressInvariant, AckedIsStored
<1> QED BY <1>1, <1>2, <1>3, PTL DEF Ingress!Spec
-----------------------------------------------------------------------------
\* The in-memory broker.

\* A record has been leased exactly when it left "published"; the lease it
\* carries counts its claims; slots beyond len are untouched.
RecordInv ==
    \A i \in Slots :
        /\ state[i] = "published" <=> granted[i] = 0
        /\ state[i] = "published" => owner[i] = NoWorker
        /\ state[i] \in InFlight \cup {"expired"} =>
             owner[i] \in Workers /\ attempt[i] = granted[i]
        /\ state[i] \in SettledStates => owner[i] = NoWorker
        /\ i > len => state[i] = "published"

\* A lease that has not run out is the last one its record was given, and its
\* deadline is the one the record carries as long as the record is in flight.
LeaseInv ==
    /\ \A l \in leases :
         /\ l.attempt <= granted[l.slot]
         /\ l.slot <= len
         /\ l.until > clock =>
              /\ l.attempt = granted[l.slot]
              /\ state[l.slot] \notin {"published", "expired"}
              /\ state[l.slot] \in InFlight => l.until = until[l.slot]
    /\ \A l, m \in leases : l.slot = m.slot /\ l.attempt = m.attempt => l = m

IInv == TypeOK /\ RecordInv /\ LeaseInv /\ KeysDistinct /\ FrontFirst

-----------------------------------------------------------------------------
\* What claim writes into the record i it finds (delivery.zig, claim).
ClaimsSlot(i, w, d) ==
    /\ ScanFinds(i)
    /\ state' = [state EXCEPT ![i] = "leased"]
    /\ owner' = [owner EXCEPT ![i] = w]
    /\ until' = [until EXCEPT ![i] = clock + d]
    /\ attempt' = [attempt EXCEPT ![i] = NextAttempt(i)]
    /\ granted' = [granted EXCEPT ![i] = granted[i] + 1]
    /\ leases' = leases \cup {[slot |-> i, worker |-> w,
                               attempt |-> NextAttempt(i), until |-> clock + d]}
    /\ UNCHANGED <<len, key, clock>>

\* The facts about the constants every step uses: the array's size, the lease
\* durations and the null owner (delivery.zig, MemoryBroker).
LEMMA ConstantFacts ==
    /\ NoWorker \notin Workers
    /\ Capacity \in Nat
    /\ \A d \in Durations : d \in Nat
    /\ \A i \in Slots : i \in Nat
BY BrokerAssumption DEF Slots

\* A step of the broker is a publication, a claim of one record, a frame, a
\* reap or the passing of time (delivery.zig, publish to reapExpired).
LEMMA StepCases ==
    [Next]_vars =>
      \/ \E k \in Keys : publish(k)
      \/ \E i \in Slots, w \in Workers, d \in Durations : ClaimsSlot(i, w, d)
      \/ \E i \in Slots, w \in Workers : markReceived(i, w)
      \/ \E i \in Slots, w \in Workers, r \in SettledStates : settle(i, w, r)
      \/ reapExpired
      \/ Tick
      \/ UNCHANGED vars
<1>1. ASSUME NEW w \in Workers, NEW d \in Durations, claim(w, d)
      PROVE  \E i \in Slots : ClaimsSlot(i, w, d)
  BY Zenon, <1>1 DEF claim, ClaimsSlot
<1> QED
  BY Zenon, <1>1 DEF Next

\* publish writes one unused slot: all it changes is the key and the length.
LEMMA PublishFacts ==
    ASSUME TypeOK, RecordInv, NEW k \in Keys, publish(k)
    PROVE  /\ len + 1 \in Slots /\ len' = len + 1
           /\ state[len + 1] = "published" /\ granted[len + 1] = 0
           /\ state' = state /\ owner' = owner
           /\ UNCHANGED <<until, attempt, granted, leases, clock>>
<1>1. len + 1 \in Slots /\ len' = len + 1
  BY ConstantFacts DEF TypeOK, publish, HasRoom, Slots
<1>2. len + 1 > len
  BY DEF TypeOK
<1>3. state[len + 1] = "published" /\ owner[len + 1] = NoWorker /\ granted[len + 1] = 0
  BY Zenon, <1>1, <1>2 DEF RecordInv
<1> QED
  BY Zenon, <1>1, <1>3 DEF publish, TypeOK

\* Every field keeps its type in every operation of delivery.zig.
LEMMA TypeStep == TypeOK /\ [Next]_vars => TypeOK'
<1> SUFFICES ASSUME TypeOK, [Next]_vars PROVE TypeOK'
  BY Zenon
<1> USE ConstantFacts DEF TypeOK, Lease, Slots, DeliveryStates, InFlight, SettledStates
<1>1. ASSUME NEW k \in Keys, publish(k) PROVE TypeOK'
  BY <1>1 DEF publish, HasRoom
<1>2. ASSUME NEW i \in Slots, NEW w \in Workers, NEW d \in Durations,
             ClaimsSlot(i, w, d)
      PROVE  TypeOK'
  <2>1. NextAttempt(i) \in Nat /\ clock + d \in Nat /\ granted[i] + 1 \in Nat
    BY DEF NextAttempt
  <2>2. [slot |-> i, worker |-> w, attempt |-> NextAttempt(i), until |-> clock + d] \in Lease
    BY Zenon, <2>1
  <2> QED
    BY Zenon, <1>2, <2>1, <2>2 DEF ClaimsSlot
<1>3. ASSUME NEW i \in Slots, NEW w \in Workers, markReceived(i, w) PROVE TypeOK'
  BY Zenon, <1>3 DEF markReceived
<1>4. ASSUME NEW i \in Slots, NEW w \in Workers, NEW r \in SettledStates,
             settle(i, w, r)
      PROVE  TypeOK'
  BY Zenon, <1>4 DEF settle
<1>5. CASE reapExpired
  BY Zenon, <1>5 DEF reapExpired
<1>6. CASE Tick
  BY <1>6 DEF Tick
<1>7. CASE UNCHANGED vars
  BY Zenon, <1>7 DEF vars
<1> HIDE DEF TypeOK
<1> QED
  BY Zenon, <1>1, <1>2, <1>3, <1>4, <1>5, <1>6, <1>7, StepCases

\* Claims are counted: a published record starts at attempt 1, an expired one
\* continues from the lease reapExpired left in place.
LEMMA RecordStep == TypeOK /\ RecordInv /\ [Next]_vars => RecordInv'
<1> SUFFICES ASSUME TypeOK, RecordInv, [Next]_vars PROVE RecordInv'
  BY Zenon
<1> USE ConstantFacts DEF TypeOK, RecordInv, InFlight, SettledStates
<1>1. ASSUME NEW k \in Keys, publish(k) PROVE RecordInv'
  BY <1>1, PublishFacts
<1>2. ASSUME NEW i \in Slots, NEW w \in Workers, NEW d \in Durations,
             ClaimsSlot(i, w, d)
      PROVE  RecordInv'
  <2>1. i <= len /\ NextAttempt(i) = granted[i] + 1
    BY <1>2 DEF ClaimsSlot, ScanFinds, Claimable, NextAttempt
  <2> QED
    BY <1>2, <2>1 DEF ClaimsSlot
<1>3. ASSUME NEW i \in Slots, NEW w \in Workers, markReceived(i, w) PROVE RecordInv'
  BY Zenon, <1>3 DEF markReceived
<1>4. ASSUME NEW i \in Slots, NEW w \in Workers, NEW r \in SettledStates,
             settle(i, w, r)
      PROVE  RecordInv'
  BY Zenon, <1>4 DEF settle
<1>5. CASE reapExpired
  BY Zenon, <1>5 DEF reapExpired, Lapsed
<1>6. CASE Tick
  BY Zenon, <1>6 DEF Tick
<1>7. CASE UNCHANGED vars
  BY Zenon, <1>7 DEF vars
<1> HIDE DEF TypeOK, RecordInv, InFlight, SettledStates
<1> QED
  BY Zenon, <1>1, <1>2, <1>3, <1>4, <1>5, <1>6, <1>7, StepCases

\* Only claim adds a lease, to a record whose earlier leases have all run out,
\* and under the next attempt number.
LEMMA LeaseStep == TypeOK /\ RecordInv /\ LeaseInv /\ [Next]_vars => LeaseInv'
<1> SUFFICES ASSUME TypeOK, RecordInv, LeaseInv, [Next]_vars PROVE LeaseInv'
  BY Zenon
<1> USE ConstantFacts DEF TypeOK, LeaseInv, Lease, InFlight, SettledStates
<1>1. ASSUME NEW k \in Keys, publish(k) PROVE LeaseInv'
  BY <1>1, PublishFacts
<1>2. ASSUME NEW i \in Slots, NEW w \in Workers, NEW d \in Durations,
             ClaimsSlot(i, w, d)
      PROVE  LeaseInv'
  <2> DEFINE token == granted[i] + 1
             new == [slot |-> i, worker |-> w, attempt |-> token, until |-> clock + d]
  <2>1. /\ i <= len /\ NextAttempt(i) = token
        /\ state[i] \in {"published", "expired"}
    BY <1>2 DEF ClaimsSlot, ScanFinds, Claimable, NextAttempt, RecordInv
  <2>2. /\ state' = [state EXCEPT ![i] = "leased"]
        /\ until' = [until EXCEPT ![i] = clock + d]
        /\ granted' = [granted EXCEPT ![i] = token]
        /\ leases' = leases \cup {new}
        /\ len' = len /\ clock' = clock
    BY Zenon, <1>2, <2>1 DEF ClaimsSlot
  <2>3. token \in Nat /\ clock + d \in Nat /\ new \in Lease
    OBVIOUS
  <2>4. \A l \in leases : l.slot = i => l.attempt < token /\ ~(l.until > clock)
    BY <2>1
  <2> HIDE DEF token
  <2>5. ASSUME NEW l \in leases'
        PROVE  /\ l.attempt <= granted'[l.slot]
               /\ l.slot <= len'
               /\ l.until > clock' =>
                    /\ l.attempt = granted'[l.slot]
                    /\ state'[l.slot] \notin {"published", "expired"}
                    /\ state'[l.slot] \in InFlight => l.until = until'[l.slot]
    <3>1. CASE l = new
      BY <2>1, <2>2, <2>3, <3>1
    <3>2. CASE l \in leases /\ l.slot = i
      BY <2>1, <2>2, <2>3, <2>4, <3>2
    <3>3. CASE l \in leases /\ l.slot # i
      BY Zenon, <2>2, <3>3
    <3> QED
      BY Zenon, <2>2, <3>1, <3>2, <3>3
  <2>6. \A l, m \in leases' : l.slot = m.slot /\ l.attempt = m.attempt => l = m
    BY <2>2, <2>3, <2>4
  <2> QED
    BY Zenon, <2>5, <2>6
<1>3. ASSUME NEW i \in Slots, NEW w \in Workers, markReceived(i, w) PROVE LeaseInv'
  BY Zenon, <1>3 DEF markReceived
<1>4. ASSUME NEW i \in Slots, NEW w \in Workers, NEW r \in SettledStates,
             settle(i, w, r)
      PROVE  LeaseInv'
  BY Zenon, <1>4 DEF settle
<1>5. CASE reapExpired
  BY <1>5 DEF reapExpired, Lapsed, Inactive
<1>6. CASE Tick
  BY <1>6 DEF Tick
<1>7. CASE UNCHANGED vars
  BY Zenon, <1>7 DEF vars
<1> HIDE DEF TypeOK, LeaseInv, Lease, InFlight, SettledStates
<1> QED
  BY Zenon, <1>1, <1>2, <1>3, <1>4, <1>5, <1>6, <1>7, StepCases

\* Only publish adds a record, and findByIdempotencyKey has not found its key.
LEMMA KeyStep == TypeOK /\ KeysDistinct /\ [Next]_vars => KeysDistinct'
<1> SUFFICES ASSUME TypeOK, KeysDistinct, [Next]_vars PROVE KeysDistinct'
  BY Zenon
<1> USE ConstantFacts DEF TypeOK, KeysDistinct, Slots
<1>1. ASSUME NEW k \in Keys, publish(k) PROVE KeysDistinct'
  BY <1>1 DEF publish, HasRoom, Known
<1>2. ASSUME len' = len, key' = key PROVE KeysDistinct'
  BY Zenon, <1>2
<1> HIDE DEF TypeOK, KeysDistinct, Slots
<1> QED
  BY Zenon, <1>1, <1>2, StepCases DEF ClaimsSlot, markReceived, settle, reapExpired, Tick, vars

\* claim leases a record only when every record ahead of it has left
\* "published", that is, has been leased before.
LEMMA FrontStep == TypeOK /\ RecordInv /\ FrontFirst /\ [Next]_vars => FrontFirst'
<1> SUFFICES ASSUME TypeOK, RecordInv, FrontFirst, [Next]_vars PROVE FrontFirst'
  BY Zenon
<1> USE ConstantFacts DEF TypeOK, FrontFirst, Slots
<1>1. ASSUME NEW k \in Keys, publish(k) PROVE FrontFirst'
  <2>1. len' = len + 1 /\ granted' = granted /\ granted[len + 1] = 0
    BY Zenon, <1>1, PublishFacts
  <2>2. ASSUME NEW i \in 1..(len + 1), NEW j \in 1..(len + 1), i < j, granted[j] > 0
        PROVE  granted[i] > 0
    <3>1. j # len + 1
      <4>1. ~(0 > 0)
        OBVIOUS
      <4> HIDE DEF TypeOK, FrontFirst
      <4> QED
        BY <2>1, <2>2, <4>1, Zenon
    <3>2. i \in 1..len /\ j \in 1..len
      BY <2>2, <3>1
    <3> QED
      BY Zenon, <2>2, <3>2
  <2> QED
    BY Zenon, <2>1, <2>2
<1>2. ASSUME NEW i \in Slots, NEW w \in Workers, NEW d \in Durations,
             ClaimsSlot(i, w, d)
      PROVE  FrontFirst'
  <2>1. \A j \in 1..(i - 1) : granted[j] > 0
    <3>1. ASSUME NEW j \in 1..(i - 1) PROVE granted[j] > 0
      <4>1. j \in Slots /\ j \in 1..len /\ ~Claimable(j)
        <5>1. i \in 1..len /\ ~Claimable(j)
          BY Zenon, <1>2 DEF ClaimsSlot, ScanFinds, Claimable
        <5> QED
          BY <5>1
      <4>2. state[j] # "published"
        BY Zenon, <4>1 DEF Claimable
      <4>3. granted[j] # 0 /\ granted[j] \in Nat
        BY Zenon, <4>1, <4>2 DEF RecordInv
      <4> QED
        BY <4>3
    <3> QED
      BY Zenon, <3>1
  <2>2. granted' = [granted EXCEPT ![i] = granted[i] + 1] /\ len' = len
    BY Zenon, <1>2 DEF ClaimsSlot
  <2> QED
    BY <2>1, <2>2
<1>3. ASSUME len' = len, granted' = granted PROVE FrontFirst'
  BY Zenon, <1>3
<1> HIDE DEF TypeOK, FrontFirst, Slots
<1> QED
  BY Zenon, <1>1, <1>2, <1>3, StepCases DEF markReceived, settle, reapExpired, Tick, vars

-----------------------------------------------------------------------------
\* The inductive invariant holds in every state the broker reaches, from the
\* empty array on (delivery.zig, every operation).
THEOREM Inductive == Spec => []IInv
<1>1. Init => IInv
  BY ConstantFacts DEF Init, IInv, TypeOK, RecordInv, LeaseInv, KeysDistinct, FrontFirst,
     Slots, DeliveryStates, InFlight, SettledStates
<1>2. IInv /\ [Next]_vars => IInv'
  BY Zenon, TypeStep, RecordStep, LeaseStep, KeyStep, FrontStep DEF IInv
<1> QED
  BY <1>1, <1>2, PTL DEF Spec

\* At most one unexpired lease per record at any instant (claim, reapExpired).
THEOREM LeaseExclusive == Spec => []OneLiveLease
<1>1. IInv => OneLiveLease
  BY DEF IInv, LeaseInv, OneLiveLease
<1> QED
  BY <1>1, Inductive, PTL

\* The attempt of a lease is the number of claims of its record, across
\* expiries, and identifies the lease (claim, reapExpired).
THEOREM AttemptsIdentifyLeases == Spec => []AttemptsCounted
<1>1. IInv => AttemptsCounted
  BY ConstantFacts DEF IInv, TypeOK, RecordInv, LeaseInv, AttemptsCounted, Slots,
     DeliveryStates, InFlight, SettledStates
<1> QED
  BY <1>1, Inductive, PTL

\* A key has one record for ever (publish) ...
THEOREM KeyStoredOnce == Spec => []KeysDistinct
<1>1. IInv => KeysDistinct
  BY Zenon DEF IInv
<1> QED
  BY <1>1, Inductive, PTL

\* ... and records are first leased in the order of publication (claim).
THEOREM FirstLeaseInOrder == Spec => []FrontFirst
<1>1. IInv => FrontFirst
  BY Zenon DEF IInv
<1> QED
  BY <1>1, Inductive, PTL

\* Whatever expires or is settled in between, the array of records is what publish
\* and claim promise, for any number of keys, workers and records.
THEOREM RecordsStayInOrder == Spec => []RecordsInOrder
<1>1. IInv => TypeOK
  BY Zenon DEF IInv
<1> QED
  BY <1>1, Inductive, AttemptsIdentifyLeases, KeyStoredOnce, FirstLeaseInOrder, PTL
     DEF RecordsInOrder

\* The broker implements the settlement protocol: every operation is a step of
\* it or leaves it unchanged, with a record's old lease read as no lease once
\* the record has expired.
THEOREM BrokerImplementsProtocol == Spec => ImplementsProtocol
<1>1. Init => Protocol!Init
  BY ConstantFacts DEF Init, Protocol!Init, Slots, InFlight
<1>2. IInv /\ [Next]_vars => [Protocol!Next]_(Protocol!vars)
  <2> SUFFICES ASSUME IInv, [Next]_vars
               PROVE  [Protocol!Next]_(Protocol!vars)
    BY Zenon
  <2> USE ConstantFacts DEF IInv, TypeOK, InFlight, Protocol!InFlight,
          Protocol!LegalTransition, Protocol!Transition
  <2> DEFINE ph == [j \in Slots |-> IF j <= len THEN state[j] ELSE "absent"]
             ho == [j \in Slots |-> IF state[j] \in InFlight THEN owner[j] ELSE NoWorker]
  <2>1. ASSUME NEW k \in Keys, publish(k) PROVE Protocol!Next
    <3> PICK n \in Slots : n = len + 1
      BY Zenon, <2>1, PublishFacts
    <3>1. /\ len' = n /\ state[n] = "published" /\ state' = state
          /\ ho' = ho /\ granted' = granted
      BY Zenon, <2>1, PublishFacts
    <3>2. \A j \in Slots : j <= n <=> j <= len \/ j = n
      OBVIOUS
    <3>3. ~(n <= len)
      OBVIOUS
    <3>4. ph[n] = "absent" /\ ph' = [ph EXCEPT ![n] = "published"]
      BY <3>1, <3>2, <3>3, Zenon
    <3>5. Protocol!Publish(n)
      BY Zenon, <3>1, <3>4 DEF Protocol!Publish
    <3> QED
      BY Zenon, <3>5 DEF Protocol!Next
  <2>2. ASSUME NEW i \in Slots, NEW w \in Workers, NEW d \in Durations,
               ClaimsSlot(i, w, d)
        PROVE  Protocol!Next
    <3>1. ph[i] \in {"published", "expired"} /\ i <= len
      BY <2>2 DEF ClaimsSlot, ScanFinds, Claimable
    <3>2. ph' = [ph EXCEPT ![i] = "leased"]
      BY Zenon, <2>2, <3>1 DEF ClaimsSlot
    <3>3. ho' = [ho EXCEPT ![i] = w]
      BY Zenon, <2>2 DEF ClaimsSlot
    <3>4. granted' = [granted EXCEPT ![i] = granted[i] + 1]
      BY Zenon, <2>2 DEF ClaimsSlot
    <3>5. Protocol!Lease(i, w)
      BY <3>1, <3>2, <3>3, <3>4, Zenon DEF Protocol!Lease, Protocol!NeedsRedelivery
    <3> QED
      BY Zenon, <3>5 DEF Protocol!Next
  <2>3. ASSUME NEW i \in Slots, NEW w \in Workers, markReceived(i, w)
        PROVE  Protocol!Next
    <3>1. i <= len /\ ph[i] = "leased"
      BY <2>3 DEF markReceived, OwnedBy
    <3>2. ph' = [ph EXCEPT ![i] = "received"]
      BY Zenon, <2>3, <3>1 DEF markReceived
    <3>3. ho' = [ho EXCEPT ![i] = ho[i]] /\ granted' = granted
      BY Zenon, <2>3 DEF markReceived
    <3>4. Protocol!Frame(i, "received")
      BY Zenon, <3>1, <3>2, <3>3 DEF Protocol!Frame
    <3> QED
      BY Zenon, <3>4 DEF Protocol!Next, Protocol!ControlKinds
  <2>4. ASSUME NEW i \in Slots, NEW w \in Workers, NEW r \in SettledStates,
               settle(i, w, r)
        PROVE  Protocol!Next
    <3>1. i <= len /\ ph[i] \in InFlight
      BY <2>4 DEF settle, OwnedBy
    <3>2. ph' = [ph EXCEPT ![i] = r]
      BY Zenon, <2>4, <3>1 DEF settle
    <3>3. ho' = [ho EXCEPT ![i] = NoWorker] /\ granted' = granted
      BY Zenon, <2>4 DEF settle, SettledStates
    <3>4. Protocol!Frame(i, r)
      BY <3>1, <3>2, <3>3, Zenon DEF Protocol!Frame, SettledStates
    <3> QED
      BY Zenon, <3>4 DEF Protocol!Next, Protocol!ControlKinds, SettledStates
  <2>5. CASE reapExpired
    <3> PICK S \in SUBSET Slots : S = {j \in Slots : Lapsed(j)}
      BY Zenon
    <3>1. \A j \in S : ph[j] \in InFlight
      BY DEF Lapsed
    <3>2. ph' = [j \in Slots |-> IF j \in S THEN "expired" ELSE ph[j]]
      BY <2>5 DEF reapExpired, Lapsed
    <3>3. ho' = [j \in Slots |-> IF j \in S THEN NoWorker ELSE ho[j]] /\ granted' = granted
      BY Zenon, <2>5 DEF reapExpired, Lapsed
    <3>4. Protocol!Expire(S)
      BY <3>1, <3>2, <3>3, Zenon DEF Protocol!Expire
    <3> QED
      BY Zenon, <3>4 DEF Protocol!Next
  <2>6. CASE Tick
    BY Zenon, <2>6 DEF Tick, Protocol!vars
  <2>7. CASE UNCHANGED vars
    BY Zenon, <2>7 DEF vars, Protocol!vars
  <2> QED
    BY Zenon, <2>1, <2>2, <2>3, <2>4, <2>5, <2>6, <2>7, StepCases
<1> QED
  BY <1>1, <1>2, Inductive, PTL DEF Spec, ImplementsProtocol, Protocol!Spec

=============================================================================
