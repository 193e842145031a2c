---------------------- MODULE DurableSettlementProofs ----------------------
(***************************************************************************)
(* Proofs about DurableSettlement, for any stream, journal size, number of *)
(* faults and place where the process stops: what was settled stays in the *)
(* journal, a coordinator that accepts calls knows it, and a settled       *)
(* effect does not run again.                                              *)
(***************************************************************************)
EXTENDS DurableSettlement, WellFoundedInduction, TLAPS

\* An event id names one message key, however often it is published.
DistinctIds == \A m, n \in Messages : m.event = n.event => m.key = n.key

Line == [intact : BOOLEAN, record : Record]

\* What the whole journal says, spliced lines included.
Stored == Image(Len(lines))

Named(e, k) == \E m \in Messages : m.event = e /\ m.key = k

\* Each line was a valid successor of the ones before it when it was written,
\* and no line takes a settlement back.
JournalOK ==
    /\ lines \in Seq(Line)
    /\ \A j \in 1..Len(lines) :
          /\ Named(lines[j].record.event, lines[j].record.key)
          /\ Valid(Image(j - 1), Sequence(j - 1), lines[j].record)
    /\ \A n \in 0..Len(lines), k \in MessageKeys :
          IsSettled(Image(n), k) => IsSettled(Stored, k)

\* A coordinator that accepts calls holds what the journal says; one that has
\* stopped may be a line behind, but never ahead of it.
CoordinatorOK ==
    /\ Ready => projection = Stored /\ last_sequence = Sequence(Len(lines))
    /\ recovered => \A k \in MessageKeys : IsSettled(projection, k) => IsSettled(Stored, k)

\* The settlements that were reported or acknowledged, or are about to be, are
\* in the journal.
PromisesOK ==
    /\ \A k \in settledKeys : IsSettled(Stored, k)
    /\ \A m \in acked : IsSettled(Stored, m.key)
    /\ pc = "ack" => IsSettled(Stored, msg.key)

\* A worker that asks ackIfAlreadySettled runs only what is not settled.
WorkerOK ==
    WorkerCheck = "ackIfAlreadySettled" /\ pc \in {"run", "execute"} =>
        Ready /\ ~IsSettled(projection, msg.key)

\* The inductive invariant.
DurableInvariant == TypeOK /\ JournalOK /\ CoordinatorOK /\ PromisesOK /\ WorkerOK

-----------------------------------------------------------------------------
\* A bounded set of numbers that is not empty has a largest element.
LEMMA LastExists ==
    ASSUME NEW n \in Nat, NEW S \in SUBSET (0..n), S # {}
    PROVE  \E j \in S : \A i \in S : i <= j
<1> DEFINE T == {m \in Nat : n - m \in S}
           R == {p \in Nat \X Nat : p[1] < p[2]}
<1>1. IsWellFoundedOn(R, Nat)
    BY Zenon, NatLessThanWellFounded DEF OpToRel
<1>2. T \subseteq Nat /\ T # {}
  <2>1. PICK s \in S : s \in 0..n
      BY Zenon
  <2>2. n - s \in Nat /\ n - (n - s) = s
      BY <2>1
  <2> QED BY Zenon, <2>1, <2>2
<1>3. PICK x \in T : \A y \in T : ~(<<y, x>> \in R)
  <2> HIDE DEF T, R
  <2> QED BY Zenon, <1>1, <1>2, WFMin
<1>4. \A y \in T : ~(y < x)
    BY Zenon, <1>2, <1>3
<1>5. ASSUME NEW i \in S PROVE i <= n - x
  <2>1. i \in 0..n /\ n - i \in Nat /\ n - (n - i) = i
      OBVIOUS
  <2>2. n - i \in T
      BY Zenon, <2>1
  <2>3. x \in Nat
      BY Zenon, <1>2
  <2>4. ~(n - i < x)
      BY Zenon, <1>4, <2>2
  <2> HIDE DEF T, R
  <2> QED BY <2>1, <2>3, <2>4
<1> QED BY Zenon, <1>3, <1>5

\* The last snapshot of an event is one of its snapshots.
LEMMA LastSnapshot ==
    ASSUME NEW n \in Nat, NEW e, Snapshots(e, n) # {}
    PROVE  LET j == CHOOSE j \in Snapshots(e, n) : \A i \in Snapshots(e, n) : i <= j
           IN  j \in Snapshots(e, n) /\ \A i \in Snapshots(e, n) : i <= j
<1>1. Snapshots(e, n) \in SUBSET (0..n)
    BY DEF Snapshots
<1>2. \E j \in Snapshots(e, n) : \A i \in Snapshots(e, n) : i <= j
    BY Zenon, <1>1, LastExists
<1> QED BY Zenon, <1>2

\* Replay stops somewhere, at the end of the journal if it stops nowhere before.
LEMMA ReplayedStops ==
    ASSUME lines \in Seq(Line)
    PROVE  /\ Replayed \in 0..Len(lines)
           /\ \A j \in 1..Replayed : Applies(j)
           /\ Replayed < Len(lines) => ~Applies(Replayed + 1)
<1> DEFINE S == {n \in 0..Len(lines) : \A j \in 1..n : Applies(j)}
<1>1. Len(lines) \in Nat
    OBVIOUS
<1>2. S \in SUBSET (0..Len(lines)) /\ 0 \in S
    BY <1>1
<1>3. PICK n \in S : \A i \in S : i <= n
  <2> HIDE DEF S
  <2> QED BY Zenon, <1>1, <1>2, LastExists
<1>4. n < Len(lines) => ~Applies(n + 1)
  <2> SUFFICES ASSUME n < Len(lines), Applies(n + 1) PROVE FALSE
      BY Zenon
  <2>1. n + 1 \in S
    <3>1. n \in 0..Len(lines) /\ \A j \in 1..n : Applies(j)
        BY Zenon
    <3>2. n + 1 \in 0..Len(lines)
        BY <1>1, <3>1
    <3>3. \A j \in 1..(n + 1) : j \in 1..n \/ j = n + 1
        BY <3>1
    <3> QED BY Zenon, <3>1, <3>2, <3>3
  <2>2. n + 1 <= n /\ n \in Int
      BY <1>1, <1>3, <2>1
  <2> QED BY <2>2
<1> QED BY Zenon, <1>3, <1>4 DEF Replayed

-----------------------------------------------------------------------------
\* Appending a line leaves what the lines before it say as it was.
LEMMA ImageKept ==
    ASSUME lines \in Seq(Line), NEW l \in Line, lines' = Append(lines, l),
           NEW n \in 0..Len(lines)
    PROVE  Image(n)' = Image(n) /\ Sequence(n)' = Sequence(n)
<1>1. Len(lines) \in Nat /\ n \in Nat /\ \A j \in 1..n : lines'[j] = lines[j]
    OBVIOUS
<1>2. \A e \in Events : Snapshots(e, n)' = Snapshots(e, n)
    BY Zenon, <1>1 DEF Snapshots
<1>3. ASSUME NEW e \in Events PROVE Image(n)'[e] = Image(n)[e]
  <2>1. CASE Snapshots(e, n) = {}
      BY Zenon, <1>2, <2>1 DEF Image
  <2>2. CASE Snapshots(e, n) # {}
    <3> DEFINE j == CHOOSE j \in Snapshots(e, n) : \A i \in Snapshots(e, n) : i <= j
    <3>1. j \in Snapshots(e, n)
        BY Zenon, <1>1, <2>2, LastSnapshot
    <3>2. lines'[j] = lines[j]
        BY Zenon, <1>1, <3>1 DEF Snapshots
    <3>3. Image(n)[e] = [key |-> lines[j].record.key, state |-> lines[j].record.state]
        BY Zenon, <2>2 DEF Image
    <3>4. Image(n)'[e] = [key |-> lines'[j].record.key, state |-> lines'[j].record.state]
        BY Zenon, <1>2, <2>2 DEF Image
    <3> HIDE DEF j
    <3> QED BY Zenon, <3>2, <3>3, <3>4
  <2> QED BY Zenon, <2>1, <2>2
<1>4. Image(n) = [e \in Events |-> Image(n)[e]] /\ Image(n)' = [e \in Events |-> Image(n)'[e]]
    BY Zenon DEF Image
<1>5. Sequence(n)' = Sequence(n)
    BY <1>1 DEF Sequence
<1> QED BY Zenon, <1>3, <1>4, <1>5

\* A line that is appended becomes the snapshot of its event.
LEMMA ImageNext ==
    ASSUME lines \in Seq(Line), NEW l \in Line, lines' = Append(lines, l),
           NEW n, n = Len(lines)
    PROVE  Image(n + 1)' = Put(Image(n), l.record) /\ Sequence(n + 1)' = l.record.seq
<1>1. /\ n \in Nat /\ n \in 0..Len(lines)
      /\ \A j \in 1..n : lines'[j] = lines[j]
      /\ lines'[n + 1] = l
    OBVIOUS
<1>2. Image(n)' = Image(n)
    BY Zenon, <1>1, ImageKept
<1>3. l.record.event \in Events
    BY Zenon DEF Line, Record
<1>4. ASSUME NEW e \in Events, e # l.record.event
      PROVE  Image(n + 1)'[e] = Image(n)[e]
  <2>1. Snapshots(e, n + 1)' = Snapshots(e, n)'
    <3>1. \A j \in 1..(n + 1) : j \in 1..n \/ j = n + 1
        BY <1>1
    <3> QED BY <1>1, <1>4, <3>1 DEF Snapshots
  <2>2. Image(n + 1)'[e] = Image(n)'[e]
      BY Zenon, <2>1 DEF Image
  <2> QED BY Zenon, <1>2, <2>2
<1>5. Image(n + 1)'[l.record.event] = [key |-> l.record.key, state |-> l.record.state]
  <2> DEFINE e == l.record.event
             j == CHOOSE j \in Snapshots(e, n + 1)' : \A i \in Snapshots(e, n + 1)' : i <= j
  <2>1. n + 1 \in Snapshots(e, n + 1)' /\ \A i \in Snapshots(e, n + 1)' : i \in Nat /\ i <= n + 1
      BY <1>1 DEF Snapshots
  <2>2. j \in Snapshots(e, n + 1)' /\ \A i \in Snapshots(e, n + 1)' : i <= j
      BY Zenon, <2>1
  <2>3. j = n + 1
      BY <1>1, <2>1, <2>2
  <2>4. Image(n + 1)'[e] = [key |-> lines'[j].record.key, state |-> lines'[j].record.state]
      BY Zenon, <1>3, <2>1 DEF Image
  <2> HIDE DEF j
  <2> QED BY Zenon, <1>1, <2>3, <2>4
<1>6. Image(n + 1)' = [e \in Events |-> Image(n + 1)'[e]] /\ Image(n) = [e \in Events |-> Image(n)[e]]
    BY Zenon DEF Image
<1>7. Put(Image(n), l.record) =
        [e \in Events |-> IF e = l.record.event THEN [key |-> l.record.key, state |-> l.record.state]
                          ELSE Image(n)[e]]
    BY Zenon, <1>6 DEF Put
<1>8. Image(n + 1)' = Put(Image(n), l.record)
    BY <1>4, <1>5, <1>6, <1>7
<1>9. Sequence(n + 1)' = l.record.seq
    BY <1>1 DEF Sequence
<1> QED BY Zenon, <1>8, <1>9

\* An entry of the projection is a snapshot of the journal, and carries the key
\* of the message its event id belongs to.
LEMMA ImageType ==
    ASSUME JournalOK, NEW n \in 0..Len(lines)
    PROVE  /\ Image(n) \in [Events -> {NoEntry} \cup [key : MessageKeys, state : States]]
           /\ \A e \in Events : Image(n)[e] # NoEntry => Named(e, Image(n)[e].key)
           /\ Sequence(n) \in 0..MaxSeq
<1>1. Len(lines) \in Nat /\ n \in Nat /\ \A j \in 1..n : lines[j] \in Line /\ j \in 1..Len(lines)
    BY DEF JournalOK
<1>2. ASSUME NEW e \in Events
      PROVE  /\ Image(n)[e] \in {NoEntry} \cup [key : MessageKeys, state : States]
             /\ Image(n)[e] # NoEntry => Named(e, Image(n)[e].key)
  <2>1. CASE Snapshots(e, n) = {}
      BY Zenon, <2>1 DEF Image
  <2>2. CASE Snapshots(e, n) # {}
    <3> DEFINE j == CHOOSE j \in Snapshots(e, n) : \A i \in Snapshots(e, n) : i <= j
    <3>1. j \in Snapshots(e, n)
        BY Zenon, <1>1, <2>2, LastSnapshot
    <3>2. j \in 1..n /\ lines[j].record.event = e
        BY Zenon, <3>1 DEF Snapshots
    <3>3. Image(n)[e] = [key |-> lines[j].record.key, state |-> lines[j].record.state]
        BY Zenon, <2>2 DEF Image
    <3> HIDE DEF j
    <3>4. lines[j].record \in Record /\ Named(e, lines[j].record.key)
        BY Zenon, <1>1, <3>2 DEF JournalOK, Line
    <3> QED BY <3>3, <3>4 DEF Record
  <2> QED BY Zenon, <2>1, <2>2
<1>3. Image(n) = [e \in Events |-> Image(n)[e]]
    BY Zenon DEF Image
<1>4. Sequence(n) \in 0..MaxSeq
    BY <1>1, DurableAssumption DEF Sequence, Line, Record
<1> QED BY Zenon, <1>2, <1>3, <1>4

\* The transition table lets no state follow a settled one, and an event id keeps
\* its key, so a valid snapshot takes no settlement back.
LEMMA PutKeepsSettled ==
    ASSUME DistinctIds, NEW p, NEW last, NEW r \in Record, NEW k \in MessageKeys,
           p \in [Events -> {NoEntry} \cup [key : MessageKeys, state : States]],
           \A e \in Events : p[e] # NoEntry => Named(e, p[e].key),
           Named(r.event, r.key), Valid(p, last, r), IsSettled(p, k)
    PROVE  IsSettled(Put(p, r), k)
<1>1. PICK e \in Events : p[e].key = k /\ p[e].state \in SettledStates
    BY Zenon DEF IsSettled
<1>2. p[e] # NoEntry
    BY <1>1 DEF NoEntry, SettledStates
<1>3. CASE e # r.event
  <2>1. Put(p, r)[e] = p[e]
      BY Zenon, <1>3 DEF Put
  <2> QED BY Zenon, <1>1, <2>1 DEF IsSettled
<1>4. CASE e = r.event
  <2>1. r.key = k
      BY <1>1, <1>2, <1>4 DEF Named, DistinctIds
  <2>2. r.state = p[e].state
      BY Zenon, <1>1, <1>2, <1>4 DEF Valid, Allowed, SettledStates
  <2>3. Put(p, r)[e] = [key |-> r.key, state |-> r.state]
      BY Zenon, <1>4 DEF Put
  <2> QED BY <1>1, <2>1, <2>2, <2>3 DEF IsSettled
<1> QED BY Zenon, <1>3, <1>4

\* A valid line extends the journal: it stays well formed, and no settlement is
\* lost, whether or not the line is spliced to a torn one.
LEMMA AppendStep ==
    ASSUME DistinctIds, JournalOK, NEW r \in Record, Named(r.event, r.key),
           Valid(Stored, Sequence(Len(lines)), r), NEW b \in BOOLEAN,
           lines' = Append(lines, [intact |-> b, record |-> r])
    PROVE  /\ JournalOK'
           /\ Stored' = Put(Stored, r)
           /\ Sequence(Len(lines))' = r.seq
           /\ \A k \in MessageKeys : IsSettled(Stored, k) => IsSettled(Stored', k)
<1> DEFINE l == [intact |-> b, record |-> r]
<1>1. lines \in Seq(Line) /\ l \in Line /\ lines' = Append(lines, l)
    BY Zenon DEF JournalOK, Line
<1>2. PICK n : n = Len(lines)
    BY Zenon
<1>3. /\ n \in Nat /\ Len(lines') = n + 1 /\ lines' \in Seq(Line)
      /\ \A j \in 1..n : lines'[j] = lines[j]
      /\ lines'[n + 1] = l
    BY <1>1, <1>2
<1>4. \A i \in 0..n : Image(i)' = Image(i) /\ Sequence(i)' = Sequence(i)
    BY Zenon, <1>1, <1>2, ImageKept
<1>5. Image(n + 1)' = Put(Image(n), r) /\ Sequence(n + 1)' = r.seq
    BY Zenon, <1>1, <1>2, ImageNext
<1> HIDE DEF l
<1>6. Stored = Image(n) /\ Stored' = Image(n + 1)' /\ Sequence(Len(lines))' = Sequence(n + 1)'
    BY Zenon, <1>2, <1>3 DEF Stored
<1>7. ASSUME NEW k \in MessageKeys, IsSettled(Image(n), k) PROVE IsSettled(Put(Image(n), r), k)
  <2>1. n \in 0..Len(lines)
      BY <1>2, <1>3
  <2>2. /\ Image(n) \in [Events -> {NoEntry} \cup [key : MessageKeys, state : States]]
        /\ \A e \in Events : Image(n)[e] # NoEntry => Named(e, Image(n)[e].key)
      BY Zenon, <2>1, ImageType
  <2>3. Valid(Image(n), Sequence(n), r)
      BY Zenon, <1>2, <1>6
  <2> HIDE DEF JournalOK
  <2> QED BY Zenon, <1>7, <2>2, <2>3, PutKeepsSettled
<1>8. ASSUME NEW j \in 1..(n + 1)
      PROVE  /\ Named(lines'[j].record.event, lines'[j].record.key)
             /\ Valid(Image(j - 1)', Sequence(j - 1)', lines'[j].record)
  <2>1. j - 1 \in 0..n
      BY <1>3
  <2>2. Image(j - 1)' = Image(j - 1) /\ Sequence(j - 1)' = Sequence(j - 1)
      BY Zenon, <1>4, <2>1
  <2>3. CASE j = n + 1
    <3>1. lines'[j].record = r /\ j - 1 = n
        BY <1>3, <2>3 DEF l
    <3> QED BY Zenon, <1>2, <1>6, <2>2, <3>1
  <2>4. CASE j # n + 1
    <3>1. j \in 1..n
        BY <1>3, <2>4
    <3>2. lines'[j] = lines[j]
        BY Zenon, <1>3, <3>1
    <3> QED BY Zenon, <1>2, <2>2, <3>1, <3>2 DEF JournalOK
  <2> QED BY Zenon, <2>3, <2>4
<1>9. ASSUME NEW i \in 0..(n + 1), NEW k \in MessageKeys, IsSettled(Image(i)', k)
      PROVE  IsSettled(Stored', k)
  <2>1. CASE i = n + 1
      BY Zenon, <1>6, <1>9, <2>1
  <2>2. CASE i # n + 1
    <3>1. i \in 0..n
        BY <1>3, <2>2
    <3>2. IsSettled(Image(i), k)
        BY Zenon, <1>4, <1>9, <3>1
    <3>3. IsSettled(Image(n), k)
        BY Zenon, <1>2, <1>6, <3>1, <3>2 DEF JournalOK
    <3> QED BY Zenon, <1>5, <1>6, <1>7, <3>3
  <2> QED BY Zenon, <2>1, <2>2
<1>10. JournalOK'
  <2>1. \A j \in 1..Len(lines') :
          /\ Named(lines'[j].record.event, lines'[j].record.key)
          /\ Valid(Image(j - 1)', Sequence(j - 1)', lines'[j].record)
      BY Zenon, <1>3, <1>8
  <2>2. \A i \in 0..Len(lines'), k \in MessageKeys : IsSettled(Image(i)', k) => IsSettled(Stored', k)
      BY Zenon, <1>3, <1>9
  <2> QED BY Zenon, <1>3, <2>1, <2>2 DEF JournalOK, Valid, IsSettled, Named
<1> QED BY Zenon, <1>5, <1>6, <1>7, <1>10

-----------------------------------------------------------------------------
\* No settlement leaves the journal.
Kept == \A k \in MessageKeys : IsSettled(Stored, k) => IsSettled(Stored', k)

\* The types of the coordinator and of the journal's end.
CoordinatorType ==
    /\ torn \in BOOLEAN /\ recovered \in BOOLEAN /\ poisoned \in BOOLEAN
    /\ projection \in [Events -> {NoEntry} \cup [key : MessageKeys, state : States]]
    /\ last_sequence \in 0..MaxSeq /\ next_sequence \in 1..MaxSeq

\* As long as no line is written, the journal says what it said.
LEMMA JournalSame ==
    ASSUME JournalOK, UNCHANGED lines
    PROVE  /\ JournalOK' /\ Kept
           /\ Stored' = Stored /\ Sequence(Len(lines))' = Sequence(Len(lines))
<1>1. \A n : Image(n)' = Image(n) /\ Sequence(n)' = Sequence(n)
    BY DEF Image, Sequence, Snapshots
<1>2. Stored' = Stored /\ Sequence(Len(lines))' = Sequence(Len(lines))
    BY Zenon DEF Stored, Image, Snapshots, Sequence
<1>3. Kept
    BY Zenon, <1>2 DEF Kept
<1>4. JournalOK'
    BY <1>1, <1>2 DEF JournalOK, Valid, IsSettled, Named
<1> QED BY Zenon, <1>2, <1>3, <1>4

\* What the worker persists is a snapshot of the message it handles.
LEMMA SnapshotRecord ==
    ASSUME TypeOK, NEW s \in States
    PROVE  /\ Snapshot(s) \in Record /\ Named(Snapshot(s).event, Snapshot(s).key)
           /\ Snapshot(s).state = s /\ Snapshot(s).seq = next_sequence
           /\ Snapshot(s).event = msg.event /\ Snapshot(s).key = msg.key
<1>1. msg.event \in Events /\ msg.key \in MessageKeys /\ Named(msg.event, msg.key)
    BY Zenon DEF TypeOK, Events, MessageKeys, Named
<1>2. next_sequence \in 1..MaxSeq
    BY Zenon DEF TypeOK
<1> QED BY Zenon, <1>1, <1>2 DEF Snapshot, Record

\* Store.append adds one line, intact or spliced.
LEMMA WriteAllLine ==
    ASSUME NEW r, WriteAll(r)
    PROVE  \E b \in BOOLEAN : lines' = Append(lines, [intact |-> b, record |-> r])
BY Zenon DEF WriteAll

\* A write that is cut short leaves no line, a torn one, or the whole line.
LEMMA InterruptedStep ==
    ASSUME DistinctIds, DurableInvariant, NEW s \in States, Ready,
           Valid(projection, last_sequence, Snapshot(s)), Interrupted(Snapshot(s))
    PROVE  JournalOK' /\ Kept /\ torn' \in BOOLEAN
<1> USE DEF DurableInvariant
<1>1. torn \in BOOLEAN /\ torn' \in BOOLEAN
    BY Zenon DEF TypeOK, Interrupted, WriteNone, WriteAll, WriteSome, journal
<1>2. CASE UNCHANGED lines
    BY Zenon, <1>1, <1>2, JournalSame
<1>3. CASE WriteAll(Snapshot(s))
  <2>1. Snapshot(s) \in Record /\ Named(Snapshot(s).event, Snapshot(s).key)
      BY Zenon, SnapshotRecord
  <2>2. Valid(Stored, Sequence(Len(lines)), Snapshot(s))
      BY Zenon DEF CoordinatorOK
  <2>3. PICK b \in BOOLEAN : lines' = Append(lines, [intact |-> b, record |-> Snapshot(s)])
      BY Zenon, <1>3, WriteAllLine
  <2> HIDE DEF DurableInvariant
  <2>4. JournalOK
      BY Zenon DEF DurableInvariant
  <2>5. JournalOK' /\ \A k \in MessageKeys : IsSettled(Stored, k) => IsSettled(Stored', k)
      BY Zenon, <2>1, <2>2, <2>3, <2>4, AppendStep
  <2> QED BY Zenon, <1>1, <2>5 DEF Kept
<1> QED BY Zenon, <1>2, <1>3 DEF Interrupted, WriteNone, WriteSome, journal

\* A persist that succeeds keeps journal and projection together.
LEMMA PersistStep ==
    ASSUME DistinctIds, DurableInvariant, NEW s \in States, PersistOk(Snapshot(s))
    PROVE  /\ JournalOK' /\ CoordinatorOK' /\ CoordinatorType' /\ Kept
           /\ projection' = Put(projection, Snapshot(s)) /\ Stored' = projection'
           /\ recovered' = recovered /\ recovered
<1>1. /\ TypeOK /\ JournalOK /\ Ready
      /\ projection = Stored /\ last_sequence = Sequence(Len(lines))
    BY Zenon DEF DurableInvariant, CoordinatorOK, PersistOk
<1>2. /\ Snapshot(s) \in Record /\ Named(Snapshot(s).event, Snapshot(s).key)
    BY Zenon, <1>1, SnapshotRecord
<1>3. PICK b \in BOOLEAN : lines' = Append(lines, [intact |-> b, record |-> Snapshot(s)])
    BY Zenon, WriteAllLine DEF PersistOk
<1>4. Valid(Stored, Sequence(Len(lines)), Snapshot(s))
    BY Zenon, <1>1 DEF PersistOk
<1>5. /\ JournalOK' /\ Stored' = Put(Stored, Snapshot(s))
      /\ Sequence(Len(lines))' = Snapshot(s).seq
      /\ \A k \in MessageKeys : IsSettled(Stored, k) => IsSettled(Stored', k)
    BY Zenon, <1>1, <1>2, <1>3, <1>4, AppendStep
<1>6. /\ projection' = Put(projection, Snapshot(s)) /\ last_sequence' = Snapshot(s).seq
      /\ next_sequence' = NextSequence(Snapshot(s).seq) /\ poisoned' = (Snapshot(s).seq = MaxSeq)
      /\ recovered' = recovered /\ recovered
    BY Zenon, <1>1 DEF PersistOk, Ready
<1>7. Stored' = projection' /\ Kept
    BY Zenon, <1>1, <1>5, <1>6 DEF Kept
<1>8. CoordinatorOK'
    BY Zenon, <1>5, <1>6, <1>7 DEF CoordinatorOK, IsSettled
<1>9. CoordinatorType'
  <2>1. projection' \in [Events -> {NoEntry} \cup [key : MessageKeys, state : States]]
      BY Zenon, <1>1, <1>2, <1>6 DEF Put, Record, TypeOK
  <2>2. last_sequence' \in 0..MaxSeq /\ next_sequence' \in 1..MaxSeq
      BY <1>2, <1>6, DurableAssumption DEF NextSequence, Record
  <2>3. torn' \in BOOLEAN /\ recovered' \in BOOLEAN /\ poisoned' \in BOOLEAN
      BY Zenon, <1>1, <1>6 DEF PersistOk, WriteAll, TypeOK
  <2> QED BY Zenon, <2>1, <2>2, <2>3 DEF CoordinatorType
<1> QED BY Zenon, <1>5, <1>6, <1>7, <1>8, <1>9

\* A persist that fails either changes nothing or stops the coordinator.
LEMMA FailsStep ==
    ASSUME DistinctIds, DurableInvariant, NEW s \in States, Fails(Snapshot(s))
    PROVE  /\ JournalOK' /\ CoordinatorOK' /\ CoordinatorType' /\ Kept
           /\ faults' \in 0..MaxFaults
<1>1. faults' \in 0..MaxFaults
    BY DurableAssumption DEF Fails, Fault, DurableInvariant, TypeOK
<1>2. CASE PersistRefused(Snapshot(s))
  <2>1. UNCHANGED <<lines, torn, projection, last_sequence, next_sequence, recovered, poisoned>>
      BY Zenon, <1>2 DEF PersistRefused, journal, coordinator
  <2>2. /\ JournalOK' /\ Kept
        /\ Stored' = Stored /\ Sequence(Len(lines))' = Sequence(Len(lines))
      BY Zenon, <2>1, JournalSame DEF DurableInvariant
  <2>3. CoordinatorOK'
      BY Zenon, <2>1, <2>2 DEF CoordinatorOK, DurableInvariant, IsSettled, Ready
  <2> QED BY Zenon, <1>1, <2>1, <2>2, <2>3 DEF CoordinatorType, DurableInvariant, TypeOK
<1>3. CASE PersistAmbiguous(Snapshot(s))
  <2>1. JournalOK' /\ Kept /\ torn' \in BOOLEAN
      BY Zenon, <1>3, InterruptedStep DEF PersistAmbiguous
  <2>2. poisoned' = TRUE /\ UNCHANGED <<projection, last_sequence, next_sequence, recovered>>
      BY Zenon, <1>3 DEF PersistAmbiguous
  <2>3. CoordinatorOK'
      BY Zenon, <2>1, <2>2 DEF CoordinatorOK, DurableInvariant, IsSettled, Ready, Kept
  <2> QED BY Zenon, <1>1, <2>1, <2>2, <2>3 DEF CoordinatorType, DurableInvariant, TypeOK
<1> QED BY Zenon, <1>2, <1>3 DEF Fails

-----------------------------------------------------------------------------
\* An empty journal promises nothing.
LEMMA DurableInit == Init => DurableInvariant
<1> SUFFICES ASSUME Init PROVE DurableInvariant
    BY Zenon
<1>1. lines = <<>> /\ Len(lines) = 0 /\ lines \in Seq(Line)
    BY DEF Init
<1>2. TypeOK
  <2>1. Empty \in [Events -> {NoEntry} \cup [key : MessageKeys, state : States]]
      BY Zenon DEF Empty
  <2>2. effects \in [MessageKeys -> Nat] /\ acked \subseteq Messages /\ settledKeys \subseteq MessageKeys
      BY Zenon DEF Init
  <2>3. /\ last_sequence \in 0..MaxSeq /\ next_sequence \in 1..MaxSeq /\ faults \in 0..MaxFaults
        /\ lines \in Seq([intact : BOOLEAN, record : Record])
      BY <1>1, DurableAssumption DEF Init
  <2> QED BY Zenon, <2>1, <2>2, <2>3 DEF Init, TypeOK
<1>3. JournalOK
  <2>1. \A n \in 0..Len(lines) : n = Len(lines)
      BY <1>1
  <2> QED BY <1>1, <2>1 DEF JournalOK, Stored
<1> QED BY Zenon, <1>2, <1>3 DEF Init, DurableInvariant, CoordinatorOK, PromisesOK, WorkerOK, Ready

\* A recover that reads the journal to its end holds what it says; one that
\* stops before leaves a coordinator that accepts nothing.
LEMMA RecoverStep ==
    ASSUME DurableInvariant, Recover \/ RecoverAgain
    PROVE  DurableInvariant'
<1> USE DEF DurableInvariant
<1>1. /\ UNCHANGED <<lines, torn, pc, msg, acked, effects, settledKeys, faults>> /\ ~recovered
      /\ ~Ready
    BY Zenon DEF Recover, RecoverAgain, journal, worker, Ready
<1>2. /\ JournalOK' /\ Kept
      /\ Stored' = Stored /\ Sequence(Len(lines))' = Sequence(Len(lines))
    BY Zenon, <1>1, JournalSame
<1>3. PromisesOK'
    BY Zenon, <1>1, <1>2 DEF PromisesOK, IsSettled
<1>4. CASE Recover
  <2>1. Replayed \in 0..Len(lines)
      BY Zenon, ReplayedStops DEF JournalOK
  <2>2. /\ Image(Replayed) \in [Events -> {NoEntry} \cup [key : MessageKeys, state : States]]
        /\ Sequence(Replayed) \in 0..MaxSeq
      BY Zenon, <2>1, ImageType
  <2>3. CoordinatorType'
      BY <1>1, <1>4, <2>2, DurableAssumption DEF Recover, CoordinatorType, TypeOK
  <2>4. recovered' => projection' = Stored' /\ last_sequence' = Sequence(Len(lines))'
      BY Zenon, <1>2, <1>4 DEF Recover, ReplayOk, Stored
  <2>5. CoordinatorOK'
      BY Zenon, <2>4 DEF CoordinatorOK, Ready, IsSettled
  <2>6. WorkerOK'
    <3>1. ~(WorkerCheck = "ackIfAlreadySettled" /\ pc \in {"run", "execute"})
        BY Zenon, <1>1 DEF WorkerOK
    <3> QED BY Zenon, <1>1, <3>1 DEF WorkerOK
  <2>7. TypeOK'
      BY Zenon, <1>1, <2>3 DEF TypeOK, CoordinatorType
  <2> QED BY Zenon, <1>2, <1>3, <2>5, <2>6, <2>7
<1>5. CASE RecoverAgain
  <2>1. UNCHANGED <<projection, last_sequence, next_sequence, recovered>> /\ poisoned' = TRUE
      BY Zenon, <1>5 DEF RecoverAgain
  <2>2. TypeOK'
      BY Zenon, <1>1, <2>1 DEF TypeOK
  <2>3. CoordinatorOK'
      BY Zenon, <1>1, <2>1 DEF CoordinatorOK, Ready
  <2>4. WorkerOK'
      BY Zenon, <1>1, <2>1 DEF WorkerOK
  <2> QED BY Zenon, <1>2, <1>3, <2>2, <2>3, <2>4
<1> QED BY Zenon, <1>4, <1>5

\* Steps of the worker between two calls that write: what it acknowledges is
\* settled in the journal, what it goes on to run is not.
LEMMA WorkerStep ==
    ASSUME DurableInvariant,
           (\E m \in Messages : Pull(m)) \/ AlreadySettled \/ CheckFails \/ NotSettled \/ Execute \/ Ack
    PROVE  DurableInvariant'
<1> USE DEF DurableInvariant
<1>1. /\ UNCHANGED <<lines, torn, projection, last_sequence, next_sequence, recovered, poisoned,
                     settledKeys>>
    BY Zenon DEF Pull, AlreadySettled, CheckFails, NotSettled, Execute, Ack, journal, coordinator
<1>2. /\ JournalOK' /\ Kept
      /\ Stored' = Stored /\ Sequence(Len(lines))' = Sequence(Len(lines))
    BY Zenon, <1>1, JournalSame
<1>3. CoordinatorOK' /\ (Ready' <=> Ready)
    BY Zenon, <1>1, <1>2 DEF CoordinatorOK, Ready, IsSettled
<1>4. CASE \E m \in Messages : Pull(m)
  <2>1. PICK m \in Messages : Pull(m)
      BY Zenon, <1>4
  <2>2. pc' = "check" /\ msg' \in Messages /\ UNCHANGED <<acked, effects, faults>>
      BY Zenon, <2>1 DEF Pull
  <2> QED BY Zenon, <1>1, <1>2, <1>3, <2>2 DEF TypeOK, PromisesOK, WorkerOK
<1>5. CASE AlreadySettled \/ Ack
  <2>1. pc' = "idle" /\ UNCHANGED <<msg, effects>> /\ acked' \subseteq acked \cup {msg}
        /\ faults' \in 0..MaxFaults
      BY <1>5, DurableAssumption DEF AlreadySettled, Ack, GoTo, SendAck, Fault, TypeOK
  <2>2. msg.key \in MessageKeys
      BY Zenon DEF TypeOK, MessageKeys
  <2>3. IsSettled(Stored, msg.key)
    <3>1. CASE Ack
        BY Zenon, <3>1 DEF Ack, PromisesOK
    <3>2. CASE AlreadySettled
      <4>1. recovered /\ IsSettled(projection, msg.key)
          BY Zenon, <3>2 DEF AlreadySettled, Answers, Ready
      <4> QED BY Zenon, <2>2, <4>1 DEF CoordinatorOK
    <3> QED BY Zenon, <1>5, <3>1, <3>2
  <2>4. \A m \in acked' : IsSettled(Stored', m.key)
      BY Zenon, <1>2, <2>1, <2>3 DEF PromisesOK
  <2>5. PromisesOK'
      BY Zenon, <1>1, <1>2, <2>1, <2>4 DEF PromisesOK, IsSettled
  <2> QED BY Zenon, <1>1, <1>2, <1>3, <2>1, <2>5 DEF TypeOK, WorkerOK
<1>6. CASE CheckFails
    BY Zenon, <1>1, <1>2, <1>3, <1>6 DEF CheckFails, GoTo, TypeOK, PromisesOK, WorkerOK
<1>7. CASE NotSettled
  <2>1. pc' = "run" /\ UNCHANGED <<msg, acked, effects, faults>>
      BY Zenon, <1>7 DEF NotSettled, GoTo
  <2>2. WorkerCheck = "ackIfAlreadySettled" => Ready /\ ~IsSettled(projection, msg.key)
      BY Zenon, <1>7 DEF NotSettled, Answers
  <2>3. WorkerOK'
      BY Zenon, <1>1, <1>3, <2>1, <2>2 DEF WorkerOK, IsSettled
  <2> QED BY Zenon, <1>1, <1>2, <1>3, <2>1, <2>3 DEF TypeOK, PromisesOK
<1>8. CASE Execute
  <2>1. pc' = "commit" /\ UNCHANGED <<msg, acked, faults>>
      BY Zenon, <1>8 DEF Execute, GoTo
  <2>2. effects' \in [MessageKeys -> Nat]
    <3>1. msg.key \in MessageKeys /\ effects \in [MessageKeys -> Nat]
        BY Zenon DEF TypeOK, MessageKeys
    <3> QED BY <1>8, <3>1 DEF Execute
  <2> QED BY Zenon, <1>1, <1>2, <1>3, <2>1, <2>2 DEF TypeOK, PromisesOK, WorkerOK
<1> QED BY Zenon, <1>4, <1>5, <1>6, <1>7, <1>8

\* What is promised stays promised while no settlement leaves the journal.
LEMMA PromisesKept ==
    ASSUME DurableInvariant, Kept, UNCHANGED <<acked, settledKeys>>
    PROVE  /\ \A k \in settledKeys' : IsSettled(Stored', k)
           /\ \A m \in acked' : IsSettled(Stored', m.key)
<1>1. settledKeys \subseteq MessageKeys /\ \A m \in acked : m.key \in MessageKeys
    BY Zenon DEF DurableInvariant, TypeOK, MessageKeys
<1> QED BY Zenon, <1>1 DEF DurableInvariant, PromisesOK, Kept

\* Recording progress settles nothing: what was not settled may still be run.
LEMMA ProgressStep ==
    ASSUME DistinctIds, DurableInvariant, NEW s \in Progress, RecordProgress(s)
    PROVE  DurableInvariant'
<1>1. s \in States /\ s \notin SettledStates
    BY Zenon, DurableAssumption DEF States, SettledStates
<1>2. pc = "run" /\ UNCHANGED <<msg, acked, effects, settledKeys>>
    BY Zenon DEF RecordProgress, GoTo
<1>3. CASE PersistOk(Snapshot(s)) /\ UNCHANGED faults /\ GoTo(IF poisoned' THEN "idle" ELSE "execute")
  <2>1. /\ JournalOK' /\ CoordinatorOK' /\ CoordinatorType' /\ Kept
        /\ projection' = Put(projection, Snapshot(s))
        /\ recovered' = recovered /\ recovered
      BY Zenon, <1>1, <1>3, PersistStep
  <2>2. pc' \in {"idle", "execute"} /\ (pc' = "execute" => ~poisoned') /\ faults' = faults
      BY Zenon, <1>3 DEF GoTo
  <2>3. PromisesOK'
      BY Zenon, <1>2, <2>1, <2>2, PromisesKept DEF PromisesOK, IsSettled
  <2>4. WorkerOK'
    <3> SUFFICES ASSUME WorkerCheck = "ackIfAlreadySettled", pc' = "execute",
                        IsSettled(projection', msg.key)
                 PROVE  FALSE
        BY Zenon, <1>2, <2>1, <2>2 DEF WorkerOK, Ready, IsSettled
    <3>1. ~IsSettled(projection, msg.key)
        BY Zenon, <1>2 DEF DurableInvariant, WorkerOK
    <3>2. PICK e \in Events : projection'[e].key = msg.key /\ projection'[e].state \in SettledStates
        BY Zenon DEF IsSettled
    <3>3. Snapshot(s).state = s
        BY Zenon DEF Snapshot
    <3>4. projection'[e] = projection[e]
        BY Zenon, <1>1, <2>1, <3>2, <3>3 DEF Put, DurableInvariant, TypeOK
    <3> QED BY Zenon, <3>1, <3>2, <3>4 DEF IsSettled
  <2>5. TypeOK'
      BY Zenon, <1>2, <2>1, <2>2 DEF DurableInvariant, TypeOK, CoordinatorType, JournalOK, Line
  <2> QED BY Zenon, <2>1, <2>3, <2>4, <2>5 DEF DurableInvariant
<1>4. CASE Fails(Snapshot(s)) /\ GoTo("idle")
  <2>1. JournalOK' /\ CoordinatorOK' /\ CoordinatorType' /\ Kept /\ faults' \in 0..MaxFaults
      BY Zenon, <1>1, <1>4, FailsStep
  <2>2. pc' = "idle"
      BY Zenon, <1>4 DEF GoTo
  <2>3. PromisesOK'
      BY Zenon, <1>2, <2>1, <2>2, PromisesKept DEF PromisesOK, IsSettled
  <2>4. TypeOK'
      BY Zenon, <1>2, <2>1, <2>2 DEF DurableInvariant, TypeOK, CoordinatorType, JournalOK, Line
  <2> QED BY Zenon, <2>1, <2>2, <2>3, <2>4 DEF DurableInvariant, WorkerOK
<1> QED BY Zenon, <1>3, <1>4 DEF RecordProgress

\* A settlement that persist reports is in the journal before +ACK is sent.
LEMMA CommitStep ==
    ASSUME DistinctIds, DurableInvariant, NEW s \in SettledStates, commitSettlement(s)
    PROVE  DurableInvariant'
<1>1. s \in States
    BY Zenon DEF States
<1>2. UNCHANGED <<msg, acked, effects>>
    BY Zenon DEF commitSettlement, GoTo
<1>3. msg.event \in Events /\ msg.key \in MessageKeys /\ TypeOK
    BY Zenon DEF DurableInvariant, TypeOK, Events, MessageKeys
<1>4. CASE /\ PersistOk(Snapshot(s)) /\ UNCHANGED faults
           /\ settledKeys' = settledKeys \cup {msg.key}
           /\ GoTo(IF poisoned' THEN "idle" ELSE "ack")
  <2>1. /\ JournalOK' /\ CoordinatorOK' /\ CoordinatorType' /\ Kept
        /\ projection' = Put(projection, Snapshot(s)) /\ Stored' = projection'
      BY Zenon, <1>1, <1>4, PersistStep
  <2>2. pc' \in {"idle", "ack"} /\ faults' = faults
      BY Zenon, <1>4 DEF GoTo
  <2>3. IsSettled(Stored', msg.key)
    <3>1. projection'[msg.event] = [key |-> msg.key, state |-> s]
        BY Zenon, <1>3, <2>1 DEF Put, Snapshot, TypeOK
    <3> QED BY <1>3, <2>1, <3>1 DEF IsSettled
  <2>4. (\A k \in settledKeys : IsSettled(Stored', k)) /\ \A m \in acked' : IsSettled(Stored', m.key)
    <3>1. settledKeys \subseteq MessageKeys /\ \A m \in acked : m.key \in MessageKeys
        BY Zenon, <1>3 DEF TypeOK, MessageKeys
    <3> QED BY Zenon, <1>2, <2>1, <3>1 DEF DurableInvariant, PromisesOK, Kept
  <2>5. PromisesOK'
      BY Zenon, <1>2, <1>4, <2>2, <2>3, <2>4 DEF PromisesOK, IsSettled
  <2>6. TypeOK'
      BY Zenon, <1>2, <1>3, <1>4, <2>1, <2>2 DEF TypeOK, CoordinatorType, JournalOK, Line
  <2> QED BY Zenon, <2>1, <2>2, <2>5, <2>6 DEF DurableInvariant, WorkerOK
<1>5. CASE Fails(Snapshot(s)) /\ GoTo("idle") /\ UNCHANGED settledKeys
  <2>1. JournalOK' /\ CoordinatorOK' /\ CoordinatorType' /\ Kept /\ faults' \in 0..MaxFaults
      BY Zenon, <1>1, <1>5, FailsStep
  <2>2. pc' = "idle"
      BY Zenon, <1>5 DEF GoTo
  <2>3. PromisesOK'
      BY Zenon, <1>2, <1>5, <2>1, <2>2, PromisesKept DEF PromisesOK, IsSettled
  <2>4. TypeOK'
      BY Zenon, <1>2, <1>5, <2>1, <2>2 DEF DurableInvariant, TypeOK, CoordinatorType, JournalOK, Line
  <2> QED BY Zenon, <2>1, <2>2, <2>3, <2>4 DEF DurableInvariant, WorkerOK
<1> QED BY Zenon, <1>4, <1>5 DEF commitSettlement

\* A process that starts again knows nothing and has promised nothing new; the
\* line it was writing is there or is not.
LEMMA CrashStep ==
    ASSUME DistinctIds, DurableInvariant, Crash \/ Restart
    PROVE  DurableInvariant'
<1>1. Fresh /\ UNCHANGED <<acked, effects, settledKeys>> /\ faults' \in 0..MaxFaults
    BY DurableAssumption DEF Crash, Restart, Fault, DurableInvariant, TypeOK
<1>2. JournalOK' /\ Kept /\ torn' \in BOOLEAN
  <2>1. CASE UNCHANGED <<lines, torn>>
      BY Zenon, <2>1, JournalSame DEF DurableInvariant, TypeOK
  <2>2. CASE \E s \in States : /\ Ready /\ Valid(projection, last_sequence, Snapshot(s))
                               /\ Interrupted(Snapshot(s))
      BY Zenon, <2>2, InterruptedStep
  <2> QED BY Zenon, <2>1, <2>2 DEF Crash, Restart, WriteNone, journal
<1>3. pc' = "idle" /\ msg' = msg /\ recovered' = FALSE
    BY Zenon, <1>1 DEF Fresh, GoTo
<1>4. CoordinatorType'
  <2>1. Empty \in [Events -> {NoEntry} \cup [key : MessageKeys, state : States]]
      BY Zenon DEF Empty
  <2>2. 0 \in 0..MaxSeq /\ 1 \in 1..MaxSeq
      BY DurableAssumption
  <2> QED BY Zenon, <1>1, <1>2, <2>1, <2>2 DEF Fresh, CoordinatorType
<1>5. CoordinatorOK' /\ WorkerOK'
    BY Zenon, <1>3 DEF CoordinatorOK, WorkerOK, Ready
<1>6. PromisesOK'
    BY Zenon, <1>1, <1>2, <1>3, PromisesKept DEF PromisesOK, IsSettled
<1>7. TypeOK'
    BY Zenon, <1>1, <1>2, <1>3, <1>4 DEF DurableInvariant, TypeOK, CoordinatorType, JournalOK, Line
<1> QED BY Zenon, <1>2, <1>5, <1>6, <1>7 DEF DurableInvariant

-----------------------------------------------------------------------------
\* The invariant holds along every behaviour of a stream whose event ids are
\* distinct, whichever check the worker uses.
THEOREM DurableInductive ==
    ASSUME DistinctIds
    PROVE  Spec => []DurableInvariant
<1>1. DurableInvariant /\ [Next]_vars => DurableInvariant'
  <2> SUFFICES ASSUME DurableInvariant, [Next]_vars PROVE DurableInvariant'
      BY Zenon
  <2>1. CASE UNCHANGED vars
    <3>1. JournalOK' /\ Stored' = Stored /\ Sequence(Len(lines))' = Sequence(Len(lines))
        BY Zenon, <2>1, JournalSame DEF vars, DurableInvariant
    <3>2. TypeOK'
        BY Zenon, <2>1 DEF vars, DurableInvariant, TypeOK
    <3>3. CoordinatorOK' /\ PromisesOK' /\ WorkerOK'
        BY Zenon, <2>1, <3>1 DEF vars, DurableInvariant, CoordinatorOK, PromisesOK, WorkerOK, Ready, IsSettled
    <3> QED BY Zenon, <3>1, <3>2, <3>3 DEF DurableInvariant
  <2>2. CASE Recover \/ RecoverAgain
      BY Zenon, <2>2, RecoverStep
  <2>3. CASE \/ \E m \in Messages : Pull(m)
             \/ AlreadySettled \/ CheckFails \/ NotSettled \/ Execute \/ Ack
      BY Zenon, <2>3, WorkerStep
  <2>4. CASE \E s \in Progress : RecordProgress(s)
      BY Zenon, <2>4, ProgressStep
  <2>5. CASE \E s \in SettledStates : commitSettlement(s)
      BY Zenon, <2>5, CommitStep
  <2>6. CASE Crash \/ Restart
      BY Zenon, <2>6, CrashStep
  <2> QED BY Zenon, <2>1, <2>2, <2>3, <2>4, <2>5, <2>6 DEF Next
<1> QED BY <1>1, DurableInit, PTL DEF Spec

\* A journal none of whose lines is spliced is replayed to its end.
LEMMA UnsplicedReplays ==
    ASSUME DurableInvariant, Unspliced
    PROVE  ReplayOk
<1>1. /\ Len(lines) \in Nat /\ Replayed \in 0..Len(lines)
      /\ Replayed < Len(lines) => ~Applies(Replayed + 1)
    BY ReplayedStops DEF DurableInvariant, JournalOK
<1>2. \A j \in 1..Len(lines) : Applies(j)
    BY DEF DurableInvariant, JournalOK, Unspliced, Applies
<1>3. ~(Replayed < Len(lines))
    BY <1>1, <1>2
<1> QED BY <1>1, <1>3 DEF ReplayOk

\* The invariant gives what a restart reads back.
LEMMA InvariantRecoverable ==
    ASSUME DurableInvariant
    PROVE  RecoverableUnlessSpliced
<1>1. Unspliced => Image(Replayed) = Stored /\ ReplayOk
    BY Zenon, UnsplicedReplays DEF ReplayOk, Stored
<1> QED BY Zenon, <1>1 DEF DurableInvariant, PromisesOK, RecoverableUnlessSpliced, Recoverable

\* For any stream of distinct event ids: a journal in which no append has followed
\* a torn line is replayed to its end and holds every settlement that was reported
\* or acknowledged, wherever the process stopped.
THEOREM JournalRecoverable ==
    ASSUME DistinctIds
    PROVE  Spec => []RecoverableUnlessSpliced
<1>1. DurableInvariant => RecoverableUnlessSpliced
    BY Zenon, InvariantRecoverable
<1> QED BY <1>1, DurableInductive, PTL

\* Where a write is either done or not done, the journal is always recoverable.
THEOREM WholeWritesRecoverable ==
    ASSUME DistinctIds, TornWrites = FALSE
    PROVE  Spec => []Recoverable
<1> DEFINE Whole == torn = FALSE /\ Unspliced
<1>1. Init => Whole
    BY DEF Init, Unspliced
<1>2. DurableInvariant /\ Whole /\ [Next]_vars => Whole'
  <2> SUFFICES ASSUME DurableInvariant, Whole, [Next]_vars PROVE Whole'
      BY Zenon
  <2>1. lines \in Seq(Line)
      BY Zenon DEF DurableInvariant, JournalOK
  <2>2. CASE UNCHANGED <<lines, torn>>
      BY Zenon, <2>2 DEF Unspliced
  <2>3. CASE \E r : WriteAll(r)
    <3>1. PICK r : lines' = Append(lines, [intact |-> TRUE, record |-> r]) /\ torn' = FALSE
        BY <2>3, Zenon DEF WriteAll
    <3>2. \A j \in DOMAIN lines' : lines'[j].intact
        BY <2>1, <3>1 DEF Unspliced, Line
    <3> QED BY Zenon, <3>1, <3>2 DEF Unspliced
  <2>4. UNCHANGED <<lines, torn>> \/ \E r : WriteAll(r)
    <3>1. ASSUME NEW s, Fails(Snapshot(s)) PROVE UNCHANGED <<lines, torn>> \/ \E r : WriteAll(r)
        BY Zenon, <3>1 DEF Fails, PersistRefused, PersistAmbiguous, Interrupted, WriteNone, WriteSome, journal
    <3>2. CASE Crash
        BY Zenon, <3>2 DEF Crash, Interrupted, WriteNone, WriteSome, journal
    <3>3. CASE \E s \in Progress : RecordProgress(s)
        BY Zenon, <3>1, <3>3 DEF RecordProgress, PersistOk
    <3>4. CASE \E s \in SettledStates : commitSettlement(s)
        BY Zenon, <3>1, <3>4 DEF commitSettlement, PersistOk
    <3>5. CASE \/ Recover \/ RecoverAgain \/ (\E m \in Messages : Pull(m))
               \/ AlreadySettled \/ CheckFails \/ NotSettled \/ Execute \/ Ack \/ Restart
               \/ UNCHANGED vars
        BY Zenon, <3>5 DEF Recover, RecoverAgain, Pull, AlreadySettled, CheckFails, NotSettled, Execute,
                    Ack, Restart, vars, journal
    <3> QED BY Zenon, <3>2, <3>3, <3>4, <3>5 DEF Next
  <2> QED BY Zenon, <2>2, <2>3, <2>4
<1>3. DurableInvariant /\ Whole => Recoverable
    BY Zenon, InvariantRecoverable DEF RecoverableUnlessSpliced
<1> HIDE DEF Whole
<1> QED BY <1>1, <1>2, <1>3, DurableInductive, PTL DEF Spec

\* For any stream of distinct event ids, a coordinator that accepts calls answers
\* "settled" for every key whose settlement was ever reported.
THEOREM SettledIsRemembered ==
    ASSUME DistinctIds
    PROVE  Spec => []SettledRemembered
<1>1. DurableInvariant => SettledRemembered
    BY Zenon DEF DurableInvariant, CoordinatorOK, PromisesOK, SettledRemembered
<1> QED BY <1>1, DurableInductive, PTL

\* For any stream of distinct event ids, a worker that asks ackIfAlreadySettled
\* never runs an effect whose settlement is in the journal.
THEOREM SettledNeverRunAgain ==
    ASSUME DistinctIds, WorkerCheck = "ackIfAlreadySettled"
    PROVE  Spec => NoRepeatAfterSettled
<1>1. DurableInvariant /\ [Next]_vars => [RunsUnsettledOnly]_vars
  <2> SUFFICES ASSUME DurableInvariant, Next, NEW k \in MessageKeys, effects'[k] # effects[k]
               PROVE  k \notin settledKeys /\ ~IsSettled(Image(Replayed), k)
      BY Zenon DEF RunsUnsettledOnly
  <2>1. Execute
      BY Zenon DEF Next, Recover, RecoverAgain, Pull, AlreadySettled, CheckFails, NotSettled,
             RecordProgress, commitSettlement, Ack, Crash, Restart
  <2>2. k = msg.key
      BY Zenon, <2>1 DEF Execute, DurableInvariant, TypeOK
  <2>3. ~IsSettled(Stored, k)
      BY Zenon, <2>1, <2>2 DEF Execute, DurableInvariant, WorkerOK, CoordinatorOK
  <2>4. Replayed \in 0..Len(lines)
      BY Zenon, ReplayedStops DEF DurableInvariant, JournalOK
  <2> QED BY Zenon, <2>3, <2>4 DEF DurableInvariant, PromisesOK, JournalOK
<1> QED BY <1>1, DurableInductive, PTL DEF Spec, NoRepeatAfterSettled
=============================================================================
