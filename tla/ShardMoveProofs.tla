--------------------------- MODULE ShardMoveProofs ---------------------------
(***************************************************************************)
(* A shard migration (shard.go) loses no acknowledged write: the proof,    *)
(* for any range, batch sizes and number of coordinators and versions.  The *)
(* difficulty is that documents are copied while they are written, and     *)
(* that a call works with what it read before other calls and writes: the  *)
(* invariant says which keys the destination has (Covered), and what a     *)
(* backfill still owes for the keys it has read past.                      *)
(***************************************************************************)
EXTENDS ShardMove, FiniteSetTheorems, WellFoundedInduction, TLAPS

\* The types of the variables.
Ends == {"src", "dst"}
Version == 0..MaxVersion
Document == [key : RangeKeys, version : 1..MaxVersion]
Places == {"idle", "export", "import", "mark", "count_src", "count_dst", "set", "delete_src",
           "delete_dst"}
CallRecord ==
    [op : Operations \cup {"none"}, at : Places, mark : 0..Last, docs : SUBSET Document,
     next : 0..Last, done : BOOLEAN, count : Nat]
MoveType ==
    /\ kind \in {"sql", "mongo"}
    /\ state \in {"planned", "dual_write", "backfill", "verify", "cutover", "complete",
                  "rolled_back"}
    /\ checkpoint \in 0..Last
    /\ src \in [RangeKeys -> Version] /\ dst \in [RangeKeys -> Version]
    /\ acked \in [RangeKeys -> Version]
    /\ write \in [RangeKeys -> [version : Version, todo : SUBSET Ends, targets : SUBSET Ends]]
    /\ moving \in [Coordinators -> CallRecord]
    /\ undoing \in BOOLEAN

\* The destination has some version of the key if one was acknowledged.
Covered(k) == acked[k] > 0 => dst[k] > 0

\* A write holds a fresh version; what it has updated has that version, unless
\* the replacing import of MongoDB or a rollback came after it.
WriteOK(k) ==
    /\ write[k].todo \subseteq write[k].targets
    /\ write[k].targets # {} => write[k].version > acked[k]
    /\ write[k].targets = {} => write[k] = NoWrite
    /\ ~Moved =>
          /\ src[k] >= acked[k]
          /\ write[k].targets # {} => "src" \in write[k].targets
          /\ "src" \in write[k].targets \ write[k].todo => src[k] >= write[k].version
    /\ "dst" \in write[k].targets => state # "planned"
    /\ ~undoing =>
          /\ "dst" \in write[k].targets \ write[k].todo =>
                dst[k] > 0 /\ (kind = "sql" => dst[k] >= write[k].version)
          /\ write[k].targets = {"src"} => state \in {"planned", "dual_write"} /\ dst[k] = 0
          /\ state = "planned" => dst[k] = 0
          /\ kind = "sql" /\ dst[k] > 0 => dst[k] >= acked[k]
          /\ state = "backfill" /\ k <= checkpoint => Covered(k)
          /\ state = "verify" \/ Moved => Covered(k)

\* A document that a backfill holds is not older than what was acknowledged,
\* unless the destination has a version already.
DocumentOK(d) == kind = "sql" /\ dst[d.key] = 0 => d.version >= acked[d.key]

\* The keys a backfill has passed are covered, or it still holds their document.
BackfillOK(c) ==
    /\ ~undoing /\ state \notin {"planned", "dual_write"}
    /\ \A d \in moving[c].docs : DocumentOK(d)
    /\ \A k \in RangeKeys : k <= moving[c].mark => Covered(k)
    /\ moving[c].at \in {"export", "import", "mark"}
    /\ moving[c].at = "import" =>
          /\ moving[c].docs # {}
          /\ \A k \in RangeKeys : k <= moving[c].next \/ moving[c].done =>
                Covered(k) \/ \E d \in moving[c].docs : d.key = k
    /\ moving[c].at = "mark" =>
          \A k \in RangeKeys : k <= moving[c].next \/ moving[c].done => Covered(k)

\* What a call may rely on, by its operation.
CallOK(c) ==
    /\ moving[c].op = "backfill" => BackfillOK(c)
    /\ moving[c].op = "complete" => Moved
    /\ moving[c].op = "rollback" => undoing
    /\ undoing => moving[c].op \in {"none", "rollback"}
    /\ moving[c].op = "none" => moving[c] = NoCall

\* The inductive invariant.
MoveInvariant ==
    /\ MoveType
    /\ undoing => ~Moved
    /\ state = "rolled_back" => undoing
    /\ \A k \in RangeKeys : WriteOK(k)
    /\ \A c \in Coordinators : CallOK(c)

-----------------------------------------------------------------------------
\* A set of numbers that is not empty has a smallest element ...
LEMMA SmallestExists ==
    ASSUME NEW S \in SUBSET Nat, S # {}
    PROVE  \E j \in S : \A i \in S : j <= i
<1> DEFINE R == {p \in Nat \X Nat : p[1] < p[2]}
<1>1. IsWellFoundedOn(R, Nat)
    BY Zenon, NatLessThanWellFounded DEF OpToRel
<1>2. PICK x \in S : \A y \in S : ~(<<y, x>> \in R)
  <2> HIDE DEF R
  <2> QED BY <1>1, WFMin, Zenon
<1>3. ASSUME NEW y \in S PROVE x <= y
  <2>1. x \in Nat /\ y \in Nat /\ ~(<<y, x>> \in R)
      BY Zenon, <1>2
  <2>2. ~(y < x)
      BY Zenon, <2>1
  <2> QED BY <2>1, <2>2
<1> QED BY Zenon, <1>3

\* ... and, if it is bounded, a largest.
LEMMA LargestExists ==
    ASSUME NEW n \in Nat, NEW S \in SUBSET (0..n), S # {}
    PROVE  \E j \in S : \A i \in S : j >= i
<1> DEFINE T == {m \in Nat : n - m \in S}
<1>1. T \in SUBSET Nat /\ T # {}
  <2>1. PICK s \in S : s \in 0..n
      BY Zenon
  <2>2. n - s \in Nat /\ n - (n - s) = s
      BY <2>1
  <2> QED BY <2>1, <2>2, Zenon
<1>2. PICK x \in T : \A y \in T : x <= y
  <2> HIDE DEF T
  <2> QED BY Zenon, <1>1, SmallestExists
<1>3. ASSUME NEW i \in S PROVE n - x >= i
  <2>1. i \in 0..n /\ n - i \in Nat /\ n - (n - i) = i /\ x \in Nat
      OBVIOUS
  <2>2. x <= n - i
      BY <1>2, <2>1, Zenon
  <2> QED BY <2>1, <2>2
<1> QED BY Zenon, <1>2, <1>3

\* A set of keys is finite.
LEMMA KeysFinite ==
    ASSUME MoveParameters, NEW S \in SUBSET RangeKeys
    PROVE  IsFiniteSet(S) /\ Cardinality(S) \in Nat
<1>1. IsFiniteSet(RangeKeys)
    BY FS_Interval DEF MoveParameters, RangeKeys
<1> QED BY Zenon, <1>1, FS_Subset, FS_CardinalityType

\* ExportRange leaves out no key up to the last one it returns, and a page that is
\* not full leaves out none at all.
LEMMA PageComplete ==
    ASSUME MoveParameters, NEW mark, NEW limit \in Limits
    PROVE  LET page == Page(mark, limit) IN
           /\ page \subseteq After(mark) /\ page \subseteq RangeKeys
           /\ NextMark(page) \in 0..Last
           /\ \A k \in After(mark) : k <= NextMark(page) => k \in page
           /\ PageDone(page, limit) => After(mark) \subseteq page
<1> DEFINE page == Page(mark, limit)
           Below(k) == {j \in After(mark) : j < k}
<1>1. /\ After(mark) \subseteq RangeKeys /\ page \subseteq After(mark)
      /\ RangeKeys \subseteq Nat /\ RangeKeys \subseteq 0..Last
    BY DEF After, Held, Page, RangeKeys, MoveParameters
<1>2. \A k \in After(mark) : k \in page <=> Cardinality(Below(k)) < limit
    BY Zenon DEF Page
<1>3. \A k : IsFiniteSet(Below(k)) /\ Cardinality(Below(k)) \in Nat
    BY Zenon, <1>1, KeysFinite
<1>4. IsFiniteSet(page) /\ Cardinality(page) \in Nat
    BY Zenon, <1>1, KeysFinite
<1>5. page # {} => /\ NextMark(page) \in page
                   /\ \A k \in page : NextMark(page) >= k
  <2> SUFFICES ASSUME page # {} PROVE NextMark(page) \in page /\ \A k \in page : NextMark(page) >= k
      BY Zenon
  <2>1. \E j \in page : \A i \in page : j >= i
      BY <1>1, LargestExists, Zenon DEF MoveParameters
  <2> QED BY Zenon, <2>1 DEF NextMark, Max
<1> HIDE DEF page
<1>6. NextMark(page) \in 0..Last
  <2>1. CASE page = {}
      BY <2>1 DEF NextMark, MoveParameters
  <2>2. CASE page # {}
      BY <1>1, <1>5, <2>2, Zenon
  <2> QED BY Zenon, <2>1, <2>2
<1>7. ASSUME NEW k \in After(mark), k <= NextMark(page) PROVE k \in page
  <2>1. page # {}
      BY <1>1, <1>7 DEF NextMark, RangeKeys
  <2>2. NextMark(page) \in page /\ NextMark(page) \in Nat /\ k \in Nat
      BY <1>1, <1>5, <2>1, Zenon
  <2>3. ASSUME NEW j \in Below(k) PROVE j \in Below(NextMark(page))
    <3>1. j \in Nat /\ j < k /\ j \in After(mark)
        BY <1>1, Zenon
    <3> QED BY <1>7, <2>2, <3>1
  <2>4. Cardinality(Below(k)) <= Cardinality(Below(NextMark(page)))
    <3>1. Below(k) \subseteq Below(NextMark(page))
        BY Zenon, <2>3
    <3> HIDE DEF Below
    <3> QED BY Zenon, <1>3, <3>1, FS_Subset
  <2>5. Cardinality(Below(NextMark(page))) < limit
      BY Zenon, <1>1, <1>2, <2>2
  <2>6. Cardinality(Below(k)) < limit
    <3> HIDE DEF Below
    <3> QED BY <1>3, <2>4, <2>5 DEF MoveParameters
  <2> QED BY Zenon, <1>2, <2>6
<1>8. ASSUME PageDone(page, limit), ~(After(mark) \subseteq page) PROVE FALSE
  <2> DEFINE Left == After(mark) \ page
  <2>1. PICK k \in Left : \A i \in Left : k <= i
    <3>1. Left \in SUBSET Nat /\ Left # {}
        BY <1>1, <1>8, Zenon
    <3> HIDE DEF Left
    <3> QED BY Zenon, <3>1, SmallestExists
  <2>2. ASSUME NEW j \in Below(k) PROVE j \in page
    <3>1. j \in Nat /\ j < k /\ j \in After(mark) /\ k \in Nat
        BY <1>1, <2>1, Zenon
    <3> QED BY <2>1, <3>1
  <2>3. Cardinality(Below(k)) <= Cardinality(page)
    <3>1. Below(k) \subseteq page
        BY Zenon, <2>2
    <3> HIDE DEF Below, page
    <3> QED BY Zenon, <1>4, <3>1, FS_Subset
  <2>4. Cardinality(page) < limit
      BY Zenon, <1>8 DEF PageDone
  <2>5. Cardinality(Below(k)) < limit
    <3> HIDE DEF Below, page
    <3> QED BY <1>3, <1>4, <2>3, <2>4 DEF MoveParameters
  <2> QED BY Zenon, <1>2, <2>1, <2>5
<1> QED BY Zenon, <1>1, <1>6, <1>7, <1>8 DEF page

-----------------------------------------------------------------------------
\* A call that a step leaves alone stays correct if the step takes no coverage
\* back, makes no held document stale and undoes no progress of the migration.
LEMMA CallKept ==
    ASSUME MoveInvariant, NEW c \in Coordinators, moving'[c] = moving[c], undoing' = undoing,
           Moved => Moved',
           state \notin {"planned", "dual_write"} => state' \notin {"planned", "dual_write"},
           \A k \in RangeKeys : moving[c].op = "backfill" /\ Covered(k) => Covered(k)',
           \A d \in Document : moving[c].op = "backfill" /\ DocumentOK(d) => DocumentOK(d)'
    PROVE  CallOK(c)'
<1>1. CallOK(c) /\ moving[c].docs \subseteq Document
    BY Zenon DEF MoveInvariant, MoveType, CallRecord
<1>2. ASSUME moving[c].op = "backfill" PROVE BackfillOK(c)'
  <2>1. BackfillOK(c)
      BY Zenon, <1>1, <1>2 DEF CallOK
  <2>2. \A d \in moving[c].docs : DocumentOK(d)'
      BY Zenon, <1>1, <1>2, <2>1 DEF BackfillOK
  <2>3. \A k \in RangeKeys : Covered(k) => Covered(k)'
      BY Zenon, <1>2
  <2> QED BY Zenon, <2>1, <2>2, <2>3 DEF BackfillOK
<1> QED BY <1>1, <1>2 DEF CallOK

\* No call in progress is a call record.
LEMMA IdleRecord == MoveParameters => NoCall \in CallRecord
BY DEF NoCall, CallRecord, Places, MoveParameters

\* A planned migration: the destination is empty and nothing is written.
LEMMA MoveInitOK == ASSUME MoveParameters, MoveInit PROVE MoveInvariant
<1>1. MoveType
  <2>1. src \in [RangeKeys -> Version] /\ dst \in [RangeKeys -> Version] /\ acked \in [RangeKeys -> Version]
    <3>1. 0 \in Version /\ 1 \in Version
        BY DEF Version, MoveParameters
    <3> QED BY Zenon, <3>1 DEF MoveInit
  <2>2. NoWrite \in [version : Version, todo : SUBSET Ends, targets : SUBSET Ends]
      BY DEF NoWrite, Version, MoveParameters
  <2>3. NoCall \in CallRecord
      BY Zenon, IdleRecord
  <2>4. write \in [RangeKeys -> [version : Version, todo : SUBSET Ends, targets : SUBSET Ends]]
      BY Zenon, <2>2 DEF MoveInit
  <2>5. moving = [c \in Coordinators |-> NoCall]
      BY Zenon DEF MoveInit
  <2>6. kind \in {"sql", "mongo"} /\ state = "planned" /\ checkpoint = 0 /\ undoing = FALSE
      BY Zenon DEF MoveInit
  <2>7. 0 \in 0..Last
      BY DEF MoveParameters
  <2> QED BY <2>1, <2>3, <2>4, <2>5, <2>6, <2>7, Zenon DEF MoveType
<1>2. \A k \in RangeKeys : WriteOK(k)
    BY DEF MoveParameters, MoveInit, WriteOK, Covered, Moved, NoWrite
<1>3. \A c \in Coordinators : CallOK(c)
    BY Zenon DEF MoveInit, CallOK, NoCall
<1> QED BY Zenon, <1>1, <1>2, <1>3 DEF MoveInit, MoveInvariant, Moved

\* A write starts with a version above everything stored and with the targets of
\* the state of the migration.
LEMMA BeginWriteStep ==
    ASSUME MoveParameters, MoveInvariant, NEW k \in RangeKeys, BeginWrite(k)
    PROVE  MoveInvariant'
<1> DEFINE v == Max({src[k], dst[k], acked[k]}) + 1
<1>1. UNCHANGED <<kind, state, checkpoint, src, dst, acked, moving, undoing>> /\ MoveType
    BY Zenon DEF BeginWrite, row, MoveInvariant
<1>2. v \in Version /\ v > src[k] /\ v > dst[k] /\ v > acked[k]
  <2>1. src[k] \in Nat /\ dst[k] \in Nat /\ acked[k] \in Nat
      BY <1>1 DEF MoveType, Version, MoveParameters
  <2>2. \E x \in {src[k], dst[k], acked[k]} : \A y \in {src[k], dst[k], acked[k]} : x >= y
      BY <2>1
  <2>3. /\ Max({src[k], dst[k], acked[k]}) \in {src[k], dst[k], acked[k]}
        /\ \A y \in {src[k], dst[k], acked[k]} : Max({src[k], dst[k], acked[k]}) >= y
      BY Zenon, <2>2 DEF Max
  <2>4. v <= MaxVersion
      BY Zenon DEF BeginWrite
  <2> HIDE DEF v
  <2>5. v = Max({src[k], dst[k], acked[k]}) + 1
      BY Zenon DEF v
  <2> QED BY <2>1, <2>3, <2>4, <2>5 DEF Version, MoveParameters
<1> DEFINE w == [version |-> v, todo |-> TargetsForWrite, targets |-> TargetsForWrite]
<1>3. write' = [write EXCEPT ![k] = w]
    BY Zenon DEF BeginWrite
<1> HIDE DEF v
<1>4. /\ TargetsForWrite \subseteq Ends /\ TargetsForWrite # {}
      /\ ~Moved => "src" \in TargetsForWrite
      /\ "dst" \in TargetsForWrite => state # "planned"
      /\ TargetsForWrite = {"src"} => state \in {"planned", "rolled_back"}
  <2>1. CASE state \in {"planned", "rolled_back"}
      BY Zenon, <2>1 DEF TargetsForWrite, Ends, Moved
  <2>2. CASE state \in {"dual_write", "backfill", "verify"}
      BY <2>2 DEF TargetsForWrite, Ends, Moved
  <2>3. CASE state \in {"cutover", "complete"}
      BY Zenon, <2>3 DEF TargetsForWrite, Ends, Moved
  <2> QED BY Zenon, <1>1, <2>1, <2>2, <2>3 DEF MoveType
<1>5. w \in [version : Version, todo : SUBSET Ends, targets : SUBSET Ends]
    BY Zenon, <1>2, <1>4
<1>6. MoveType'
    BY Zenon, <1>1, <1>3, <1>5 DEF MoveType
<1>7. ASSUME NEW j \in RangeKeys PROVE WriteOK(j)'
  <2>1. WriteOK(j)
      BY Zenon DEF MoveInvariant
  <2>2. CASE j # k
      BY Zenon, <1>1, <1>3, <2>1, <2>2 DEF WriteOK, Covered, Moved, MoveType
  <2>3. CASE j = k
    <3>1. write'[k] = w
        BY Zenon, <1>1, <1>3 DEF MoveType
    <3>2. state = "rolled_back" => undoing
        BY Zenon DEF MoveInvariant
    <3> QED BY <1>1, <1>2, <1>4, <2>1, <2>3, <3>1, <3>2 DEF WriteOK, Covered, Moved
  <2> QED BY Zenon, <2>2, <2>3
<1>8. \A c \in Coordinators : CallOK(c)'
    BY Zenon, <1>1, CallKept DEF Moved, Covered, DocumentOK
<1> QED BY Zenon, <1>1, <1>6, <1>7, <1>8 DEF MoveInvariant, Moved

\* A write updates one of its targets.
LEMMA WriteToStep ==
    ASSUME MoveParameters, MoveInvariant, NEW k \in RangeKeys, NEW t \in Ends, WriteTo(k, t)
    PROVE  MoveInvariant'
<1>1. UNCHANGED <<kind, state, checkpoint, acked, moving, undoing>> /\ MoveType /\ WriteOK(k)
    BY Zenon DEF WriteTo, row, MoveInvariant
<1>2. /\ t \in write[k].todo /\ t \in write[k].targets
      /\ write[k].version \in 1..MaxVersion /\ write[k].version > acked[k]
    BY <1>1 DEF WriteTo, WriteOK, MoveType, Version, MoveParameters
<1>3. /\ src' = IF t = "src" THEN [src EXCEPT ![k] = write[k].version] ELSE src
      /\ dst' = IF t = "dst" THEN [dst EXCEPT ![k] = write[k].version] ELSE dst
      /\ write' = [write EXCEPT ![k] = [write[k] EXCEPT !.todo = write[k].todo \ {t}]]
    BY Zenon, <1>1 DEF WriteTo, MoveType
<1>4. MoveType'
    BY Zenon, <1>1, <1>2, <1>3 DEF MoveType, Version, MoveParameters
<1>5. /\ write'[k].version = write[k].version /\ write'[k].targets = write[k].targets
      /\ write'[k].todo = write[k].todo \ {t}
    BY Zenon, <1>1, <1>3 DEF MoveType
<1>6. ASSUME NEW j \in RangeKeys PROVE WriteOK(j)'
  <2>1. WriteOK(j)
      BY Zenon DEF MoveInvariant
  <2>2. CASE j # k
    <3>1. src'[j] = src[j] /\ dst'[j] = dst[j] /\ write'[j] = write[j]
        BY Zenon, <1>1, <1>3, <2>2 DEF MoveType
    <3> QED BY Zenon, <1>1, <2>1, <3>1 DEF WriteOK, Covered, Moved
  <2>3. CASE j = k /\ t = "src"
    <3>1. src'[k] = write[k].version /\ dst' = dst
        BY Zenon, <1>1, <1>3, <2>3 DEF MoveType
    <3>2. write[k].version >= acked[k] /\ write[k].version >= write[k].version
        BY <1>1, <1>2 DEF MoveType, Version, MoveParameters
    <3> QED BY Zenon, <1>1, <1>2, <1>5, <2>1, <2>3, <3>1, <3>2 DEF WriteOK, Covered, Moved
  <2>4. CASE j = k /\ t = "dst"
    <3>1. dst'[k] = write[k].version /\ src' = src
        BY Zenon, <1>1, <1>3, <2>4 DEF MoveType
    <3>2. write[k].version >= acked[k] /\ write[k].version >= write[k].version /\ write[k].version > 0
        BY <1>1, <1>2 DEF MoveType, Version, MoveParameters
    <3> QED BY Zenon, <1>1, <1>2, <1>5, <2>1, <2>4, <3>1, <3>2 DEF WriteOK, Covered, Moved
  <2> QED BY Zenon, <2>2, <2>3, <2>4 DEF Ends
<1>7. \A j \in RangeKeys : dst'[j] = dst[j] \/ dst'[j] > 0
    BY <1>1, <1>2, <1>3 DEF MoveType, MoveParameters
<1>8. \A c \in Coordinators : CallOK(c)'
  <2>1. \A j \in RangeKeys : Covered(j) => Covered(j)'
      BY Zenon, <1>1, <1>7 DEF Covered
  <2>2. \A d \in Document : DocumentOK(d) => DocumentOK(d)'
      BY <1>1, <1>4, <1>7 DEF DocumentOK, Document
  <2> QED BY Zenon, <1>1, <2>1, <2>2, CallKept DEF Moved
<1> QED BY Zenon, <1>1, <1>4, <1>6, <1>8 DEF MoveInvariant, Moved

\* A write that is acknowledged is in all its targets; one to the source only
\* ends before any backfill begins.
LEMMA AcknowledgeStep ==
    ASSUME MoveParameters, MoveInvariant, NEW k \in RangeKeys, Acknowledge(k)
    PROVE  MoveInvariant'
<1>1. UNCHANGED <<kind, state, checkpoint, src, dst, moving, undoing>> /\ MoveType /\ WriteOK(k)
    BY Zenon DEF Acknowledge, row, MoveInvariant
<1>2. /\ write[k].targets # {} /\ write[k].todo = {} /\ write[k].version \in 1..MaxVersion
      /\ write[k].targets \subseteq Ends
    BY <1>1 DEF Acknowledge, WriteOK, MoveType, Version, MoveParameters
<1>3. /\ acked' = [acked EXCEPT ![k] = write[k].version]
      /\ write' = [write EXCEPT ![k] = NoWrite]
    BY Zenon DEF Acknowledge
<1>4. MoveType'
  <2>1. NoWrite \in [version : Version, todo : SUBSET Ends, targets : SUBSET Ends]
      BY DEF NoWrite, Version, MoveParameters
  <2> QED BY Zenon, <1>1, <1>2, <1>3, <2>1 DEF MoveType, Version
<1>5. ~undoing => \/ dst[k] > 0 /\ (kind = "sql" => dst[k] >= write[k].version)
                  \/ state \in {"planned", "dual_write"} /\ dst[k] = 0
    BY Zenon, <1>1, <1>2 DEF WriteOK, Ends
<1>6. ~Moved => src[k] >= write[k].version
    BY Zenon, <1>1, <1>2 DEF WriteOK
<1>7. ASSUME NEW j \in RangeKeys PROVE WriteOK(j)'
  <2>1. WriteOK(j)
      BY Zenon DEF MoveInvariant
  <2>2. CASE j # k
    <3>1. acked'[j] = acked[j] /\ write'[j] = write[j]
        BY Zenon, <1>1, <1>3, <2>2 DEF MoveType
    <3> QED BY Zenon, <1>1, <2>1, <3>1 DEF WriteOK, Covered, Moved
  <2>3. CASE j = k
    <3>1. acked'[k] = write[k].version /\ write'[k] = NoWrite
        BY Zenon, <1>1, <1>3 DEF MoveType
    <3>2. dst[k] \in Nat
        BY <1>1 DEF MoveType, Version, MoveParameters
    <3> QED BY <1>1, <1>5, <1>6, <2>1, <2>3, <3>1, <3>2 DEF WriteOK, Covered, Moved, NoWrite
  <2> QED BY Zenon, <2>2, <2>3
<1>8. ASSUME NEW c \in Coordinators PROVE CallOK(c)'
  <2>1. moving[c].op = "backfill" => dst[k] > 0
      BY Zenon, <1>5 DEF MoveInvariant, CallOK, BackfillOK
  <2>2. ASSUME NEW j \in RangeKeys, moving[c].op = "backfill", Covered(j) PROVE Covered(j)'
      BY Zenon, <1>1, <1>3, <2>1, <2>2 DEF Covered, MoveType
  <2>3. ASSUME NEW d \in Document, moving[c].op = "backfill", DocumentOK(d) PROVE DocumentOK(d)'
      BY <1>1, <1>3, <2>1, <2>3 DEF DocumentOK, MoveType, Document
  <2> QED BY Zenon, <1>1, <2>2, <2>3, CallKept DEF Moved
<1> QED BY Zenon, <1>1, <1>4, <1>7, <1>8 DEF MoveInvariant, Moved

\* A write that ends early leaves its versions where they are.
LEMMA WriteFailsStep ==
    ASSUME MoveParameters, MoveInvariant, NEW k \in RangeKeys, WriteFails(k)
    PROVE  MoveInvariant'
<1>1. /\ UNCHANGED <<kind, state, checkpoint, src, dst, acked, moving, undoing>> /\ MoveType
      /\ write' = [write EXCEPT ![k] = NoWrite]
    BY Zenon DEF WriteFails, row, MoveInvariant
<1>2. MoveType'
  <2>1. NoWrite \in [version : Version, todo : SUBSET Ends, targets : SUBSET Ends]
      BY DEF NoWrite, Version, MoveParameters
  <2> QED BY Zenon, <1>1, <2>1 DEF MoveType
<1>3. ASSUME NEW j \in RangeKeys PROVE WriteOK(j)'
  <2>1. WriteOK(j) /\ (write'[j] = write[j] \/ write'[j] = NoWrite)
      BY Zenon, <1>1 DEF MoveInvariant, MoveType
  <2> QED BY <1>1, <2>1 DEF WriteOK, Covered, Moved, NoWrite
<1>4. \A c \in Coordinators : CallOK(c)'
    BY Zenon, <1>1, CallKept DEF Moved, Covered, DocumentOK
<1> QED BY Zenon, <1>1, <1>2, <1>3, <1>4 DEF MoveInvariant, Moved

\* The first two transitions of the row: the backfill begins when no write to the
\* source only is under way.
LEMMA OpeningStep ==
    ASSUME MoveParameters, MoveInvariant, EnableDualWrite \/ BeginBackfill
    PROVE  MoveInvariant'
<1>1. /\ UNCHANGED <<kind, src, dst, acked, write, moving, undoing>> /\ MoveType /\ ~undoing
      /\ state \in {"planned", "dual_write"} /\ ~Moved /\ ~Moved'
      /\ state' \in {"dual_write", "backfill"} /\ checkpoint' = 0
      /\ state' = "backfill" => \A k \in RangeKeys : write[k].targets # {"src"}
    BY Zenon DEF EnableDualWrite, BeginBackfill, setState, writers, MoveInvariant, MoveParameters, Moved
<1>2. MoveType'
    BY <1>1 DEF MoveType, MoveParameters
<1>3. ASSUME NEW k \in RangeKeys PROVE WriteOK(k)'
  <2>1. WriteOK(k) /\ ~(k <= 0)
      BY DEF MoveInvariant, RangeKeys
  <2> QED BY Zenon, <1>1, <2>1 DEF WriteOK, Covered, Moved
<1>4. \A c \in Coordinators : CallOK(c)'
  <2>1. \A c \in Coordinators : moving[c].op # "backfill"
      BY Zenon, <1>1 DEF MoveInvariant, CallOK, BackfillOK
  <2> QED BY Zenon, <1>1, <2>1 DEF MoveInvariant, CallOK
<1> QED BY Zenon, <1>1, <1>2, <1>3, <1>4 DEF MoveInvariant

\* The effect of a step that only touches one call.
LEMMA OneCall ==
    ASSUME MoveInvariant, NEW c \in Coordinators, MoveType', CallOK(c)',
           UNCHANGED <<kind, state, checkpoint, src, dst, acked, write, undoing>>,
           \A b \in Coordinators \ {c} : moving'[b] = moving[b]
    PROVE  MoveInvariant'
<1>1. \A k \in RangeKeys : WriteOK(k)'
    BY Zenon DEF MoveInvariant, WriteOK, Covered, Moved
<1>2. \A b \in Coordinators \ {c} : CallOK(b)'
    BY Zenon, CallKept DEF Moved, Covered, DocumentOK
<1> QED BY Zenon, <1>1, <1>2 DEF MoveInvariant, Moved

\* A call begins in the state it needs; a rollback begins alone and is the last.
LEMMA BeginStep ==
    ASSUME MoveParameters, MoveInvariant, NEW c \in Coordinators, NEW op \in Operations, Begin(c, op)
    PROVE  MoveInvariant'
<1> DEFINE new == [NoCall EXCEPT !.op = op, !.at = First[op], !.mark = checkpoint]
<1>1. /\ UNCHANGED <<kind, state, checkpoint, src, dst, acked, write>> /\ MoveType
      /\ moving' = [moving EXCEPT ![c] = new] /\ undoing' = (undoing \/ op = "rollback")
      /\ op = "rollback" => \A d \in Coordinators : moving[d] = NoCall
      /\ op # "rollback" => ~undoing
      /\ Ready(op)
    BY Zenon DEF Begin, row, writers, MoveInvariant, MoveParameters
<1>2. /\ new.op = op /\ new.at = First[op] /\ new.mark = checkpoint /\ new.docs = {}
      /\ new.next = 0 /\ new.done = FALSE /\ new.count = 0
    BY Zenon DEF NoCall
<1>3. First[op] \in {"export", "count_src", "delete_src", "delete_dst"}
      /\ (op = "backfill" => First[op] = "export")
    BY DEF First, Operations
<1>4. /\ op = "backfill" => state = "backfill"
      /\ op = "complete" => state = "cutover"
      /\ op = "verify" => state = "verify"
      /\ op = "rollback" => ~Moved
    BY <1>1, Zenon DEF Ready, Operations, Moved
<1> HIDE DEF new
<1>5. MoveType'
  <2>1. new \in CallRecord
    <3>1. NoCall \in CallRecord /\ First[op] \in Places /\ checkpoint \in 0..Last
        BY Zenon, <1>1, <1>3, IdleRecord DEF MoveType, Places
    <3> QED BY <3>1, Zenon DEF new, CallRecord
  <2>2. undoing' \in BOOLEAN
      BY Zenon, <1>1
  <2> QED BY Zenon, <1>1, <2>1, <2>2 DEF MoveType
<1>6. moving'[c] = new /\ \A b \in Coordinators \ {c} : moving'[b] = moving[b]
    BY Zenon, <1>1 DEF MoveType
<1>7. CASE op # "rollback"
  <2>1. undoing' = undoing /\ ~undoing
      BY Zenon, <1>1, <1>7 DEF MoveType
  <2>2. CallOK(c)'
    <3>1. op = "backfill" => BackfillOK(c)'
      <4> SUFFICES ASSUME op = "backfill" PROVE BackfillOK(c)'
          BY Zenon
      <4>1. \A k \in RangeKeys : k <= checkpoint => Covered(k)'
          BY Zenon, <1>1, <1>4, <2>1 DEF MoveInvariant, WriteOK, Covered
      <4> QED BY Zenon, <1>1, <1>2, <1>3, <1>4, <1>6, <2>1, <4>1 DEF BackfillOK
    <3> QED BY Zenon, <1>1, <1>2, <1>4, <1>6, <1>7, <2>1, <3>1 DEF CallOK, Moved, Operations
  <2> QED BY Zenon, <1>1, <1>5, <1>6, <2>1, <2>2, OneCall
<1>8. CASE op = "rollback"
  <2>1. undoing' = TRUE
      BY <1>1, <1>8, Zenon
  <2>2. \A b \in Coordinators : CallOK(b)'
      BY <1>1, <1>2, <1>6, <1>8, <2>1 DEF CallOK, NoCall
  <2>3. \A k \in RangeKeys : WriteOK(k)'
      BY Zenon, <1>1, <2>1 DEF MoveInvariant, WriteOK, Moved
  <2> QED BY Zenon, <1>1, <1>4, <1>5, <1>8, <2>1, <2>2, <2>3 DEF MoveInvariant, Moved
<1> QED BY Zenon, <1>7, <1>8

\* A call that ends has no claims left.
LEMMA Ended ==
    ASSUME MoveParameters, MoveType, NEW c \in Coordinators, Return(c)
    PROVE  /\ moving' \in [Coordinators -> CallRecord] /\ CallOK(c)'
           /\ \A b \in Coordinators \ {c} : moving'[b] = moving[b]
<1>1. moving' = [moving EXCEPT ![c] = NoCall] /\ moving \in [Coordinators -> CallRecord]
    BY Zenon DEF Return, MoveType
<1>2. moving'[c] = NoCall
    BY Zenon, <1>1
<1> QED BY Zenon, <1>1, <1>2, IdleRecord DEF CallOK, NoCall

\* A page is what the source holds: the keys it passes over are covered, or their
\* document is on the page.
LEMMA ExportStep ==
    ASSUME MoveParameters, MoveInvariant, NEW c \in Coordinators, NEW limit \in Limits, Export(c, limit)
    PROVE  MoveInvariant'
<1> DEFINE page == Page(moving[c].mark, limit)
           docs == {[key |-> k, version |-> src[k]] : k \in page}
           place == IF page = {} THEN "mark" ELSE "import"
           new == [moving[c] EXCEPT !.docs = docs, !.next = NextMark(page), !.done = PageDone(page, limit),
                                  !.at = place]
<1>1. /\ UNCHANGED <<kind, state, checkpoint, src, dst, acked, write, undoing>> /\ MoveType
      /\ moving' = [moving EXCEPT ![c] = new] /\ moving[c] \in CallRecord
      /\ moving[c].op = "backfill" /\ BackfillOK(c)
    BY Zenon DEF Export, InStep, row, writers, MoveInvariant, MoveType, CallOK
<1>2. /\ page \subseteq After(moving[c].mark) /\ page \subseteq RangeKeys
      /\ NextMark(page) \in 0..Last
      /\ \A k \in After(moving[c].mark) : k <= NextMark(page) => k \in page
      /\ PageDone(page, limit) => After(moving[c].mark) \subseteq page
    BY Zenon, PageComplete
<1>3. docs \subseteq Document
  <2>1. \A k \in page : src[k] \in 1..MaxVersion
      BY <1>1, <1>2 DEF After, Held, MoveType, Version, MoveParameters
  <2> QED BY <1>2, <2>1 DEF Document
<1>4. PageDone(page, limit) \in BOOLEAN /\ place \in Places
    BY DEF PageDone, Places
<1> HIDE DEF page, docs, place
<1>5. new \in CallRecord
    BY <1>1, <1>2, <1>3, <1>4, Zenon DEF CallRecord
<1>6. /\ new.op = "backfill" /\ new.mark = moving[c].mark /\ new.docs = docs
      /\ new.next = NextMark(page) /\ new.done = PageDone(page, limit) /\ new.at = place
    BY Zenon, <1>1 DEF CallRecord
<1> HIDE DEF new
<1>7. /\ MoveType' /\ moving'[c] = new /\ \A b \in Coordinators \ {c} : moving'[b] = moving[b]
    BY Zenon, <1>1, <1>5 DEF MoveType
<1>8. \A k \in RangeKeys : Covered(k)' <=> Covered(k)
    BY Zenon, <1>1 DEF Covered
<1>9. ASSUME NEW k \in RangeKeys, k <= NextMark(page) \/ PageDone(page, limit)
      PROVE  Covered(k) \/ k \in page
  <2>1. CASE k <= moving[c].mark
      BY Zenon, <1>1, <2>1 DEF BackfillOK
  <2>2. CASE k \in After(moving[c].mark)
      BY Zenon, <1>2, <1>9, <2>2
  <2>3. CASE k > moving[c].mark /\ k \notin After(moving[c].mark)
    <3>1. src[k] = 0
        BY <1>1, <2>3 DEF After, Held, MoveType, Version, MoveParameters
    <3>2. CASE Moved
        BY Zenon, <1>1, <3>2 DEF MoveInvariant, WriteOK, BackfillOK
    <3>3. CASE ~Moved
      <4>1. src[k] >= acked[k] /\ acked[k] \in Nat
          BY <1>1, <3>3 DEF MoveInvariant, WriteOK, MoveType, Version, MoveParameters
      <4> QED BY <3>1, <4>1 DEF Covered
    <3> QED BY Zenon, <3>2, <3>3
  <2>4. k \in Nat /\ moving[c].mark \in Nat
      BY <1>1 DEF RangeKeys, CallRecord, MoveParameters
  <2> QED BY <2>1, <2>2, <2>3, <2>4
<1>10. ASSUME NEW d \in docs PROVE DocumentOK(d)'
  <2>1. PICK k \in page : d = [key |-> k, version |-> src[k]]
      BY Zenon DEF docs
  <2>2. k \in RangeKeys /\ src[k] \in Nat /\ acked[k] \in Nat /\ dst[k] \in Nat
      BY <1>1, <1>2 DEF MoveType, Version, MoveParameters
  <2>3. CASE Moved
    <3>1. Covered(k)
        BY Zenon, <1>1, <2>2, <2>3 DEF MoveInvariant, WriteOK, BackfillOK
    <3> QED BY <1>1, <2>1, <2>2, <3>1 DEF Covered, DocumentOK
  <2>4. CASE ~Moved
      BY Zenon, <1>1, <2>1, <2>2, <2>4 DEF MoveInvariant, WriteOK, DocumentOK
  <2> QED BY Zenon, <2>3, <2>4
<1>11. BackfillOK(c)'
  <2>1. ASSUME NEW k \in RangeKeys, k <= NextMark(page) \/ PageDone(page, limit)
        PROVE  Covered(k)' \/ (k \in page /\ \E d \in docs : d.key = k)
    <3>1. k \in page => [key |-> k, version |-> src[k]] \in docs
        BY Zenon DEF docs
    <3> QED BY Zenon, <1>8, <1>9, <2>1, <3>1
  <2>2. page = {} => docs = {} /\ place = "mark"
      BY Zenon DEF docs, place
  <2>3. page # {} => docs # {} /\ place = "import"
      BY Zenon DEF docs, place
  <2>4. \A k \in RangeKeys : k <= moving[c].mark => Covered(k)'
      BY Zenon, <1>1, <1>8 DEF BackfillOK
  <2> QED BY <1>1, <1>6, <1>7, <1>10, <2>1, <2>2, <2>3, <2>4 DEF BackfillOK
<1>12. CallOK(c)'
    BY Zenon, <1>1, <1>6, <1>7, <1>11 DEF CallOK, BackfillOK
<1> QED BY Zenon, <1>1, <1>7, <1>12, OneCall

\* An import puts documents of its call into the destination, over what is there
\* only with MongoDB.
LEMMA ImportFrame ==
    ASSUME MoveParameters, MoveInvariant, NEW c \in Coordinators, moving[c].op = "backfill",
           UNCHANGED <<kind, state, checkpoint, src, acked, write, undoing>>,
           dst' \in [RangeKeys -> Version],
           \A k \in RangeKeys :
              \/ dst'[k] = dst[k]
              \/ \E d \in moving[c].docs : /\ d.key = k /\ dst'[k] = d.version
                                           /\ kind = "sql" => dst[k] = 0
    PROVE  /\ \A k \in RangeKeys : WriteOK(k)' /\ (Covered(k) => Covered(k)')
           /\ \A d \in Document : DocumentOK(d) => DocumentOK(d)'
<1>1. BackfillOK(c) /\ moving[c].docs \subseteq Document /\ MoveType
    BY Zenon DEF MoveInvariant, CallOK, MoveType, CallRecord
<1>2. ASSUME NEW k \in RangeKeys PROVE dst'[k] = dst[k] \/ dst'[k] > 0
  <2>1. \A d \in Document : d.version > 0
      BY DEF Document, MoveParameters
  <2> QED BY Zenon, <1>1, <2>1
<1>3. ASSUME NEW k \in RangeKeys PROVE WriteOK(k)'
  <2>1. WriteOK(k)
      BY Zenon DEF MoveInvariant
  <2>2. CASE dst'[k] = dst[k]
      BY Zenon, <2>1, <2>2 DEF WriteOK, Covered, Moved
  <2>3. CASE dst'[k] # dst[k]
    <3>1. PICK d \in moving[c].docs : /\ d.key = k /\ dst'[k] = d.version
                                      /\ kind = "sql" => dst[k] = 0
        BY Zenon, <2>3
    <3>2. /\ DocumentOK(d) /\ ~undoing /\ state \notin {"planned", "dual_write"}
          /\ dst'[k] > 0
        BY Zenon, <1>1, <1>2, <2>3 DEF BackfillOK
    <3>3. kind = "sql" => dst'[k] >= acked[k]
        BY Zenon, <3>1, <3>2 DEF DocumentOK
    <3>4. kind = "sql" => dst[k] = 0 /\ ~(dst[k] > 0)
        BY <3>1
    <3> QED BY Zenon, <2>1, <3>2, <3>3, <3>4 DEF WriteOK, Covered, Moved
  <2> QED BY Zenon, <2>2, <2>3
<1>4. \A k \in RangeKeys : Covered(k) => Covered(k)'
    BY Zenon, <1>2 DEF Covered
<1>5. \A d \in Document : DocumentOK(d) => DocumentOK(d)'
    BY Zenon, <1>2 DEF DocumentOK, Document
<1> QED BY Zenon, <1>3, <1>4, <1>5

\* The import covers the keys of the documents it holds: SQL inserts where the
\* destination has nothing, MongoDB replaces what is there.
LEMMA ImportStep ==
    ASSUME MoveParameters, MoveInvariant, NEW c \in Coordinators, ImportSQL(c) \/ ImportMongo(c)
    PROVE  MoveInvariant'
<1>1. /\ UNCHANGED <<kind, state, checkpoint, src, acked, write, undoing>> /\ MoveType
      /\ moving[c].op = "backfill" /\ moving[c].at = "import" /\ BackfillOK(c)
      /\ moving[c] \in CallRecord /\ moving[c].docs \subseteq Document /\ moving[c].docs # {}
    BY Zenon DEF ImportSQL, ImportMongo, InStep, row, writers, MoveInvariant, CallOK, MoveType, CallRecord,
           BackfillOK
<1>2. \A d \in Document : d.key \in RangeKeys /\ d.version \in Version /\ d.version > 0
    BY DEF Document, Version, MoveParameters
<1>3. PICK gone \in SUBSET Document, rest \in SUBSET Document, place \in Places :
        /\ \A k \in RangeKeys :
              \/ dst'[k] = dst[k]
              \/ \E d \in moving[c].docs : /\ d.key = k /\ dst'[k] = d.version
                                           /\ kind = "sql" => dst[k] = 0
        /\ dst' \in [RangeKeys -> Version]
        /\ \A d \in gone : dst'[d.key] > 0
        /\ place = "mark" \/ (place = "import" /\ moving[c].docs \ gone # {})
        /\ place = "mark" => moving[c].docs \subseteq gone
        /\ moving' = [moving EXCEPT ![c] = [moving[c] EXCEPT !.at = place, !.docs = rest]]
        /\ rest = moving[c].docs \/ rest = moving[c].docs \ gone
  <2>1. CASE ImportSQL(c)
    <3>1. /\ kind = "sql"
          /\ dst' = [k \in RangeKeys |->
               IF \E d \in moving[c].docs : d.key = k
               THEN Insert(CHOOSE d \in moving[c].docs : d.key = k) ELSE dst[k]]
          /\ moving' = [moving EXCEPT ![c].at = "mark"]
        BY Zenon, <2>1 DEF ImportSQL, Continue
    <3>2. ASSUME NEW k \in RangeKeys
          PROVE  /\ \/ dst'[k] = dst[k]
                    \/ \E d \in moving[c].docs : d.key = k /\ dst'[k] = d.version /\ dst[k] = 0
                 /\ dst'[k] \in Version
                 /\ (\E d \in moving[c].docs : d.key = k) => dst'[k] > 0
      <4>1. dst[k] \in Version /\ (dst[k] = 0 \/ dst[k] > 0)
          BY <1>1 DEF MoveType, Version, MoveParameters
      <4>2. CASE \E d \in moving[c].docs : d.key = k
        <5>1. PICK d \in moving[c].docs : d.key = k /\ dst'[k] = Insert(d)
            BY Zenon, <3>1, <4>2
        <5> QED BY Zenon, <1>1, <1>2, <4>1, <5>1 DEF Insert
      <4>3. CASE ~\E d \in moving[c].docs : d.key = k
          BY Zenon, <3>1, <4>1, <4>3
      <4> QED BY Zenon, <4>2, <4>3
    <3>3. dst' \in [RangeKeys -> Version]
        BY Zenon, <3>1, <3>2
    <3>4. \A d \in moving[c].docs : dst'[d.key] > 0
        BY Zenon, <1>1, <1>2, <3>2
    <3>5. moving' = [moving EXCEPT ![c] = [moving[c] EXCEPT !.at = "mark", !.docs = moving[c].docs]]
        BY <1>1, <3>1, Zenon DEF MoveType, CallRecord
    <3> "mark" \in Places /\ moving[c].docs \in SUBSET Document
        BY Zenon, <1>1 DEF Places
    <3>7. \A k \in RangeKeys :
              \/ dst'[k] = dst[k]
              \/ \E d \in moving[c].docs : /\ d.key = k /\ dst'[k] = d.version
                                           /\ kind = "sql" => dst[k] = 0
        BY Zenon, <3>2
    <3> WITNESS moving[c].docs \in SUBSET Document, moving[c].docs \in SUBSET Document, "mark" \in Places
    <3> QED BY Zenon, <3>3, <3>4, <3>5, <3>7
  <2>2. CASE ImportMongo(c)
    <3> DEFINE d == CHOOSE d \in moving[c].docs : \A e \in moving[c].docs : d.key <= e.key
               place == IF moving[c].docs = {d} THEN "mark" ELSE "import"
    <3>1. /\ kind = "mongo"
          /\ dst' = [dst EXCEPT ![d.key] = d.version]
          /\ moving' = [moving EXCEPT ![c] = [moving[c] EXCEPT !.docs = moving[c].docs \ {d}, !.at = place]]
      <4>1. kind = "mongo"
          BY Zenon, <2>2 DEF ImportMongo
      <4>2. dst' = [dst EXCEPT ![d.key] = d.version]
          BY Zenon, <2>2 DEF ImportMongo
      <4>3. moving' = [moving EXCEPT ![c] = [moving[c] EXCEPT !.docs = moving[c].docs \ {d}, !.at = place]]
          BY Zenon, <2>2 DEF ImportMongo
      <4> QED BY Zenon, <4>1, <4>2, <4>3
    <3>2. d \in moving[c].docs
      <4> DEFINE S == {e.key : e \in moving[c].docs}
      <4>1. S \in SUBSET Nat /\ S # {}
          BY <1>1, <1>2 DEF RangeKeys
      <4>2. \E j \in S : \A i \in S : j <= i
        <5> HIDE DEF S
        <5> QED BY Zenon, <4>1, SmallestExists
      <4>3. \E x \in moving[c].docs : \A e \in moving[c].docs : x.key <= e.key
          BY Zenon, <4>2
      <4> QED BY Zenon, <4>3
    <3> HIDE DEF d
    <3>3. d \in Document /\ d.key \in RangeKeys /\ d.version \in Version /\ d.version > 0
        BY Zenon, <1>1, <1>2, <3>2
    <3>4. /\ dst' \in [RangeKeys -> Version] /\ dst'[d.key] = d.version
          /\ \A k \in RangeKeys : k # d.key => dst'[k] = dst[k]
        BY Zenon, <1>1, <3>1, <3>3 DEF MoveType
    <3>5. moving' = [moving EXCEPT ![c] = [moving[c] EXCEPT !.at = place, !.docs = moving[c].docs \ {d}]]
        BY <1>1, <3>1, Zenon DEF MoveType, CallRecord
    <3>6. /\ place \in Places
          /\ place = "mark" \/ (place = "import" /\ moving[c].docs \ {d} # {})
          /\ place = "mark" => moving[c].docs \subseteq {d}
        BY Zenon, <3>2 DEF Places
    <3>7. \A k \in RangeKeys :
              \/ dst'[k] = dst[k]
              \/ \E e \in moving[c].docs : /\ e.key = k /\ dst'[k] = e.version
                                           /\ kind = "sql" => dst[k] = 0
        BY Zenon, <3>1, <3>2, <3>4
    <3> {d} \in SUBSET Document /\ moving[c].docs \ {d} \in SUBSET Document /\ place \in Places
        BY Zenon, <1>1, <3>3, <3>6
    <3> HIDE DEF place
    <3> WITNESS {d} \in SUBSET Document, moving[c].docs \ {d} \in SUBSET Document, place \in Places
    <3> QED BY Zenon, <3>3, <3>4, <3>5, <3>6, <3>7
  <2> QED BY <2>1, <2>2, Zenon DEF ImportSQL, ImportMongo
<1>4. /\ \A k \in RangeKeys : WriteOK(k)' /\ (Covered(k) => Covered(k)')
      /\ \A d \in Document : DocumentOK(d) => DocumentOK(d)'
    BY Zenon, <1>1, <1>3, ImportFrame
<1>5. /\ moving'[c] \in CallRecord /\ moving'[c].op = "backfill" /\ moving'[c].at = place
      /\ moving'[c].docs = rest
      /\ moving'[c].mark = moving[c].mark /\ moving'[c].next = moving[c].next /\ moving'[c].done = moving[c].done
      /\ \A b \in Coordinators \ {c} : moving'[b] = moving[b]
      /\ moving' \in [Coordinators -> CallRecord]
    BY <1>1, <1>3, Zenon DEF MoveType, CallRecord
<1>6. MoveType'
    BY Zenon, <1>1, <1>3, <1>5 DEF MoveType
<1>7. \A d \in gone : d \in Document /\ Covered(d.key)'
    BY Zenon, <1>2, <1>3 DEF Covered
<1>8. BackfillOK(c)'
  <2>1. \A k \in RangeKeys : k <= moving[c].next \/ moving[c].done =>
            Covered(k)' \/ \E d \in moving[c].docs \ gone : d.key = k
      BY Zenon, <1>1, <1>4, <1>7 DEF BackfillOK
  <2>2. \A d \in rest : DocumentOK(d)'
      BY Zenon, <1>1, <1>3, <1>4 DEF BackfillOK
  <2>3. \A k \in RangeKeys : k <= moving[c].mark => Covered(k)'
      BY Zenon, <1>1, <1>4 DEF BackfillOK
  <2>4. place = "mark" => moving[c].docs \ gone = {}
      BY Zenon, <1>3
  <2>5. moving[c].docs \ gone \subseteq rest
      BY Zenon, <1>3
  <2> QED BY <1>1, <1>3, <1>5, <2>1, <2>2, <2>3, <2>4, <2>5 DEF BackfillOK
<1>9. CallOK(c)'
    BY Zenon, <1>1, <1>5, <1>8 DEF CallOK, BackfillOK
<1>10. \A b \in Coordinators \ {c} : CallOK(b)'
    BY Zenon, <1>1, <1>4, <1>5, CallKept DEF Moved
<1> QED BY Zenon, <1>1, <1>4, <1>6, <1>9, <1>10 DEF MoveInvariant, Moved

\* The end of a backfill step moves the checkpoint over covered keys only.
LEMMA MarkStep ==
    ASSUME MoveParameters, MoveInvariant, NEW c \in Coordinators, Mark(c)
    PROVE  MoveInvariant'
<1>1. /\ UNCHANGED <<kind, src, dst, acked, write, undoing>> /\ MoveType /\ Return(c)
      /\ moving[c].op = "backfill" /\ moving[c].at = "mark" /\ BackfillOK(c) /\ moving[c] \in CallRecord
    BY Zenon DEF Mark, InStep, writers, MoveInvariant, CallOK, MoveType
<1>2. \/ UNCHANGED <<state, checkpoint>>
      \/ /\ state = "backfill" /\ checkpoint' = moving[c].next
         /\ state' = (IF moving[c].done THEN "verify" ELSE "backfill")
    BY Zenon DEF Mark, setState, row
<1>3. /\ moving' \in [Coordinators -> CallRecord] /\ CallOK(c)'
      /\ \A b \in Coordinators \ {c} : moving'[b] = moving[b]
    BY Zenon, <1>1, Ended
<1>4. MoveType'
    BY Zenon, <1>1, <1>2, <1>3 DEF MoveType, CallRecord
<1>5. CASE UNCHANGED <<state, checkpoint>>
    BY Zenon, <1>1, <1>3, <1>4, <1>5, OneCall
<1>6. CASE /\ state = "backfill" /\ checkpoint' = moving[c].next
           /\ state' = (IF moving[c].done THEN "verify" ELSE "backfill")
  <2>1. state' \in {"verify", "backfill"} /\ ~Moved /\ ~Moved' /\ (state' = "verify" => moving[c].done)
      BY Zenon, <1>6 DEF Moved
  <2>2. ASSUME NEW k \in RangeKeys PROVE WriteOK(k)'
    <3>1. WriteOK(k)
        BY Zenon DEF MoveInvariant
    <3>2. k <= checkpoint' \/ state' = "verify" => Covered(k)
        BY Zenon, <1>1, <1>6, <2>1 DEF BackfillOK
    <3> QED BY Zenon, <1>1, <1>6, <2>1, <3>1, <3>2 DEF WriteOK, Covered, Moved
  <2>3. \A b \in Coordinators \ {c} : CallOK(b)'
      BY Zenon, <1>1, <1>3, <2>1, CallKept DEF Covered, DocumentOK
  <2> QED BY Zenon, <1>1, <1>3, <1>4, <1>6, <2>1, <2>2, <2>3 DEF MoveInvariant
<1> QED BY Zenon, <1>2, <1>5, <1>6

\* Counting changes nothing, and a call may end at any point.
LEMMA CountStep ==
    ASSUME MoveParameters, MoveInvariant, NEW c \in Coordinators,
           CountSource(c) \/ CountDestination(c) \/ Abort(c)
    PROVE  MoveInvariant'
<1>1. /\ UNCHANGED <<kind, state, checkpoint, src, dst, acked, write, undoing>>
      /\ MoveType /\ moving[c] \in CallRecord /\ CallOK(c)
    BY Zenon DEF CountSource, CountDestination, Abort, row, writers, MoveInvariant, MoveType
<1>2. CASE Return(c)
  <2>1. /\ moving' \in [Coordinators -> CallRecord] /\ CallOK(c)'
        /\ \A b \in Coordinators \ {c} : moving'[b] = moving[b]
      BY Zenon, <1>1, <1>2, Ended
  <2>2. MoveType'
      BY Zenon, <1>1, <2>1 DEF MoveType
  <2> QED BY Zenon, <1>1, <2>1, <2>2, OneCall
<1>3. CASE moving[c].op = "verify" /\ \E n \in Nat, a \in Places :
             moving' = [moving EXCEPT ![c] = [moving[c] EXCEPT !.count = n, !.at = a]]
  <2>1. PICK n \in Nat, a \in Places :
             moving' = [moving EXCEPT ![c] = [moving[c] EXCEPT !.count = n, !.at = a]]
      BY <1>3, Zenon
  <2>2. [moving[c] EXCEPT !.count = n, !.at = a] \in CallRecord
      BY <1>1, Zenon DEF CallRecord
  <2>3. MoveType' /\ \A b \in Coordinators \ {c} : moving'[b] = moving[b]
      BY Zenon, <1>1, <2>1, <2>2 DEF MoveType
  <2>4. moving'[c].op = "verify"
      BY Zenon, <1>1, <1>3, <2>1 DEF MoveType, CallRecord
  <2>5. CallOK(c)'
      BY Zenon, <1>1, <1>3, <2>4 DEF CallOK
  <2> QED BY Zenon, <1>1, <2>3, <2>5, OneCall
<1>4. CASE CountSource(c)
  <2>1. Cardinality(Held(src)) \in Nat
    <3>1. Held(src) \in SUBSET RangeKeys
        BY Zenon DEF Held
    <3> QED BY Zenon, <3>1, KeysFinite
  <2>2. /\ moving[c].op = "verify" /\ "count_dst" \in Places
        /\ moving' = [moving EXCEPT ![c] = [moving[c] EXCEPT !.count = Cardinality(Held(src)), !.at = "count_dst"]]
      BY Zenon, <1>4 DEF CountSource, InStep, Places
  <2> QED BY <1>3, <2>1, <2>2, Zenon
<1>5. CASE CountDestination(c) /\ Continue(c, "set")
  <2>1. /\ moving[c].op = "verify" /\ "set" \in Places /\ moving[c].count \in Nat
        /\ moving' = [moving EXCEPT ![c] = [moving[c] EXCEPT !.count = moving[c].count, !.at = "set"]]
      BY <1>1, <1>5, Zenon DEF CountDestination, Continue, InStep, Places, CallRecord, MoveType
  <2> QED BY <1>3, <2>1, Zenon
<1> QED BY Zenon, <1>2, <1>4, <1>5 DEF CountDestination, Abort

\* The last two transitions: at the cutover every key is covered.
LEMMA ClosingStep ==
    ASSUME MoveParameters, MoveInvariant, NEW c \in Coordinators, CutOver(c) \/ Complete(c)
    PROVE  MoveInvariant'
<1>1. /\ UNCHANGED <<kind, src, dst, acked, write, undoing>> /\ MoveType /\ Return(c)
      /\ moving[c].op \in {"verify", "complete"} /\ moving[c] \in CallRecord /\ ~undoing
    BY Zenon DEF CutOver, Complete, InStep, writers, MoveInvariant, CallOK, MoveType
<1>2. /\ moving' \in [Coordinators -> CallRecord] /\ CallOK(c)'
      /\ \A b \in Coordinators \ {c} : moving'[b] = moving[b]
    BY Zenon, <1>1, Ended
<1>3. \/ UNCHANGED <<state, checkpoint>>
      \/ /\ checkpoint' = moving[c].mark
         /\ state \in {"verify", "cutover"} /\ state' \in {"cutover", "complete"}
    BY Zenon DEF CutOver, Complete, setState, row
<1>4. MoveType'
    BY Zenon, <1>1, <1>2, <1>3 DEF MoveType, CallRecord
<1>5. CASE UNCHANGED <<state, checkpoint>>
    BY Zenon, <1>1, <1>2, <1>4, <1>5, OneCall
<1>6. CASE /\ checkpoint' = moving[c].mark
           /\ state \in {"verify", "cutover"} /\ state' \in {"cutover", "complete"}
  <2>1. Moved' /\ state' \notin {"planned", "dual_write", "backfill", "rolled_back"}
      BY Zenon, <1>6 DEF Moved
  <2>2. ASSUME NEW k \in RangeKeys PROVE WriteOK(k)'
    <3>1. WriteOK(k) /\ Covered(k)
        BY <1>1, <1>6, Zenon DEF MoveInvariant, WriteOK, Moved
    <3> QED BY Zenon, <1>1, <1>6, <2>1, <3>1 DEF WriteOK, Covered, Moved
  <2>3. \A b \in Coordinators \ {c} : CallOK(b)'
      BY Zenon, <1>1, <1>2, <1>6, <2>1, CallKept DEF Covered, DocumentOK
  <2> QED BY Zenon, <1>1, <1>2, <1>4, <2>1, <2>2, <2>3 DEF MoveInvariant
<1> QED BY Zenon, <1>3, <1>5, <1>6

\* The source is deleted after the cutover only, the destination by a rollback.
LEMMA DeleteStep ==
    ASSUME MoveParameters, MoveInvariant, NEW c \in Coordinators, DeleteSource(c) \/ DeleteDestination(c)
    PROVE  MoveInvariant'
<1>1. /\ UNCHANGED <<kind, state, checkpoint, acked, write, undoing>> /\ MoveType /\ Continue(c, "set")
      /\ moving[c] \in CallRecord /\ CallOK(c)
    BY Zenon DEF DeleteSource, DeleteDestination, row, writers, MoveInvariant, MoveType
<1>2. /\ moving' = [moving EXCEPT ![c] = [moving[c] EXCEPT !.at = "set"]]
      /\ [moving[c] EXCEPT !.at = "set"] \in CallRecord
    BY Zenon, <1>1 DEF Continue, MoveType, CallRecord, Places
<1>3. /\ moving' \in [Coordinators -> CallRecord] /\ moving'[c].op = moving[c].op
      /\ \A b \in Coordinators \ {c} : moving'[b] = moving[b]
    BY Zenon, <1>1, <1>2 DEF MoveType, CallRecord
<1>4. [k \in RangeKeys |-> 0] \in [RangeKeys -> Version]
    BY DEF Version, MoveParameters
<1>5. CASE DeleteSource(c)
  <2>1. /\ src' \in [RangeKeys -> Version] /\ dst' = dst /\ moving[c].op = "complete" /\ Moved
      BY Zenon, <1>1, <1>4, <1>5 DEF DeleteSource, InStep, MoveType, CallOK
  <2>2. MoveType'
      BY Zenon, <1>1, <1>3, <2>1 DEF MoveType
  <2>3. \A k \in RangeKeys : WriteOK(k)'
      BY Zenon, <1>1, <2>1 DEF MoveInvariant, WriteOK, Covered, Moved
  <2>4. CallOK(c)'
      BY <1>1, <1>3, <2>1, Zenon DEF CallOK, Moved
  <2>5. \A b \in Coordinators \ {c} : CallOK(b)'
      BY <1>1, <1>3, <2>1, CallKept, Zenon DEF Moved, Covered, DocumentOK
  <2> QED BY Zenon, <1>1, <2>2, <2>3, <2>4, <2>5 DEF MoveInvariant, Moved
<1>6. CASE DeleteDestination(c)
  <2>1. /\ dst' = [k \in RangeKeys |-> 0] /\ src' = src /\ moving[c].op = "rollback" /\ undoing
      BY Zenon, <1>1, <1>6 DEF DeleteDestination, InStep, CallOK
  <2>2. MoveType'
      BY Zenon, <1>1, <1>3, <1>4, <2>1 DEF MoveType
  <2>3. \A k \in RangeKeys : WriteOK(k)'
      BY Zenon, <1>1, <2>1 DEF MoveInvariant, WriteOK, Moved
  <2>4. CallOK(c)'
      BY <1>1, <1>3, <2>1, Zenon DEF CallOK, Moved
  <2>5. \A b \in Coordinators \ {c} : CallOK(b)'
      BY <1>1, <1>3, <2>1, Zenon DEF MoveInvariant, CallOK, Moved
  <2> QED BY Zenon, <1>1, <2>1, <2>2, <2>3, <2>4, <2>5 DEF MoveInvariant, Moved
<1> QED BY Zenon, <1>5, <1>6

\* A rollback ends the migration.
LEMMA RolledBackStep ==
    ASSUME MoveParameters, MoveInvariant, NEW c \in Coordinators, RolledBack(c)
    PROVE  MoveInvariant'
<1>1. /\ UNCHANGED <<kind, src, dst, acked, write, undoing>> /\ MoveType /\ Return(c)
      /\ moving[c] \in CallRecord /\ undoing /\ ~Moved
    BY Zenon DEF RolledBack, InStep, writers, MoveInvariant, CallOK, MoveType
<1>2. /\ moving' \in [Coordinators -> CallRecord] /\ CallOK(c)'
      /\ \A b \in Coordinators \ {c} : moving'[b] = moving[b]
    BY Zenon, <1>1, Ended
<1>3. UNCHANGED <<state, checkpoint>> \/ (state' = "rolled_back" /\ checkpoint' = moving[c].mark)
    BY Zenon DEF RolledBack, setState, row
<1>4. MoveType' /\ ~Moved'
    BY Zenon, <1>1, <1>2, <1>3 DEF MoveType, CallRecord, Moved
<1>5. \A k \in RangeKeys : WriteOK(k)'
    BY Zenon, <1>1, <1>3, <1>4 DEF MoveInvariant, WriteOK
<1>6. \A b \in Coordinators \ {c} : CallOK(b)'
    BY Zenon, <1>1, <1>2 DEF MoveInvariant, CallOK
<1> QED BY Zenon, <1>1, <1>2, <1>4, <1>5, <1>6 DEF MoveInvariant

-----------------------------------------------------------------------------
\* The invariant holds along every behaviour.
THEOREM MoveInductive ==
    ASSUME MoveParameters
    PROVE  MoveSpec => []MoveInvariant
<1>1. MoveInit => MoveInvariant
    BY Zenon, MoveInitOK
<1>2. MoveInvariant /\ [MoveNext]_moveVars => MoveInvariant'
  <2> SUFFICES ASSUME MoveInvariant, [MoveNext]_moveVars PROVE MoveInvariant'
      BY Zenon
  <2>1. CASE UNCHANGED moveVars
    <3>1. MoveType' /\ Moved' = Moved /\ \A k \in RangeKeys : Covered(k)' = Covered(k)
        BY Zenon, <2>1 DEF moveVars, MoveInvariant, MoveType, Moved, Covered
    <3>2. \A k \in RangeKeys : WriteOK(k)'
        BY Zenon, <2>1, <3>1 DEF moveVars, MoveInvariant, WriteOK
    <3>3. \A c \in Coordinators : CallOK(c)'
        BY Zenon, <2>1, <3>1 DEF moveVars, MoveInvariant, CallOK, BackfillOK, DocumentOK
    <3> QED BY Zenon, <2>1, <3>1, <3>2, <3>3 DEF moveVars, MoveInvariant
  <2>2. CASE \E k \in RangeKeys : BeginWrite(k) \/ WriterStep(k) \/ WriteFails(k)
      BY Zenon, <2>2, BeginWriteStep, WriteToStep, AcknowledgeStep, WriteFailsStep DEF WriterStep, Ends
  <2>3. CASE EnableDualWrite \/ BeginBackfill
      BY Zenon, <2>3, OpeningStep
  <2>4. CASE \E c \in Coordinators : MoveStep(c) \/ Abort(c)
      BY Zenon, <2>4, ExportStep, ImportStep, MarkStep, CountStep, ClosingStep, DeleteStep, RolledBackStep
         DEF MoveStep
  <2>5. CASE \E c \in Coordinators : \E op \in Operations : Begin(c, op)
      BY Zenon, <2>5, BeginStep
  <2> QED BY Zenon, <2>1, <2>2, <2>3, <2>4, <2>5 DEF MoveNext
<1> QED BY <1>1, <1>2, PTL DEF MoveSpec

\* For any range, batch size, number of coordinators and of versions, wherever
\* calls and writes end: a migration loses no acknowledged write.
THEOREM MigrationKeepsWrites ==
    ASSUME MoveParameters
    PROVE  MoveSpec => []AcknowledgedKept
<1>1. MoveInvariant => AcknowledgedKept
  <2> SUFFICES ASSUME MoveInvariant PROVE AcknowledgedKept
      BY Zenon
  <2>1. MoveTypeOK
      BY Zenon DEF MoveInvariant, MoveType, WriteOK, Version, MoveTypeOK
  <2>2. SourceFaithful
      BY Zenon DEF MoveInvariant, WriteOK, SourceFaithful
  <2>3. Moved => \A k \in RangeKeys : Covered(k) /\ (kind = "sql" /\ dst[k] > 0 => dst[k] >= acked[k])
      BY Zenon DEF MoveInvariant, WriteOK
  <2>4. CutoverHasKeys
      BY Zenon, <2>3 DEF CutoverHasKeys, Held, Covered
  <2>5. kind = "sql" => CutoverFaithful
    <3> SUFFICES ASSUME kind = "sql", Moved, NEW k \in RangeKeys PROVE dst[k] >= acked[k]
        BY Zenon DEF CutoverFaithful
    <3>1. dst[k] \in Nat /\ acked[k] \in Nat
        BY DEF MoveInvariant, MoveType, Version, MoveParameters
    <3> QED BY <2>3, <3>1 DEF Covered
  <2> QED BY Zenon, <2>1, <2>2, <2>4, <2>5 DEF AcknowledgedKept
<1> QED BY <1>1, MoveInductive, PTL
=============================================================================
