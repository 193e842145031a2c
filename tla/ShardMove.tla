------------------------------ MODULE ShardMove ------------------------------
(***************************************************************************)
(* One shard migration of the Go runtime (shard.go): the row in the        *)
(* control database with its state and checkpoint, the calls of the        *)
(* coordinator on it, and the writers that ask TargetsForWrite where a     *)
(* document goes.  A call reads the row, works on the two backends and     *)
(* updates the row if its state is still the expected one; other calls and *)
(* writers run between these steps, and a call may end after any of them   *)
(* (an error, a cancelled context, a crash).                               *)
(*                                                                         *)
(* The writers are external.  A write takes its targets once, updates them *)
(* one by one and is acknowledged when all have it; the writes of one key  *)
(* do not overlap.  Documents are versions, 0 is none.                     *)
(***************************************************************************)
EXTENDS Naturals, FiniteSetsExt

CONSTANTS Last,         \* the keys of the range are 1..Last
          Limits,       \* batch sizes BackfillStep is called with
          Coordinators, \* goroutines that call the coordinator
          Drained,      \* BeginBackfill waits for the writes of the planned state
          Exclusive,    \* Rollback runs alone, and nothing runs after it began
          Failing,      \* what may end early: "call", "write"
          MaxVersion,   \* bound: versions of a key
          MaxFaults     \* bound: calls and writes that end early

\* What the documentation asks of the operator, and the ranges of the parameters.
MoveParameters ==
    /\ Last \in Nat /\ Limits \subseteq Nat \ {0} /\ MaxVersion \in Nat \ {0}
    /\ Drained = TRUE /\ Exclusive = TRUE

VARIABLES
    kind,               \* of the destination: "sql" or "mongo"
    state, checkpoint,  \* the row in shard_migrations
    src, dst,           \* the backends: per key its version
    acked,              \* per key, the last acknowledged version
    write,              \* per key, the write under way: version, targets left and all
    moving,             \* per goroutine: the operation, its next step, what it has read
    undoing,            \* a Rollback has begun
    faults

moveVars == <<kind, state, checkpoint, src, dst, acked, write, moving, undoing, faults>>
row == <<state, checkpoint>>
writers == <<acked, write>>

RangeKeys == 1..Last
NoWrite == [version |-> 0, todo |-> {}, targets |-> {}]
NoCall == [op |-> "none", at |-> "idle", mark |-> 0, docs |-> {}, next |-> 0, done |-> FALSE,
           count |-> 0]

MoveInit ==
    /\ kind \in {"sql", "mongo"}
    /\ state = "planned" /\ checkpoint = 0
    /\ src \in [RangeKeys -> {0, 1}] /\ dst = [k \in RangeKeys |-> 0] /\ acked = src
    /\ write = [k \in RangeKeys |-> NoWrite]
    /\ moving = [c \in Coordinators |-> NoCall]
    /\ undoing = FALSE /\ faults = 0

Held(shard) == {k \in RangeKeys : shard[k] > 0}

-----------------------------------------------------------------------------
\* Where a write of the current state goes; after a rollback there is no entry
\* and the application writes to the source.
TargetsForWrite ==
    CASE state \in {"planned", "rolled_back"} -> {"src"}
      [] state \in {"dual_write", "backfill", "verify"} -> {"src", "dst"}
      [] state \in {"cutover", "complete"} -> {"dst"}

BeginWrite(k) ==
    /\ write[k] = NoWrite
    /\ LET v == Max({src[k], dst[k], acked[k]}) + 1 IN
       /\ v <= MaxVersion
       /\ write' = [write EXCEPT ![k] =
             [version |-> v, todo |-> TargetsForWrite, targets |-> TargetsForWrite]]
    /\ UNCHANGED <<kind, row, src, dst, acked, moving, undoing, faults>>

WriteTo(k, t) ==
    /\ t \in write[k].todo
    /\ src' = IF t = "src" THEN [src EXCEPT ![k] = write[k].version] ELSE src
    /\ dst' = IF t = "dst" THEN [dst EXCEPT ![k] = write[k].version] ELSE dst
    /\ write' = [write EXCEPT ![k].todo = @ \ {t}]
    /\ UNCHANGED <<kind, row, acked, moving, undoing, faults>>

Acknowledge(k) ==
    /\ write[k] # NoWrite /\ write[k].todo = {}
    /\ acked' = [acked EXCEPT ![k] = write[k].version]
    /\ write' = [write EXCEPT ![k] = NoWrite]
    /\ UNCHANGED <<kind, row, src, dst, moving, undoing, faults>>

WriteFails(k) ==
    /\ write[k] # NoWrite /\ "write" \in Failing /\ faults < MaxFaults /\ faults' = faults + 1
    /\ write' = [write EXCEPT ![k] = NoWrite]
    /\ UNCHANGED <<kind, row, src, dst, acked, moving, undoing>>

-----------------------------------------------------------------------------
\* The conditional UPDATE: nothing happens when the state has moved on.
setState(from, to, mark) ==
    IF state \in from THEN state' = to /\ checkpoint' = mark ELSE UNCHANGED row

EnableDualWrite ==
    /\ state = "planned" /\ ~(Exclusive /\ undoing)
    /\ setState({"planned"}, "dual_write", 0)
    /\ UNCHANGED <<kind, src, dst, writers, moving, undoing, faults>>

BeginBackfill ==
    /\ state = "dual_write" /\ ~(Exclusive /\ undoing)
    /\ Drained => \A k \in RangeKeys : write[k].targets # {"src"}
    /\ setState({"dual_write"}, "backfill", 0)
    /\ UNCHANGED <<kind, src, dst, writers, moving, undoing, faults>>

\* Every call first reads the row and checks its state.
Ready(op) ==
    CASE op = "backfill" -> state = "backfill"
      [] op = "verify"   -> state = "verify"
      [] op = "complete" -> state = "cutover"
      [] op = "rollback" -> state \notin {"cutover", "complete"}
First == [backfill |-> "export", verify |-> "count_src", complete |-> "delete_src",
          rollback |-> "delete_dst"]
Begin(c, op) ==
    /\ moving[c] = NoCall /\ Ready(op)
    /\ Exclusive => /\ op = "rollback" => \A d \in Coordinators : moving[d] = NoCall
                    /\ op # "rollback" => ~undoing
    /\ moving' = [moving EXCEPT ![c] = [NoCall EXCEPT !.op = op, !.at = First[op], !.mark = checkpoint]]
    /\ undoing' = (undoing \/ op = "rollback")
    /\ UNCHANGED <<kind, row, src, dst, writers, faults>>

InStep(c, op, step) == moving[c].op = op /\ moving[c].at = step
Continue(c, step) == moving' = [moving EXCEPT ![c].at = step]
Return(c) == moving' = [moving EXCEPT ![c] = NoCall]

\* ExportRange: the next keys after the checkpoint, in order.
After(mark) == {k \in Held(src) : k > mark}
Page(mark, limit) == {k \in After(mark) : Cardinality({j \in After(mark) : j < k}) < limit}
FullIsDone(page, limit) == Cardinality(page) <= limit
PageDone(page, limit) == Cardinality(page) < limit
NextMark(page) == IF page = {} THEN 0 ELSE Max(page)
Export(c, limit) ==
    /\ InStep(c, "backfill", "export")
    /\ LET page == Page(moving[c].mark, limit) IN
       moving' = [moving EXCEPT ![c] = [@ EXCEPT
           !.docs = {[key |-> k, version |-> src[k]] : k \in page},
           !.next = NextMark(page),
           !.done = PageDone(page, limit), !.at = IF page = {} THEN "mark" ELSE "import"]]
    /\ UNCHANGED <<kind, row, src, dst, writers, undoing, faults>>

\* Import: SQL inserts what is missing in one transaction, MongoDB replaces
\* document by document.
Replace(d) == d.version
Insert(d) == IF dst[d.key] = 0 THEN d.version ELSE dst[d.key]
ImportSQL(c) ==
    /\ InStep(c, "backfill", "import") /\ kind = "sql"
    /\ dst' = [k \in RangeKeys |->
         IF \E d \in moving[c].docs : d.key = k
         THEN Insert(CHOOSE d \in moving[c].docs : d.key = k) ELSE dst[k]]
    /\ Continue(c, "mark")
    /\ UNCHANGED <<kind, row, src, writers, undoing, faults>>

ImportMongo(c) ==
    /\ InStep(c, "backfill", "import") /\ kind = "mongo"
    /\ LET d == CHOOSE d \in moving[c].docs : \A e \in moving[c].docs : d.key <= e.key IN
       /\ dst' = [dst EXCEPT ![d.key] = d.version]
       /\ moving' = [moving EXCEPT ![c] = [@ EXCEPT !.docs = moving[c].docs \ {d},
             !.at = IF moving[c].docs = {d} THEN "mark" ELSE "import"]]
    /\ UNCHANGED <<kind, row, src, writers, undoing, faults>>

\* The end of BackfillStep: on to verification, or the new checkpoint.
Mark(c) ==
    /\ InStep(c, "backfill", "mark")
    /\ setState({"backfill"}, IF moving[c].done THEN "verify" ELSE "backfill", moving[c].next)
    /\ Return(c)
    /\ UNCHANGED <<kind, src, dst, writers, undoing, faults>>

\* Verify counts both ranges and cuts over when they agree.
CountSource(c) ==
    /\ InStep(c, "verify", "count_src")
    /\ moving' = [moving EXCEPT ![c] = [@ EXCEPT !.count = Cardinality(Held(src)), !.at = "count_dst"]]
    /\ UNCHANGED <<kind, row, src, dst, writers, undoing, faults>>

CountDestination(c) ==
    /\ InStep(c, "verify", "count_dst")
    /\ IF moving[c].count = Cardinality(Held(dst)) THEN Continue(c, "set") ELSE Return(c)
    /\ UNCHANGED <<kind, row, src, dst, writers, undoing, faults>>

CutOver(c) ==
    /\ InStep(c, "verify", "set")
    /\ setState({"verify"}, "cutover", moving[c].mark)
    /\ Return(c)
    /\ UNCHANGED <<kind, src, dst, writers, undoing, faults>>

\* Complete may delete the range at the source first.
DeleteSource(c) ==
    /\ InStep(c, "complete", "delete_src")
    /\ \/ UNCHANGED src
       \/ src' = [k \in RangeKeys |-> 0]
    /\ Continue(c, "set")
    /\ UNCHANGED <<kind, row, dst, writers, undoing, faults>>

Complete(c) ==
    /\ InStep(c, "complete", "set")
    /\ setState({"cutover"}, "complete", moving[c].mark)
    /\ Return(c)
    /\ UNCHANGED <<kind, src, dst, writers, undoing, faults>>

\* Rollback deletes the range at the destination, then updates the row.
DeleteDestination(c) ==
    /\ InStep(c, "rollback", "delete_dst")
    /\ dst' = [k \in RangeKeys |-> 0]
    /\ Continue(c, "set")
    /\ UNCHANGED <<kind, row, src, writers, undoing, faults>>

RolledBack(c) ==
    /\ InStep(c, "rollback", "set")
    /\ setState({"planned", "dual_write", "backfill", "verify"}, "rolled_back", moving[c].mark)
    /\ Return(c)
    /\ UNCHANGED <<kind, src, dst, writers, undoing, faults>>

Abort(c) ==
    /\ moving[c] # NoCall /\ "call" \in Failing /\ faults < MaxFaults /\ faults' = faults + 1
    /\ Return(c)
    /\ UNCHANGED <<kind, row, src, dst, writers, undoing>>

MoveStep(c) ==
    \/ \E limit \in Limits : Export(c, limit)
    \/ ImportSQL(c) \/ ImportMongo(c) \/ Mark(c)
    \/ CountSource(c) \/ CountDestination(c) \/ CutOver(c)
    \/ DeleteSource(c) \/ Complete(c) \/ DeleteDestination(c) \/ RolledBack(c)

Operations == {"backfill", "verify", "complete", "rollback"}

WriterStep(k) == Acknowledge(k) \/ \E t \in {"src", "dst"} : WriteTo(k, t)

MoveNext ==
    \/ \E k \in RangeKeys : BeginWrite(k) \/ WriterStep(k) \/ WriteFails(k)
    \/ EnableDualWrite \/ BeginBackfill
    \/ \E c \in Coordinators : MoveStep(c) \/ Abort(c) \/ \E op \in Operations : Begin(c, op)

\* Writes and calls finish, and somebody drives the migration forward, calling
\* again what failed.
Forward ==
    EnableDualWrite \/ BeginBackfill
    \/ \E c \in Coordinators, op \in Operations \ {"rollback"} : Begin(c, op)
MoveFairness ==
    /\ \A k \in RangeKeys : WF_moveVars(WriterStep(k))
    /\ \A c \in Coordinators : WF_moveVars(MoveStep(c))
    /\ WF_moveVars(Forward)

MoveSpec == MoveInit /\ [][MoveNext]_moveVars
FairMoveSpec == MoveSpec /\ MoveFairness

-----------------------------------------------------------------------------
Moved == state \in {"cutover", "complete"}

\* Every variable holds a value of its type.
MoveTypeOK ==
    /\ state \in {"planned", "dual_write", "backfill", "verify", "cutover", "complete",
                  "rolled_back"}
    /\ checkpoint \in 0..Last
    /\ {src, dst, acked} \subseteq [RangeKeys -> 0..MaxVersion]
    /\ \A k \in RangeKeys : write[k].todo \subseteq write[k].targets

\* When reads and writes have moved to the destination it has every
\* acknowledged write, at least in the acknowledged version, although the
\* documents were copied while they were being written.
CutoverFaithful == Moved => \A k \in RangeKeys : dst[k] >= acked[k]

\* The destination misses no acknowledged document (in some version).
CutoverHasKeys == Moved => Held(acked) \subseteq Held(dst)

\* Until then, and for ever after a rollback, the source has every
\* acknowledged write.
SourceFaithful == ~Moved => \A k \in RangeKeys : src[k] >= acked[k]

\* A migration loses no acknowledged write.  Until the cutover, and for ever after
\* a rollback, the source has every one; after the cutover the destination has,
\* although documents were copied while they were written (BackfillStep, Verify):
\* with SQL at least in the acknowledged version, with the replacing import of
\* MongoDB at least the document.
AcknowledgedKept ==
    /\ MoveTypeOK /\ SourceFaithful /\ CutoverHasKeys
    /\ kind = "sql" => CutoverFaithful

\* A migration that nobody rolls back completes, whatever calls failed on the
\* way and however the documents are written meanwhile.
MigrationCompletes == <>(state = "complete" \/ undoing)
=============================================================================
