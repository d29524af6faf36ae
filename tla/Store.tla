------------------------------- MODULE Store -------------------------------
(***************************************************************************)
(* One table of storage/engine.cpp under one session: insert_with_txn,     *)
(* update_with_txn, remove_with_txn, the scan, COMMIT and ROLLBACK as      *)
(* server.cpp issues them, savepoints with apply_undo_to, and vacuum.      *)
(*                                                                         *)
(* The table has one column besides the system columns, which may be its   *)
(* primary key.  A DML statement runs under the table's exclusive lock     *)
(* from end to end, so it is one step.  The memtable keeps one version per *)
(* row here: update and remove erase the old version before they put the   *)
(* new one.                                                                *)
(*                                                                         *)
(* The session does what the server and the tests do: statements run       *)
(* between start_ and commit_transaction_command or inside a block,        *)
(* savepoints are set inside a block, and COMMIT and ROLLBACK end with     *)
(* reset_context.  XIDEmergencyStop is a bound here.                       *)
(***************************************************************************)
EXTENDS Integers, FiniteSets, Sequences, Visibility

CONSTANTS MaxRowId,            \* bound on the inserts
          Values,              \* contents of the column
          NoValue,             \* not a value
          Keyed,               \* may the column be PRIMARY KEY ?
          MaxMatched,          \* bound on the rows one UPDATE or DELETE matches,
                               \* with and without a key
          Levels,              \* isolation levels sessions choose
          Names, XIDEmergencyStop, XIDFreezeThreshold,
          MaxCommand, MaxUndo, MaxSavepoints

VARIABLES next_xid, clog, active_xids, ctx, siread_map, in_conflict,
          data,      \* data_: rowid -> version or NoRow
          row_ids,   \* row_ids_: the last rowid handed out
          has_pk     \* the table's definition: is the column PRIMARY KEY ?

tmVars == <<next_xid, clog, active_xids, ctx, siread_map, in_conflict>>
vars == <<tmVars, data, row_ids, has_pk>>

RowIds == 1 .. MaxRowId     \* _rowid values
NoRow == [xmin |-> -1]

RowXid == {NoXid, FrozenRow} \cup 3 .. XIDEmergencyStop - 1
Version == [xmin : RowXid, xmax : RowXid, cid : 0 .. MaxCommand, val : Values]

\* What a DML call saves for the rollback; of an insert there is no old row.
\* (UndoOp::INSERT is the record whose old row is missing.)
Undo == [row_id : RowIds, old : Version \cup {NoRow}]

TM == INSTANCE TransactionManager WITH Keys <- RowIds, UndoRecord <- Undo

ASSUME StoreAssumption ==
    /\ MaxRowId \in Nat
    /\ NoValue \notin Values
    /\ Keyed \subseteq BOOLEAN
    /\ MaxMatched \in [BOOLEAN -> Nat]
    /\ Levels \subseteq TM!Isolation
    /\ XIDEmergencyStop \in Nat /\ XIDEmergencyStop > 3
    /\ {XIDFreezeThreshold, MaxCommand, MaxUndo, MaxSavepoints} \subseteq Nat

TypeOK ==
    /\ TM!TypeOK
    /\ data \in [RowIds -> Version \cup {NoRow}]
    /\ row_ids \in {0} \cup RowIds
    /\ has_pk \in Keyed

Init ==
    /\ TM!Init
    /\ data = [k \in RowIds |-> NoRow]
    /\ row_ids = 0
    /\ has_pk \in Keyed

-----------------------------------------------------------------------------
(* What a statement sees, and the undo list.                               *)

Sees(row, xid, snap) ==
    row # NoRow /\ Visible(row, xid, snap, ctx.command_id, clog)

SeenBy(rows, xid, snap) == {k \in RowIds : Sees(rows[k], xid, snap)}

\* The rows a DML statement works on: scan_all filtered under a snapshot
\* taken on the spot.  (The xid it may just have been assigned is on no row
\* yet, so that the snapshot before the assignment shows the same.)
Seen == SeenBy(data, TM!WriterXid, TM!GetSnapshot)

First(s) == CHOOSE x \in s : \A y \in s : x <= y

\* apply_undo_record over a list, from its last record to its first: each
\* erases the row and puts the saved version back, so that the first record
\* of a row has the last word.
Undone(rows, recs) ==
    [k \in RowIds |->
       LET mine == {i \in 1 .. Len(recs) : recs[i].row_id = k}
       IN  IF mine = {} THEN rows[k] ELSE recs[First(mine)].old]

\* The undo records of a statement, in the order it meets the rows.
InOrder(f, rows) ==
    /\ rows = {f[i] : i \in 1 .. Cardinality(rows)}
    /\ \A i, j \in 1 .. Cardinality(rows) : i < j => f[i] < f[j]
Saved(rows) ==
    LET order == CHOOSE f \in [1 .. Cardinality(rows) -> rows] : InOrder(f, rows)
    IN  [i \in 1 .. Cardinality(rows) |->
           [row_id |-> order[i], old |-> data[order[i]]]]

-----------------------------------------------------------------------------
(* The statements.                                                         *)

Running == ctx.block_state # "DEFAULT"

Select ==
    /\ Running
    /\ TM!Scan(SeenBy(data, ctx.xid, TM!StatementSnapshot))
    /\ UNCHANGED <<data, row_ids, has_pk>>

\* insert_with_txn.  The rowid is spent and the xid assigned before the
\* uniqueness check, which registers a read of every row it passes.
Duplicates_IgnoreOwn(v) ==
    IF has_pk THEN {k \in Seen : data[k].val = v /\ data[k].xmin # ctx.xid} ELSE {}
Duplicates(v) == IF has_pk THEN {k \in Seen : data[k].val = v} ELSE {}

Insert(v) ==
    /\ Running
    /\ row_ids + 1 \in RowIds
    /\ row_ids' = row_ids + 1
    /\ Duplicates(v) = {}
    /\ TM!Write(<<[row_id |-> row_ids + 1, old |-> NoRow]>>,
                IF has_pk THEN Seen ELSE {}, {})
    /\ data' = [data EXCEPT ![row_ids + 1] =
                  [xmin |-> TM!WriterXid, xmax |-> NoXid,
                   cid |-> ctx.command_id, val |-> v]]
    /\ UNCHANGED has_pk

InsertRefused(v) ==
    /\ Running
    /\ row_ids + 1 \in RowIds
    /\ row_ids' = row_ids + 1
    /\ Duplicates(v) # {}
    /\ TM!Write(<<>>, {k \in Seen : k < First(Duplicates(v))}, {})
    /\ UNCHANGED <<data, has_pk>>

\* update_with_txn.  Row after row, in rowid order: the rw edges, the
\* uniqueness check against the rows as they were when the statement began,
\* the undo record, the new version.  A refused row ends the statement; what
\* it has done to the rows before stays.
Clashes(k, v) == has_pk /\ \E j \in Seen \ {k} : data[j].val = v
Reached(rows, v) == {k \in rows : \A j \in rows : j < k => ~Clashes(j, v)}
Updated(rows, v) == {k \in Reached(rows, v) : ~Clashes(k, v)}

Update(rows, v) ==
    /\ Running
    /\ rows \subseteq Seen
    /\ TM!Write(Saved(Updated(rows, v)), {}, Reached(rows, v))
    /\ data' = [k \in RowIds |->
                  IF k \in Updated(rows, v)
                  THEN [xmin |-> TM!WriterXid, xmax |-> NoXid,
                        cid |-> ctx.command_id, val |-> v]
                  ELSE data[k]]
    /\ UNCHANGED <<row_ids, has_pk>>

\* remove_with_txn.
Delete(rows) ==
    /\ Running
    /\ rows \subseteq Seen
    /\ TM!Write(Saved(rows), {}, rows)
    /\ data' = [k \in RowIds |->
                  IF k \in rows
                  THEN [data[k] EXCEPT !.xmax = TM!WriterXid, !.cid = ctx.command_id]
                  ELSE data[k]]
    /\ UNCHANGED <<row_ids, has_pk>>

-----------------------------------------------------------------------------
(* Transaction control.                                                    *)

Reset == [TM!IdleContext EXCEPT !.isolation = ctx.isolation]

\* COMMIT: commit_transaction, then reset_context.
Commit ==
    /\ TM!MayCommit
    /\ TM!Finish("COMMITTED")
    /\ ctx' = Reset
    /\ UNCHANGED <<data, row_ids, has_pk>>

\* ROLLBACK: apply_undo, abort_transaction, reset_context.
Rollback_NoUndo ==
    /\ TM!Finish("ABORTED")
    /\ ctx' = Reset
    /\ UNCHANGED <<data, row_ids, has_pk>>
Rollback ==
    /\ data' = Undone(data, ctx.undo_records)
    /\ TM!Finish("ABORTED")
    /\ ctx' = Reset
    /\ UNCHANGED <<row_ids, has_pk>>

SetSavepoint(n) ==
    /\ ctx.block_state \in {"BEGIN", "INPROGRESS"}
    /\ TM!CreateSavepoint(n)
    /\ UNCHANGED <<data, row_ids, has_pk>>

\* ROLLBACK TO: the records after the savepoint are applied and stay on the
\* list, where a later rollback will apply them again.
After(recs, position) == SubSeq(recs, position + 1, Len(recs))

RollbackTo_All(i) ==
    /\ data' = Undone(data, ctx.undo_records)
    /\ TM!PopSavepoint(i)
    /\ UNCHANGED <<row_ids, has_pk>>
RollbackTo(i) ==
    /\ data' = Undone(data, After(ctx.undo_records,
                                  Len(ctx.undo_records) - TM!ToUndo(i)))
    /\ TM!PopSavepoint(i)
    /\ UNCHANGED <<row_ids, has_pk>>

Release(i) ==
    /\ TM!PopSavepoint(i)
    /\ UNCHANGED <<data, row_ids, has_pk>>

-----------------------------------------------------------------------------
(* vacuum.                                                                 *)

\* Rows an active transaction may still care about are skipped.
Skipped(row) ==
    \/ row.xmin >= TM!OldestActiveXid /\ row.xmin # FrozenRow
    \/ row.xmax # NoXid /\ row.xmax >= TM!OldestActiveXid

\* Erased: the inserter aborted, or inserter and deleter both committed.
\* (FrozenXid has no entry in the log and reads IN_PROGRESS.)
Erasable(row) ==
    \/ StatusIn(clog, row.xmin) = "ABORTED"
    \/ /\ StatusIn(clog, row.xmin) = "COMMITTED"
       /\ row.xmax # NoXid /\ StatusIn(clog, row.xmax) = "COMMITTED"

Vacuumed(row) ==
    IF row = NoRow \/ Skipped(row) THEN row
    ELSE IF Erasable(row) THEN NoRow
    ELSE IF StatusIn(clog, row.xmin) = "COMMITTED"
    THEN [row EXCEPT !.xmin = FrozenRow]
    ELSE row

\* Afterwards maybe_anti_wraparound runs.
Vacuum ==
    /\ data' = [k \in RowIds |-> Vacuumed(data[k])]
    /\ clog' = IF TM!MustFreeze THEN TM!Frozen(clog) ELSE clog
    /\ UNCHANGED <<next_xid, active_xids, ctx, siread_map, in_conflict, row_ids,
                   has_pk>>

-----------------------------------------------------------------------------
Control ==
    /\ \/ TM!StartTransactionCommand
       \/ TM!CommitTransactionCommand
       \/ TM!BeginTransactionBlock
       \/ \E level \in Levels : TM!SetIsolationLevel(level)
    /\ UNCHANGED <<data, row_ids, has_pk>>

Matched == {rows \in SUBSET RowIds : Cardinality(rows) <= MaxMatched[has_pk]}

Next ==
    \/ Control
    \/ Select
    \/ \E v \in Values : Insert(v) \/ InsertRefused(v)
    \/ \E rows \in Matched, v \in Values : Update(rows, v)
    \/ \E rows \in Matched : Delete(rows)
    \/ Commit
    \/ Rollback
    \/ \E n \in Names : SetSavepoint(n)
    \/ \E n \in Names, i \in 1 .. MaxSavepoints :
         TM!IsLatest(n, i) /\ (RollbackTo(i) \/ Release(i))
    \/ Vacuum

Spec == Init /\ [][Next]_vars

-----------------------------------------------------------------------------
(* What the table promises.                                                *)

ValuesSeen(rows, xid) ==
    [k \in RowIds |->
       IF \E row \in {rows[k]} : Sees(row, xid, TM!GetSnapshot)
       THEN rows[k].val ELSE NoValue]

\* The table as its session sees it, as it was last committed, and as it was
\* at each savepoint: the last two by applying the undo records.
View == ValuesSeen(data, ctx.xid)
Base == ValuesSeen(Undone(data, ctx.undo_records), NoXid)
Marks == [i \in 1 .. Len(ctx.savepoints) |->
            [name |-> ctx.savepoints[i].name,
             view |-> ValuesSeen(Undone(data, After(ctx.undo_records,
                                              ctx.savepoints[i].undo_position)),
                                 ctx.xid)]]

\* Transactions are atomic and savepoints exact: COMMIT keeps what the
\* session sees, ROLLBACK and ROLLBACK TO bring back the rows as they were,
\* however partial rollbacks, repeated undo and vacuum are interleaved.
Rows == INSTANCE RowTable WITH base <- Base, view <- View, marks <- Marks
ImplementsRowTable == Rows!Spec

\* A primary key is unique among the rows a session sees and among those a
\* rollback would bring back.
Distinct(f) ==
    \A j, k \in RowIds : j # k /\ f[j] # NoValue => f[j] # f[k]
PrimaryKeyUnique == has_pk => Distinct(View) /\ Distinct(Base)

\* A rolled back transaction leaves no trace in the table: every xid on a row
\* is committed, frozen or the current one, so that no row waits for a
\* transaction that will never end.
NoTrace ==
    \A k \in RowIds : data[k] # NoRow =>
        /\ data[k].xmin \in {FrozenRow, ctx.xid}
             \/ StatusIn(clog, data[k].xmin) = "COMMITTED"
        /\ data[k].xmax \in {NoXid, ctx.xid}
             \/ StatusIn(clog, data[k].xmax) = "COMMITTED"
=============================================================================
