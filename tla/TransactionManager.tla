------------------------- MODULE TransactionManager -------------------------
(***************************************************************************)
(* storage/transaction.cpp: transaction ids, commit log, snapshots, SSI    *)
(* edges, savepoints and the block-state machine.                          *)
(*                                                                         *)
(* There is ONE TransactionContext (context_): the manager knows which     *)
(* xids are active, but only one of them at a time is "current", and once  *)
(* reset_context or a new start_transaction_command has dropped an xid     *)
(* without ending it, nothing makes it current again.                      *)
(*                                                                         *)
(* The client is the most general one: it may call any operation of the    *)
(* class in any state, which is what the tests do and what several server  *)
(* workers sharing the object amount to; a call is one step.               *)
(***************************************************************************)
EXTENDS Integers, FiniteSets, Sequences

CONSTANTS Keys,                \* rows, as RowKey (table, _rowid)
          UndoRecord,          \* what a DML call can put on the undo list
          Names,               \* savepoint names
          XIDEmergencyStop,    \* first xid that is never handed out
          XIDFreezeThreshold,  \* next_xid - FrozenXid beyond which to freeze
          MaxCommand,          \* bound on command_id
          MaxUndo,             \* bound on the length of undo_records
          MaxSavepoints        \* bound on the savepoint stack

InvalidXid == 0
FrozenXid == 2
FirstNormalXid == 3

ASSUME TransactionAssumption ==
    /\ XIDEmergencyStop \in Nat /\ XIDEmergencyStop > FirstNormalXid
    /\ XIDFreezeThreshold \in Nat
    /\ MaxCommand \in Nat /\ MaxUndo \in Nat /\ MaxSavepoints \in Nat

VARIABLES next_xid,    \* next_xid_
          clog,        \* xid -> status; an xid with no entry reads IN_PROGRESS
          active_xids, \* active_xids_
          ctx,         \* context_
          siread_map,  \* row -> xids that registered a read of it
          in_conflict  \* reader xid -> writer xids (rw-antidependencies)

tmVars == <<next_xid, clog, active_xids, ctx, siread_map, in_conflict>>
ssiVars == <<siread_map, in_conflict>>

Xid == FirstNormalXid .. XIDEmergencyStop - 1
Status == {"IN_PROGRESS", "COMMITTED", "ABORTED"}
\* END and ABORT_PENDING are never assigned by any code.
BlockState == {"DEFAULT", "STARTED", "BEGIN", "INPROGRESS"}
Isolation == {"ReadCommitted", "RepeatableRead", "Serializable"}
Savepoint == [name : Names, undo_position : Nat]
Snapshot == [xmin : Nat, xmax : Nat, xip : SUBSET Xid]
NoSnapshot == [xmin |-> 0, xmax |-> 0, xip |-> {}]   \* has_snapshot = false

TransactionContext ==
    [xid : Xid \cup {InvalidXid}, block_state : BlockState, command_id : Nat,
     undo_records : Seq(UndoRecord), snapshot : Snapshot,
     isolation : Isolation, savepoints : Seq(Savepoint)]

IdleContext ==
    [xid |-> InvalidXid, block_state |-> "DEFAULT", command_id |-> 0,
     undo_records |-> <<>>, snapshot |-> NoSnapshot,
     isolation |-> "ReadCommitted", savepoints |-> <<>>]

Allocated == FirstNormalXid .. next_xid - 1     \* the xids clog has entries of

TypeOK ==
    /\ next_xid \in FirstNormalXid .. XIDEmergencyStop
    /\ clog \in [Xid -> Status]
    /\ active_xids \in SUBSET Xid
    /\ ctx \in TransactionContext
    /\ siread_map \in [Keys -> SUBSET Xid]
    /\ in_conflict \in [Xid -> SUBSET Xid]

Init ==
    /\ next_xid = FirstNormalXid
    /\ clog = [x \in Xid |-> "IN_PROGRESS"]
    /\ active_xids = {}
    /\ ctx = IdleContext
    /\ siread_map = [k \in Keys |-> {}]
    /\ in_conflict = [x \in Xid |-> {}]

-----------------------------------------------------------------------------
(* assign_xid, allocate_xid and the wraparound guard.                      *)

Oldest(s) == CHOOSE x \in s : \A y \in s : x <= y

OldestActiveXid == IF active_xids = {} THEN next_xid ELSE Oldest(active_xids)

\* freeze_old_xids: what it leaves in the log.  Finished entries are only
\* counted; an entry below every active xid that still says IN_PROGRESS is a
\* zombie and is aborted.
Frozen_IgnoreOldest(log) ==
    [x \in Xid |-> IF x < next_xid /\ log[x] = "IN_PROGRESS"
                   THEN "ABORTED" ELSE log[x]]
Frozen_Everything(log) ==
    [x \in Xid |-> IF x < OldestActiveXid THEN "ABORTED" ELSE log[x]]
Frozen(log) ==
    [x \in Xid |-> IF x < OldestActiveXid /\ log[x] = "IN_PROGRESS"
                   THEN "ABORTED" ELSE log[x]]

MustFreeze == /\ next_xid > XIDFreezeThreshold
              /\ next_xid - FrozenXid > XIDFreezeThreshold

FreezeOldXids ==
    /\ clog' = Frozen(clog)
    /\ UNCHANGED <<next_xid, active_xids, ctx, siread_map, in_conflict>>

\* The emergency stop: the last xid handed out is XIDEmergencyStop - 1.
MayAllocate_OffByOne == next_xid <= XIDEmergencyStop
MayAllocate == next_xid < XIDEmergencyStop

\* The xid a write runs under, once assign_xid has run.
WriterXid == IF ctx.xid = InvalidXid THEN next_xid ELSE ctx.xid

\* assign_xid, without its effect on the context (ctx.xid becomes WriterXid).
\* A refused allocation has frozen before it throws, see Refused.
Assigned ==
    \/ /\ ctx.xid # InvalidXid
       /\ UNCHANGED <<next_xid, active_xids, clog>>
    \/ /\ ctx.xid = InvalidXid
       /\ MayAllocate
       /\ next_xid' = next_xid + 1
       /\ active_xids' = active_xids \cup {next_xid}
       /\ clog' = [(IF MustFreeze THEN Frozen(clog) ELSE clog)
                     EXCEPT ![next_xid] = "IN_PROGRESS"]

Refused ==
    /\ ctx.xid = InvalidXid
    /\ ~MayAllocate
    /\ MustFreeze
    /\ FreezeOldXids

-----------------------------------------------------------------------------
(* Snapshots and the SSI books.                                            *)

GetSnapshot_NoXip == [xmin |-> OldestActiveXid, xmax |-> next_xid, xip |-> {}]
GetSnapshot ==
    [xmin |-> OldestActiveXid, xmax |-> next_xid, xip |-> active_xids]

\* get_transaction_snapshot: taken at the first use, reused afterwards.
TransactionSnapshot_Fresh == GetSnapshot
TransactionSnapshot ==
    IF ctx.snapshot = NoSnapshot THEN GetSnapshot ELSE ctx.snapshot

\* The snapshot the executor hands to a statement: a fresh one under read
\* committed or outside a transaction, else the transaction's.
PerStatement == ctx.isolation = "ReadCommitted" \/ ctx.block_state = "DEFAULT"
StatementSnapshot == IF PerStatement THEN GetSnapshot ELSE TransactionSnapshot

\* register_siread, for every row of a set, on behalf of xid.
Sireads(xid, rows) ==
    IF ctx.isolation = "Serializable" /\ xid # InvalidXid
    THEN [k \in Keys |->
            IF k \in rows THEN siread_map[k] \cup {xid} ELSE siread_map[k]]
    ELSE siread_map

\* register_write, for every row of a set: each other reader of the row gets
\* a rw edge to the writer.
Conflicts(xid, rows) ==
    IF ctx.isolation = "Serializable"
    THEN [r \in Xid |->
            IF r # xid /\ \E k \in rows : r \in siread_map[k]
            THEN in_conflict[r] \cup {xid} ELSE in_conflict[r]]
    ELSE in_conflict

\* cleanup_transaction_state.
Cleanup_OwnEdgesOnly(xid) ==
    /\ siread_map' = [k \in Keys |-> siread_map[k] \ {xid}]
    /\ in_conflict' = [in_conflict EXCEPT ![xid] = {}]
Cleanup(xid) ==
    /\ siread_map' = [k \in Keys |-> siread_map[k] \ {xid}]
    /\ in_conflict' =
         [r \in Xid |-> IF r = xid THEN {} ELSE in_conflict[r] \ {xid}]

\* ssi_is_pivot: a two-cycle of rw edges through xid.
Pivot(xid) ==
    \E other \in in_conflict[xid] : other # xid /\ xid \in in_conflict[other]

-----------------------------------------------------------------------------
(* What StorageEngine does to the manager while it runs a statement.       *)

\* scan_with_snapshot: a read of the rows it finds visible.  Scans allocate
\* no xid, so a transaction that has not written yet registers nothing.
Scan(rows) ==
    /\ ctx' = [ctx EXCEPT !.snapshot = IF PerStatement THEN @ ELSE StatementSnapshot]
    /\ siread_map' = Sireads(ctx.xid, rows)
    /\ UNCHANGED <<next_xid, clog, active_xids, in_conflict>>

\* insert_with_txn (reads the rows of its uniqueness check, writes none that
\* exists), update_with_txn and remove_with_txn (write existing rows).
Write(recs, read, written) ==
    /\ Len(ctx.undo_records) + Len(recs) <= MaxUndo
    /\ Assigned
    /\ ctx' = [ctx EXCEPT !.xid = WriterXid, !.undo_records = @ \o recs]
    /\ siread_map' = Sireads(WriterXid, read)
    /\ in_conflict' = Conflicts(WriterXid, written)

SetIsolationLevel(level) ==
    /\ ctx' = [ctx EXCEPT !.isolation = level]
    /\ UNCHANGED <<next_xid, clog, active_xids, siread_map, in_conflict>>

-----------------------------------------------------------------------------
(* The block-state machine.                                                *)

\* What start_transaction_command and begin_transaction_block reset when no
\* block is open.  The savepoint stack is not among it.
Started(state) ==
    [ctx EXCEPT !.xid = InvalidXid, !.command_id = 0, !.undo_records = <<>>,
                !.snapshot = NoSnapshot, !.block_state = state]

StartTransactionCommand ==
    /\ ctx.block_state = "DEFAULT"
    /\ ctx' = Started("STARTED")
    /\ UNCHANGED <<next_xid, clog, active_xids, siread_map, in_conflict>>

BeginTransactionBlock ==
    /\ ctx.block_state \in {"DEFAULT", "STARTED"}
    /\ ctx' = IF ctx.block_state = "DEFAULT" THEN Started("BEGIN")
              ELSE [ctx EXCEPT !.block_state = "BEGIN"]
    /\ UNCHANGED <<next_xid, clog, active_xids, siread_map, in_conflict>>

\* What the end of the current transaction does outside the context.
Finish(verdict) ==
    /\ IF ctx.xid = InvalidXid
       THEN UNCHANGED <<clog, active_xids, siread_map, in_conflict>>
       ELSE /\ clog' = [clog EXCEPT ![ctx.xid] = verdict]
            /\ active_xids' = active_xids \ {ctx.xid}
            /\ Cleanup(ctx.xid)
    /\ UNCHANGED next_xid

\* The context both ends leave, but for a commit without an xid.
Ended_KeepXid(state) ==
    [ctx EXCEPT !.command_id = 0, !.undo_records = <<>>, !.snapshot = NoSnapshot,
                !.savepoints = <<>>, !.block_state = state]
Ended_KeepUndo(state) ==
    [ctx EXCEPT !.xid = InvalidXid, !.command_id = 0, !.snapshot = NoSnapshot,
                !.savepoints = <<>>, !.block_state = state]
Ended(state) ==
    [ctx EXCEPT !.xid = InvalidXid, !.command_id = 0, !.undo_records = <<>>,
                !.snapshot = NoSnapshot, !.savepoints = <<>>, !.block_state = state]

\* commit_transaction throws for a pivot, before anything has changed.
MayCommit == ~(ctx.isolation = "Serializable" /\ ctx.xid # InvalidXid /\ Pivot(ctx.xid))

\* commit_transaction, leaving the block in a given state.  A transaction
\* without an xid keeps its command counter and its savepoints.
Committed(state) ==
    /\ MayCommit
    /\ Finish("COMMITTED")
    /\ ctx' = IF ctx.xid = InvalidXid
              THEN [ctx EXCEPT !.undo_records = <<>>, !.snapshot = NoSnapshot,
                               !.block_state = state]
              ELSE Ended(state)

CommitTransaction == Committed(ctx.block_state)

AbortTransaction ==
    /\ Finish("ABORTED")
    /\ ctx' = Ended(ctx.block_state)

\* commit_transaction_command, called after every statement.
CommitTransactionCommand ==
    \/ /\ ctx.block_state = "STARTED"
       /\ Committed("DEFAULT")
    \/ /\ ctx.block_state = "BEGIN"
       /\ ctx' = [ctx EXCEPT !.block_state = "INPROGRESS"]
       /\ UNCHANGED <<next_xid, clog, active_xids, siread_map, in_conflict>>
    \/ /\ ctx.block_state = "INPROGRESS"
       /\ ctx.command_id < MaxCommand
       /\ ctx' = [ctx EXCEPT !.command_id = @ + 1]
       /\ UNCHANGED <<next_xid, clog, active_xids, siread_map, in_conflict>>

ResetContext ==
    /\ ctx' = [IdleContext EXCEPT !.isolation = ctx.isolation]
    /\ UNCHANGED <<next_xid, clog, active_xids, siread_map, in_conflict>>

-----------------------------------------------------------------------------
(* Savepoints.                                                             *)

CreateSavepoint(n) ==
    /\ Len(ctx.savepoints) < MaxSavepoints
    /\ ctx' = [ctx EXCEPT !.savepoints =
                 Append(@, [name |-> n, undo_position |-> Len(ctx.undo_records)])]
    /\ UNCHANGED <<next_xid, clog, active_xids, siread_map, in_conflict>>

\* The most recent savepoint of a name stands at i; an unknown name throws.
IsLatest(n, i) ==
    /\ i \in 1 .. Len(ctx.savepoints)
    /\ ctx.savepoints[i].name = n
    /\ \A j \in i + 1 .. Len(ctx.savepoints) : ctx.savepoints[j].name # n

\* rollback_to_savepoint and release_savepoint change the same thing: the
\* named savepoint and the later ones go.
PopSavepoint(i) ==
    /\ ctx' = [ctx EXCEPT !.savepoints = SubSeq(@, 1, i - 1)]
    /\ UNCHANGED <<next_xid, clog, active_xids, siread_map, in_conflict>>

\* rollback_to_savepoint also returns how many undo records its caller must
\* apply (apply_undo_to).
ToUndo(i) ==
    LET target == ctx.savepoints[i].undo_position
    IN  IF Len(ctx.undo_records) < target THEN 0
        ELSE Len(ctx.undo_records) - target

-----------------------------------------------------------------------------
\* A clean stop and start: to_json, then from_json, rebuild_active_from_clog
\* and reset_context in a new process.
Restart_CommitOpen ==
    /\ clog' = [x \in Xid |->
                  IF x \in Allocated /\ clog[x] = "IN_PROGRESS"
                  THEN "COMMITTED" ELSE clog[x]]
    /\ active_xids' = {}
    /\ ctx' = IdleContext
    /\ siread_map' = [k \in Keys |-> {}]
    /\ in_conflict' = [x \in Xid |-> {}]
    /\ UNCHANGED next_xid
Restart ==
    /\ clog' = [x \in Xid |->
                  IF x \in Allocated /\ clog[x] = "IN_PROGRESS"
                  THEN "ABORTED" ELSE clog[x]]
    /\ active_xids' = {}
    /\ ctx' = IdleContext
    /\ siread_map' = [k \in Keys |-> {}]
    /\ in_conflict' = [x \in Xid |-> {}]
    /\ UNCHANGED next_xid

Next ==
    \/ \E rows \in SUBSET Keys : Scan(rows)
    \/ \E r \in UndoRecord, rows \in SUBSET Keys :
         Write(<<r>>, rows, {}) \/ Write(<<r>>, {}, rows)
    \/ Refused
    \/ \E level \in Isolation : SetIsolationLevel(level)
    \/ StartTransactionCommand
    \/ CommitTransactionCommand
    \/ BeginTransactionBlock
    \/ CommitTransaction
    \/ AbortTransaction
    \/ ResetContext
    \/ \E n \in Names : CreateSavepoint(n)
    \/ \E n \in Names, i \in 1 .. MaxSavepoints : IsLatest(n, i) /\ PopSavepoint(i)
    \/ FreezeOldXids
    \/ Restart

Spec == Init /\ [][Next]_tmVars

-----------------------------------------------------------------------------
(* What the manager is for.                                                *)

\* The active set, which snapshots and the vacuum horizon are computed from,
\* holds exactly the allocated xids whose log entry says IN_PROGRESS, which
\* is what visibility decides by: two records updated separately.
ActiveAreInProgress ==
    active_xids = {x \in Allocated : clog[x] = "IN_PROGRESS"}

\* Whatever is current can still be committed or aborted: no path leaves a
\* finished xid in the context, to write under or to finish a second time.
CurrentIsActive == ctx.xid # InvalidXid => ctx.xid \in active_xids

\* A verdict is final: commit, abort, freezing and restart never change the
\* status of a transaction that has ended, and only a live one gets one.
OneVerdict ==
    [][\A x \in Xid : clog[x] # "IN_PROGRESS" => clog'[x] = clog[x]]_tmVars

\* Undo records exist only under an xid, so that a rollback that applies
\* them also marks an xid aborted, whatever path closed the one before.
UndoHasXid == ctx.undo_records # <<>> => ctx.xid # InvalidXid

\* The SSI books name active transactions only: cleanup finds every place an
\* ended xid was filed under, as a reader, a reader's edge or a writer.
SsiOnlyActive ==
    /\ \A k \in Keys : siread_map[k] \subseteq active_xids
    /\ \A r \in Xid : /\ in_conflict[r] \subseteq active_xids
                      /\ in_conflict[r] # {} => r \in active_xids

\* What the isolation level Serializable really rests on: transactions commit
\* in the order of their xids, and one that commits is the last that was given
\* an xid.  A transaction during whose life another began to write, because a
\* new start or reset_context dropped it from the one context, never commits:
\* not by itself, not with another one, and not by freezing or a restart.
CommitsAreSerial ==
    [][\A x \in Xid : clog[x] # "COMMITTED" /\ clog'[x] = "COMMITTED"
                        => x = next_xid - 1]_tmVars

\* The SSI check is dead code.  transaction.h:209 has commit_transaction check
\* for a pivot, a transaction that both reads what another writes and writes
\* what it reads; with one context an edge always runs from an older xid to a
\* younger one, so that there is never a pivot and MayCommit is always true.
NoPivot == \A x \in Xid : ~Pivot(x)

\* A transaction snapshot divides the xids as visibility assumes: below xmin
\* and below xmax but outside xip everything had ended, and still has.
SnapshotSound ==
    ctx.snapshot # NoSnapshot =>
        /\ ctx.snapshot.xmin <= ctx.snapshot.xmax
        /\ ctx.snapshot.xmax <= next_xid
        /\ \A x \in ctx.snapshot.xip :
             ctx.snapshot.xmin <= x /\ x < ctx.snapshot.xmax
        /\ \A x \in Xid : x < ctx.snapshot.xmax /\ x \notin ctx.snapshot.xip
                            => clog[x] # "IN_PROGRESS"

\* "The transaction shares one snapshot": as long as there is one, statements
\* in between, isolation changes and BEGIN after START leave it alone.
SnapshotStable ==
    [][ctx.snapshot # NoSnapshot /\ ctx'.snapshot # NoSnapshot
         => ctx'.snapshot = ctx.snapshot]_tmVars
=============================================================================
