------------------------------ MODULE Recovery ------------------------------
(***************************************************************************)
(* The write-ahead log, checkpoints and recovery (wal_v3.cpp,              *)
(* checkpoint.cpp, and load, checkpoint, close and replay_record of        *)
(* storage/engine.cpp), for one table of one session, with clean restarts  *)
(* and crashes.                                                            *)
(*                                                                         *)
(* One counter, wal_seq_, numbers WAL records and memtable puts alike.     *)
(* The memtable keeps several versions of a row here, since replay puts    *)
(* without erasing.  A statement matches one version and has no command    *)
(* id, key or rw edge: Store has those.                                    *)
(*                                                                         *)
(* A crash loses memory and any part of the log after the last fdatasync;  *)
(* the checkpoint file is assumed durable once it has been written.        *)
(***************************************************************************)
EXTENDS Integers, Sequences, FiniteSets, LogFile, Visibility

CONSTANTS MaxRowId, MaxXid, MaxSeq,    \* bounds on rowids, xids and wal_seq_
          Values,                      \* contents of the column
          Interval,                    \* checkpoint_interval_
          Implicit,                    \* do statements commit implicitly?
          Saves,                       \* is save() ever called?
          CrashPoints,                 \* where a crash may strike
          MaxStarts                    \* bound on restarts and crashes

ASSUME RecoveryAssumption ==
    /\ MaxRowId \in Nat /\ MaxXid \in Nat /\ MaxSeq \in Nat /\ Interval \in Nat
    /\ MaxStarts \in Nat
    /\ Implicit \in BOOLEAN /\ Saves \in BOOLEAN
    /\ CrashPoints \subseteq {"idle", "save", "truncate"}

VARIABLES mem,      \* the engine: what a crash loses
          wal,      \* wal.log, the records of it that are synced, seq_
          ckp,      \* the checkpoint file
          acked,    \* rows as last committed, as the clients know them
          starts,   \* restarts and crashes
          crashes   \* crashes among them

vars == <<mem, wal, ckp, acked, starts, crashes>>

RowIds == 1 .. MaxRowId
Xid == 3 .. MaxXid
NoRow == [xmin |-> -1]

\* A row version without its place in the memtable, as payloads hold it.
Row == [xmin : Xid, xmax : Xid \cup {NoXid}, cid : {0}, val : Values]
Version == [seq : Nat, row : Row]
Record == [seq : Nat, xid : Xid, op : {"INSERT", "UPDATE", "DELETE"},
           row_id : RowIds, row : Row]
          \cup [seq : Nat, xid : Xid, op : {"XACT_COMMIT", "XACT_ABORT"}]

EmptyTable == [k \in RowIds |-> {}]

\* load of a missing or unreadable file starts from this: there is no table.
NoCheckpoint == [table |-> FALSE, last_seq |-> 0, rows |-> {}, row_ids |-> 0,
                 next_xid |-> 3, clog |-> <<>>]

\* Stopped cleanly after CREATE TABLE (record 1), and started again.
Init ==
    /\ ckp = [NoCheckpoint EXCEPT !.table = TRUE, !.last_seq = 1]
    /\ wal = [file |-> <<>>, synced |-> 0, seq |-> 0]
    /\ mem = [table |-> TRUE, next_xid |-> 3, clog |-> <<>>, xid |-> NoXid,
              undo |-> <<>>, data |-> EmptyTable, row_ids |-> 0, wal_seq |-> 1]
    /\ acked = {}
    /\ starts = 0
    /\ crashes = 0

-----------------------------------------------------------------------------
(* Memtable, commit log and what a session sees.                           *)

SetStatus(log, x, status) ==
    [y \in DOMAIN log \cup {x} |-> IF y = x THEN status ELSE log[y]]

NextSeq(m) == [m EXCEPT !.wal_seq = @ + 1]

\* MemTable::put under ++wal_seq_; the same row under the same number is
\* overwritten in place.
Put(m, k, row) ==
    LET n == m.wal_seq + 1
    IN  [NextSeq(m) EXCEPT !.data[k] =
           {v \in @ : v.seq # n} \cup {[seq |-> n, row |-> row]}]

Erase(m, k) == [m EXCEPT !.data[k] = {}]

GetLatest(versions) == CHOOSE v \in versions : \A w \in versions : w.seq <= v.seq

\* get_snapshot: at most the session's own transaction is active.
Snapshot(m) ==
    LET own == {m.xid} \ {NoXid}
    IN  [xmin |-> IF own = {} THEN m.next_xid ELSE m.xid,
         xmax |-> m.next_xid, xip |-> own]

Sees(m, v) == Visible(v.row, m.xid, Snapshot(m), 0, m.clog)

\* The rows the session sees, with their contents.
View(m) == UNION {{<<k, v.row.val>> : v \in {w \in m.data[k] : Sees(m, w)}} :
                    k \in RowIds}

-----------------------------------------------------------------------------
(* Log and checkpoint.                                                     *)

\* append; kOnCommit syncs the file with the record that ends a transaction.
Appended(w, rec) ==
    [file |-> Append(w.file, rec), seq |-> rec.seq,
     synced |-> IF rec.op \in {"XACT_COMMIT", "XACT_ABORT"}
                THEN Len(w.file) + 1 ELSE w.synced]

\* Every version there is.  The file has them in the order of scan_all, by row
\* and newest first: Place is where a version stands in it.
ScanAll(data) ==
    UNION {{[row_id |-> k, seq |-> v.seq, row |-> v.row] : v \in data[k]} : k \in RowIds}

Place(rows, p) ==
    Cardinality({q \in rows : \/ q.row_id < p.row_id
                              \/ q.row_id = p.row_id /\ q.seq >= p.seq})

CheckpointOf(m) ==
    [table |-> m.table, last_seq |-> m.wal_seq, rows |-> ScanAll(m.data),
     row_ids |-> m.row_ids, next_xid |-> m.next_xid, clog |-> m.clog]

\* What truncate keeps.
Kept(file, cutoff) == Frames(file, {i \in 1 .. Len(file) : file[i].seq > cutoff})

\* checkpoint: sync, save, truncate, and wal_seq_ goes back to the number of
\* the last record appended or kept, which may be below last_seq.
SeqAfter(w, kept) == IF kept = <<>> THEN w.seq ELSE kept[Len(kept)].seq

Checkpoint(m, w) ==
    LET kept == Kept(w.file, m.wal_seq)
    IN  /\ ckp' = CheckpointOf(m)
        /\ wal' = [file |-> kept, synced |-> Len(kept), seq |-> SeqAfter(w, kept)]
        /\ mem' = [m EXCEPT !.wal_seq = SeqAfter(w, kept)]

\* maybe_checkpoint, with which every statement ends.
MaybeCheckpoint(m, w) ==
    IF Interval > 0 /\ m.wal_seq % Interval = 0
    THEN Checkpoint(m, w)
    ELSE /\ mem' = m
         /\ wal' = w
         /\ UNCHANGED ckp

-----------------------------------------------------------------------------
(* The statements of the session.                                          *)

\* assign_xid.
Assigned(m) ==
    IF m.xid # NoXid THEN m
    ELSE [m EXCEPT !.xid = m.next_xid, !.next_xid = @ + 1,
                   !.clog = SetStatus(@, m.next_xid, "IN_PROGRESS")]

AddUndo(m, k, op, old) ==
    [m EXCEPT !.undo = Append(@, [row_id |-> k, op |-> op, old |-> old])]

Bounded ==
    /\ mem.table
    /\ mem.xid # NoXid \/ mem.next_xid <= MaxXid
    /\ mem.wal_seq + 2 <= MaxSeq

\* insert_with_txn and update_with_txn: the record first, then the put.
Insert(val) ==
    LET k == mem.row_ids + 1
        m == AddUndo(Assigned(mem), k, "INSERT", NoRow)
        row == [xmin |-> m.xid, xmax |-> NoXid, cid |-> 0, val |-> val]
        rec == [seq |-> m.wal_seq + 1, xid |-> m.xid, op |-> "INSERT",
                row_id |-> k, row |-> row]
    IN  /\ Bounded /\ k \in RowIds
        /\ MaybeCheckpoint([Put(NextSeq(m), k, row) EXCEPT !.row_ids = k],
                           Appended(wal, rec))
        /\ UNCHANGED <<acked, starts, crashes>>

Update(k, v, val) ==
    LET m == AddUndo(Assigned(mem), k, "UPDATE", v.row)
        row == [xmin |-> m.xid, xmax |-> NoXid, cid |-> 0, val |-> val]
        rec == [seq |-> m.wal_seq + 1, xid |-> m.xid, op |-> "UPDATE",
                row_id |-> k, row |-> row]
    IN  /\ Bounded /\ Sees(mem, v)
        /\ MaybeCheckpoint(Put(Erase(NextSeq(m), k), k, row), Appended(wal, rec))
        /\ UNCHANGED <<acked, starts, crashes>>

\* remove_with_txn: the put first, then the record.
Delete(k, v) ==
    LET m == AddUndo(Assigned(mem), k, "DELETE", v.row)
        row == [v.row EXCEPT !.xmax = m.xid]
        rec == [seq |-> m.wal_seq + 2, xid |-> m.xid, op |-> "DELETE",
                row_id |-> k, row |-> row]
    IN  /\ Bounded /\ Sees(mem, v)
        /\ MaybeCheckpoint(NextSeq(Put(Erase(m, k), k, row)), Appended(wal, rec))
        /\ UNCHANGED <<acked, starts, crashes>>

Ended(m, verdict) ==
    [m EXCEPT !.clog = SetStatus(@, m.xid, verdict), !.xid = NoXid, !.undo = <<>>]

XactRecord(verdict) == [seq |-> mem.wal_seq + 1, xid |-> mem.xid, op |-> verdict]

\* COMMIT of a block: XACT_COMMIT, synced, then the commit log.
Commit ==
    /\ mem.xid # NoXid /\ mem.wal_seq < MaxSeq
    /\ wal' = Appended(wal, XactRecord("XACT_COMMIT"))
    /\ mem' = Ended(NextSeq(mem), "COMMITTED")
    /\ acked' = View(mem)
    /\ UNCHANGED <<ckp, starts, crashes>>

\* A statement outside a block ends with commit_transaction_command, which
\* writes nothing to the log.
AutoCommit ==
    /\ Implicit /\ Len(mem.undo) = 1
    /\ mem' = Ended(mem, "COMMITTED")
    /\ acked' = View(mem)
    /\ UNCHANGED <<wal, ckp, starts, crashes>>

\* ROLLBACK: XACT_ABORT, then apply_undo from the last record to the first.
Undone(m, rec) ==
    IF rec.op = "INSERT" THEN Erase(m, rec.row_id)
    ELSE Put(Erase(m, rec.row_id), rec.row_id, rec.old)

ApplyUndo(m, undo) ==
    LET n == Len(undo)
        after[i \in 0 .. n] == IF i = 0 THEN m ELSE Undone(after[i - 1], undo[n + 1 - i])
    IN  after[n]

Rollback ==
    /\ mem.xid # NoXid /\ mem.wal_seq + Len(mem.undo) < MaxSeq
    /\ wal' = Appended(wal, XactRecord("XACT_ABORT"))
    /\ mem' = Ended(ApplyUndo(NextSeq(mem), mem.undo), "ABORTED")
    /\ UNCHANGED <<ckp, acked, starts, crashes>>

\* save(), which the server calls when it stops.
Save ==
    /\ Saves
    /\ Checkpoint(mem, wal)
    /\ UNCHANGED <<acked, starts, crashes>>

-----------------------------------------------------------------------------
(* load.                                                                   *)

\* rebuild_active_from_clog: what was in progress is aborted.
Rebuilt_Forgiving(log) ==
    [x \in DOMAIN log |-> IF log[x] = "IN_PROGRESS" THEN "COMMITTED" ELSE log[x]]
Rebuilt(log) ==
    [x \in DOMAIN log |-> IF log[x] = "IN_PROGRESS" THEN "ABORTED" ELSE log[x]]

\* The rows are put in the order of the file, from last_seq + 1 on.
FromCheckpoint(c) ==
    [table |-> c.table, next_xid |-> c.next_xid, clog |-> Rebuilt(c.clog),
     xid |-> NoXid, undo |-> <<>>,
     data |-> [k \in RowIds |->
                 {[seq |-> c.last_seq + Place(c.rows, p), row |-> p.row] :
                    p \in {q \in c.rows : q.row_id = k}}],
     row_ids |-> c.row_ids, wal_seq |-> c.last_seq + Cardinality(c.rows)]

\* replay_record.  A change is applied only if the log already says that its
\* transaction committed; nothing is erased, and next_xid_ does not move.
ReplayRow(m, rec) ==
    CASE rec.op = "INSERT" ->
           [Put(m, rec.row_id, rec.row) EXCEPT
              !.row_ids = IF rec.row_id > @ THEN rec.row_id ELSE @]
      [] rec.op = "UPDATE" -> Put(m, rec.row_id, rec.row)
      [] rec.op = "DELETE" ->
           IF m.data[rec.row_id] = {} THEN m
           ELSE Put(m, rec.row_id,
                    [GetLatest(m.data[rec.row_id]).row EXCEPT !.xmax = rec.xid])

ReplayRecord_AbortBefore(m, rec) ==
    CASE rec.op = "XACT_COMMIT" -> [m EXCEPT !.clog = SetStatus(@, rec.xid, "COMMITTED")]
      [] rec.op = "XACT_ABORT" -> [m EXCEPT !.clog = SetStatus(@, rec.xid - 1, "ABORTED")]
      [] OTHER -> IF m.table /\ StatusIn(m.clog, rec.xid) = "COMMITTED"
                  THEN ReplayRow(m, rec) ELSE m
ReplayRecord(m, rec) ==
    CASE rec.op = "XACT_COMMIT" -> [m EXCEPT !.clog = SetStatus(@, rec.xid, "COMMITTED")]
      [] rec.op = "XACT_ABORT" -> [m EXCEPT !.clog = SetStatus(@, rec.xid, "ABORTED")]
      [] OTHER -> IF m.table /\ StatusIn(m.clog, rec.xid) = "COMMITTED"
                  THEN ReplayRow(m, rec) ELSE m

\* replay: the records above from_seq, in the order of the file.
ReplayAbove(m, rec, from_seq) == IF rec.seq > from_seq THEN ReplayRecord(m, rec) ELSE m

Replayed(m, file, from_seq) ==
    LET after[i \in 0 .. Len(file)] ==
            IF i = 0 THEN m ELSE ReplayAbove(after[i - 1], file[i], from_seq)
    IN  after[Len(file)]

SeqOf(file) ==
    LET seqs == {0} \cup {file[i].seq : i \in 1 .. Len(file)}
    IN  CHOOSE n \in seqs : \A m \in seqs : m <= n

\* A new process opens the two files; acked becomes what its clients find.
Load(c, file) ==
    LET loaded == Replayed(FromCheckpoint(c), file, c.last_seq)
    IN  /\ ckp' = c
        /\ wal' = [file |-> file, synced |-> Len(file), seq |-> SeqOf(file)]
        /\ mem' = loaded
        /\ acked' = View(loaded)

\* close(), whatever transaction is open, and a new start.
Restart ==
    /\ starts < MaxStarts
    /\ starts' = starts + 1
    /\ UNCHANGED crashes
    /\ Load(CheckpointOf(mem), Kept(wal.file, mem.wal_seq))

\* Outside a checkpoint; while the checkpoint file is being overwritten, so
\* that it cannot be read; between save and the end of truncate.
Crash ==
    /\ starts < MaxStarts
    /\ starts' = starts + 1
    /\ crashes' = crashes + 1
    /\ \/ /\ "idle" \in CrashPoints
          /\ \E n \in wal.synced .. Len(wal.file) : Load(ckp, SubSeq(wal.file, 1, n))
       \/ /\ "save" \in CrashPoints
          /\ Load(NoCheckpoint, wal.file)
       \/ /\ "truncate" \in CrashPoints
          /\ \/ Load(CheckpointOf(mem), wal.file)
             \/ \E n \in 0 .. Len(Kept(wal.file, mem.wal_seq)) :
                  Load(CheckpointOf(mem), SubSeq(Kept(wal.file, mem.wal_seq), 1, n))

-----------------------------------------------------------------------------
Next ==
    \/ \E val \in Values : Insert(val)
    \/ \E k \in RowIds : \E v \in mem.data[k] :
         Delete(k, v) \/ \E val \in Values : Update(k, v, val)
    \/ Commit
    \/ AutoCommit
    \/ Rollback
    \/ Save
    \/ Restart
    \/ Crash

Spec == Init /\ [][Next]_vars

-----------------------------------------------------------------------------
(* What the files are for.                                                 *)

Statuses == {"IN_PROGRESS", "COMMITTED", "ABORTED"}
CLogs == UNION {[xids -> Statuses] : xids \in SUBSET Xid}
Undo == [row_id : RowIds, op : {"INSERT"}, old : {NoRow}]
        \cup [row_id : RowIds, op : {"UPDATE", "DELETE"}, old : Row]

TypeOK ==
    /\ mem \in [table : BOOLEAN, next_xid : Nat, clog : CLogs, xid : Xid \cup {NoXid},
                undo : Seq(Undo), data : [RowIds -> SUBSET Version],
                row_ids : 0 .. MaxRowId, wal_seq : Nat]
    /\ wal \in [file : Seq(Record), synced : Nat, seq : Nat]
    /\ wal.synced <= Len(wal.file)
    /\ ckp \in [table : BOOLEAN, last_seq : Nat,
                rows : SUBSET [row_id : RowIds, seq : Nat, row : Row],
                row_ids : 0 .. MaxRowId, next_xid : Nat, clog : CLogs]
    /\ crashes \in Nat

Unfinished(op) == \E i \in 1 .. Len(mem.undo) : mem.undo[i].op = op

\* Before any crash, a clean stop rolls the open transaction back, wherever
\* automatic checkpoints fell: after it the rows are those last committed.  (Not
\* so with an unfinished UPDATE, whose old version is in no file.)
RestartKeepsCommitted ==
    [][Restart /\ crashes = 0 /\ ~Unfinished("UPDATE") => View(mem') = acked]_vars

\* The effects of a COMMIT or ROLLBACK that returned survive a crash.
CrashKeepsCommitted == [][Crash => View(mem') = acked]_vars

\* At the first crash, rows that are committed in the checkpoint recovery reads
\* are there after it unless their deleter committed, whatever records are
\* replayed over them.
CommittedIn(c, log) ==
    {<<p.row_id, p.row.val>> :
       p \in {q \in c.rows : /\ StatusIn(c.clog, q.row.xmin) = "COMMITTED"
                            /\ ~DeletedFor(q.row, NoXid, log)}}
CrashKeepsCheckpoint ==
    [][Crash /\ crashes = 0 => CommittedIn(ckp', mem'.clog) \subseteq View(mem')]_vars
=============================================================================
