------------------------------ MODULE Workers ------------------------------
(***************************************************************************)
(* The worker threads of server/server.cpp.  Each serves one connection at *)
(* a time, one request per connection, and process_query turns the request *)
(* into calls on the one StorageEngine and its one TransactionContext,     *)
(* which no lock covers from one call to the next.                         *)
(*                                                                         *)
(* A step is one call; the unprotected accesses within a call would add    *)
(* behaviours and take none away.  Statements are INSERTs of a few rows    *)
(* into one table, BEGIN, COMMIT and ROLLBACK; nothing the server does     *)
(* sets another isolation level than read committed.  DDL and queries do   *)
(* not touch the context.                                                  *)
(*                                                                         *)
(* promised, alone, undisturbed and settled are history variables: they    *)
(* record what clients were told, and which requests no other overlapped.  *)
(***************************************************************************)
EXTENDS Integers, FiniteSets, Sequences, Visibility

CONSTANTS Threads,             \* worker_threads of them
          MaxRowId,            \* bound on the rows inserted
          MaxBatch,            \* bound on the rows of one INSERT
          XIDEmergencyStop, XIDFreezeThreshold, MaxCommand

VARIABLES next_xid, clog, active_xids, ctx, siread_map, in_conflict,
          data,      \* rowid -> xmin of its version, NoXid: no row
          row_ids,   \* row_ids_
          logged,    \* xid -> the verdict its last record in the log states
          worker,    \* thread -> where process_query is
          promised,  \* rows of implicit transactions reported as done
          alone,     \* the threads whose request no other has overlapped
          undisturbed, \* of the promised rows, those of such statements
          settled    \* the xids such a COMMIT or ROLLBACK has ended

tmVars == <<next_xid, clog, active_xids, ctx, siread_map, in_conflict>>
history == <<promised, alone, undisturbed, settled>>
vars == <<tmVars, data, row_ids, logged, worker, history>>

RowIds == 1 .. MaxRowId

TM == INSTANCE TransactionManager
        WITH Keys <- {}, UndoRecord <- RowIds, Names <- {},
             MaxUndo <- MaxRowId, MaxSavepoints <- 0

ASSUME WorkersAssumption ==
    /\ IsFiniteSet(Threads)
    /\ {MaxRowId, MaxBatch, XIDFreezeThreshold, MaxCommand} \subseteq Nat
    /\ XIDEmergencyStop \in Nat /\ XIDEmergencyStop > 3

\* "run": after start_transaction_command, rows are going in; "end": one was
\* refused.  "log", "undo", "finish", "reset": the next call of COMMIT or
\* ROLLBACK.
\* own: did the statement find no transaction and start an implicit one?
Place == {"idle", "run", "end", "log", "undo", "finish", "reset"}
Worker == [pc : Place, verdict : {"COMMITTED", "ABORTED"}, own : BOOLEAN,
           xid : TM!Xid \cup {NoXid}, rows : SUBSET RowIds]
Idle == [pc |-> "idle", verdict |-> "ABORTED", own |-> FALSE, xid |-> NoXid, rows |-> {}]

TypeOK ==
    /\ TM!TypeOK
    /\ data \in [RowIds -> TM!Xid \cup {NoXid}]
    /\ row_ids \in 0 .. MaxRowId
    /\ logged \in [TM!Xid -> {"none", "COMMITTED", "ABORTED"}]
    /\ worker \in [Threads -> Worker]
    /\ promised \in SUBSET RowIds /\ undisturbed \in SUBSET RowIds
    /\ alone \in SUBSET Threads /\ settled \in SUBSET TM!Xid

Init ==
    /\ TM!Init
    /\ data = [k \in RowIds |-> NoXid]
    /\ row_ids = 0
    /\ logged = [x \in TM!Xid |-> "none"]
    /\ worker = [w \in Threads |-> Idle]
    /\ promised = {} /\ undisturbed = {} /\ alone = {} /\ settled = {}

-----------------------------------------------------------------------------
(* A request overlaps those that are under way when it begins, and those   *)
(* that begin before it ends.                                              *)

RequestBegins(w) ==
    alone' = {v \in {w} : \A u \in Threads \ {w} : worker[u].pc = "idle"}
RequestEnds(w) == alone' = alone \ {w}

-----------------------------------------------------------------------------
(* A statement: start_transaction_command, insert_with_txn row after row,  *)
(* commit_transaction_command.                                             *)

Running == {w \in Threads : worker[w].pc \in {"run", "end"}}

StartStatement(w) ==
    /\ worker[w].pc = "idle"
    /\ ctx.command_id + Cardinality(Running) < MaxCommand
    /\ worker' = [worker EXCEPT ![w].pc = "run",
                                ![w].own = (ctx.block_state = "DEFAULT")]
    /\ IF ctx.block_state = "DEFAULT"
       THEN TM!StartTransactionCommand ELSE UNCHANGED tmVars
    /\ RequestBegins(w)
    /\ UNCHANGED <<data, row_ids, logged, promised, undisturbed, settled>>

InsertRow(w) ==
    /\ worker[w].pc = "run"
    /\ Cardinality(worker[w].rows) < MaxBatch
    /\ row_ids < MaxRowId
    /\ row_ids' = row_ids + 1
    /\ TM!Write(<<row_ids + 1>>, {}, {})
    /\ data' = [data EXCEPT ![row_ids + 1] = TM!WriterXid]
    /\ worker' = [worker EXCEPT ![w].rows = @ \cup {row_ids + 1}]
    /\ UNCHANGED <<logged, history>>

\* A duplicate key: the rowid is spent and an xid assigned before the throw.
RefuseRow(w) ==
    /\ worker[w].pc = "run"
    /\ row_ids < MaxRowId
    /\ row_ids' = row_ids + 1
    /\ TM!Write(<<>>, {}, {})
    /\ worker' = [worker EXCEPT ![w].pc = "end"]
    /\ UNCHANGED <<data, logged, history>>

\* What the client is told of a statement that began its own transaction.
Answer(w) ==
    /\ promised' = IF worker[w].own THEN promised \cup worker[w].rows ELSE promised
    /\ undisturbed' = IF worker[w].own /\ w \in alone
                      THEN undisturbed \cup worker[w].rows ELSE undisturbed
    /\ RequestEnds(w)
    /\ UNCHANGED settled

\* The executor turns an exception of the engine into a message, so that a
\* statement ends the same way whether all its rows went in or some.
EndStatement_NoCommit(w) ==
    /\ w \in Running
    /\ UNCHANGED tmVars
    /\ Answer(w)
    /\ worker' = [worker EXCEPT ![w] = Idle]
    /\ UNCHANGED <<data, row_ids, logged>>
EndStatement(w) ==
    /\ w \in Running
    /\ IF ctx.block_state = "DEFAULT"
       THEN UNCHANGED tmVars ELSE TM!CommitTransactionCommand
    /\ Answer(w)
    /\ worker' = [worker EXCEPT ![w] = Idle]
    /\ UNCHANGED <<data, row_ids, logged>>

-----------------------------------------------------------------------------
(* BEGIN, COMMIT and ROLLBACK.                                             *)

\* Inside a block BEGIN throws, without a change.
Begin(w) ==
    /\ worker[w].pc = "idle"
    /\ TM!BeginTransactionBlock
    /\ alone' = {}
    /\ UNCHANGED <<data, row_ids, logged, worker, promised, undisturbed, settled>>

\* get_current_xid.
GetXid(w, verdict) ==
    /\ worker[w].pc = "idle"
    /\ worker' = [worker EXCEPT ![w].pc = "log", ![w].verdict = verdict,
                                ![w].xid = ctx.xid]
    /\ RequestBegins(w)
    /\ UNCHANGED <<tmVars, data, row_ids, logged, promised, undisturbed, settled>>

\* write_xact_commit or write_xact_abort, for an xid there is.
Record(w, verdict) ==
    logged' = IF worker[w].xid = NoXid THEN logged
              ELSE [logged EXCEPT ![worker[w].xid] = verdict]
WriteXact_CommitBoth(w) ==
    /\ worker[w].pc = "log"
    /\ Record(w, "COMMITTED")
    /\ worker' = [worker EXCEPT ![w].pc =
                    IF worker[w].verdict = "ABORTED" THEN "undo" ELSE "finish"]
    /\ UNCHANGED <<tmVars, data, row_ids, history>>
WriteXact(w) ==
    /\ worker[w].pc = "log"
    /\ Record(w, worker[w].verdict)
    /\ worker' = [worker EXCEPT ![w].pc =
                    IF worker[w].verdict = "ABORTED" THEN "undo" ELSE "finish"]
    /\ UNCHANGED <<tmVars, data, row_ids, history>>

\* apply_undo, of whatever the context's undo list holds by now.
ApplyUndo(w) ==
    /\ worker[w].pc = "undo"
    /\ data' = [k \in RowIds |->
                  IF \E i \in 1 .. Len(ctx.undo_records) : ctx.undo_records[i] = k
                  THEN NoXid ELSE data[k]]
    /\ worker' = [worker EXCEPT ![w].pc = "finish"]
    /\ UNCHANGED <<tmVars, row_ids, logged, history>>

\* commit_transaction or abort_transaction.
FinishTransaction(w) ==
    /\ worker[w].pc = "finish"
    /\ \/ worker[w].verdict = "ABORTED" /\ TM!AbortTransaction
       \/ worker[w].verdict = "COMMITTED" /\ TM!CommitTransaction
    /\ worker' = [worker EXCEPT ![w].pc = "reset"]
    /\ UNCHANGED <<data, row_ids, logged, history>>

\* reset_context, and the answer.
Reset(w) ==
    /\ worker[w].pc = "reset"
    /\ TM!ResetContext
    /\ worker' = [worker EXCEPT ![w] = Idle]
    /\ settled' = IF w \in alone THEN settled \cup ({worker[w].xid} \ {NoXid})
                  ELSE settled
    /\ RequestEnds(w)
    /\ UNCHANGED <<data, row_ids, logged, promised, undisturbed>>

-----------------------------------------------------------------------------
Next ==
    \E w \in Threads :
        \/ StartStatement(w)
        \/ InsertRow(w)
        \/ RefuseRow(w)
        \/ EndStatement(w)
        \/ Begin(w)
        \/ \E verdict \in {"COMMITTED", "ABORTED"} : GetXid(w, verdict)
        \/ WriteXact(w)
        \/ ApplyUndo(w)
        \/ FinishTransaction(w)
        \/ Reset(w)

Spec == Init /\ [][Next]_vars

-----------------------------------------------------------------------------
(* What clients may rely on.                                               *)

HoldsCommitted(k) == data[k] # NoXid /\ StatusIn(clog, data[k]) = "COMMITTED"

\* "Even without COMMIT a single statement is an implicit transaction": when
\* the statement has returned, its rows are there and committed.  With two
\* threads this is false (run Workers_shared).
ImplicitCommits == \A k \in promised : HoldsCommitted(k)

\* It is true of every statement that no other request overlapped, whatever
\* state earlier overlapping requests have left the context in, and whatever
\* the other threads do afterwards: start_transaction_command clears what the
\* others left, and commit_transaction_command commits what it has begun.
UndisturbedCommits == \A k \in undisturbed : HoldsCommitted(k)

\* The verdict an undisturbed COMMIT or ROLLBACK writes to the log, for
\* recovery to read, is the one it gives in the commit log, and no overlapping
\* COMMIT or ROLLBACK ever makes the two differ again.
UndisturbedLog == \A x \in settled : logged[x] = clog[x] /\ clog[x] # "IN_PROGRESS"

\* A committed row stays, and stays committed: a ROLLBACK may undo what other
\* connections have in the shared transaction, but never what was committed,
\* in whatever order apply_undo, commit_transaction, abort_transaction,
\* reset_context and the next statement of several threads come.
CommittedStay ==
    [][\A k \in RowIds : HoldsCommitted(k) => HoldsCommitted(k)']_vars

=============================================================================
