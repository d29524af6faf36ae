# JiaMiaoDB: TLA+ models and proofs

JiaMiaoDB (C++17, `src/src/`) is a small SQL server: worker threads accept one
request per connection, a parser and a planner turn it into a pipeline, an
executor runs the pipeline on a storage engine with MVCC rows, a commit log, a
write-ahead log, checkpoints and a table-lock manager. This directory holds TLA+
modules for its core, TLC configurations that check them on small instances, and
TLAPS proofs of the properties that matter most.

## The system and its parts

| part | source | state | operations | what makes it hard |
|---|---|---|---|---|
| Lock manager | `storage/lock_manager.*` | `key_states_` (counters per target), `txn_locks_` (held and waiting modes per xid), one mutex, one condition variable | `acquire` with timeout and reentrancy, `Handle::release`, `release_all` | two sets of books; notify after unlock; a timeout racing a grant |
| Transaction manager | `storage/transaction.*` | `next_xid_`, commit log, active xids, one `TransactionContext` (xid, command id, block state, undo list, savepoints, snapshot), SSI read and conflict maps | assign, start / commit command, BEGIN, COMMIT, abort, savepoints, snapshots, freezing, restart | long sequences of legal calls; several paths that reset different fields; the end of the xid space |
| Visibility | `transaction.cpp` | none | `check_tuple_visibility` | which of xmin, xmax, snapshot, log and command id decides |
| Storage engine, DML | `storage/engine.cpp` | rows of each table, `row_ids_`, undo records | `insert_with_txn`, `update_with_txn`, `remove_with_txn`, `scan_with_snapshot`, `apply_undo`, `apply_undo_to`, `vacuum` | statements refused half-way, undo over rows written since, vacuum beside open transactions |
| WAL, checkpoint, recovery | `storage/wal_v3.*`, `checkpoint.*`, `engine.cpp` | log file and its synced prefix, checkpoint file, `wal_seq_` | `append`, sync on commit, `replay`, `truncate`, `checkpoint`, `load`, `close` | crashes at any point, records older than the checkpoint, reused numbers |
| Skip list, memtable | `storage/skiplist.h`, `memtable.*` | linked nodes on several levels, `level_`, `size_` | `put`, `erase_range` under a mutex; `get_exact`, `range`, `all` without | readers on nodes that have been unlinked |
| Server | `server/server.cpp` | worker threads, one shared engine and context | `process_query` | calls of several threads on one transaction context |
| Indexes | `engine.cpp` | column -> text -> rowids | `create_index`, maintenance by DML, `rebuild_indexes`, `index_lookup` | kept by four paths, one of which is left by an exception |
| Planner, executor, workload memory | `ai/planner.*`, `ai/executor.*`, `ai/memory.*` | the history of executed queries | choice of a strategy, pipelines, `eval_expression`, `get_best_strategy` | the plan of a query changes with what was run before it |
| Parser | `sql/parser.*` | position in the tokens | one method per rule | five levels of precedence, several statements in one request |
| Catalog and DDL | `engine.cpp`, `catalog.*`, `catalog_codec.*` | databases, schemas, tables, users, the current database | create / drop / USE, their log records and replay | replay that does less than the call; a test and an assignment apart |
| Log file | `wal_v3.*` | frames | `decode`, `replay`, `truncate` | torn frames with others behind them |
| Memory contexts | `common/memcontext.*`, `allocset.*`, `bump.*`, `jm_alloc.h` | tree of contexts, blocks, free lists, the current context | create, link, unlink, reset, delete, alloc, free, realloc, scopes | pointers kept across reset and delete |
| Lexer, NL parser, supervisor, arena, `LWLock`, codecs, configuration | `sql/lexer.*`, `ai/nl_parser.*`, `supervisor/`, `storage/arena.*`, `storage/*_codec.*` | mostly none | pure functions, I/O | not modelled, see the end |

How they interact: `process_query` calls the transaction manager directly for
BEGIN, COMMIT and ROLLBACK, writes `XACT_COMMIT` / `XACT_ABORT` before it calls
`commit_transaction` / `abort_transaction`, and wraps every other statement in
`start_transaction_command` ... `commit_transaction_command`. The engine takes
table locks around one call (exclusive for DML, shared for scans, none for
`apply_undo`), assigns an xid at the first write, appends to the log, changes the
memtable, adds an undo record and may run a checkpoint.

For each part, what makes it correct:

* lock manager: exclusion, agreement of counters and books, no lost wake-up,
  every call returns when a timeout is set;
* transaction manager: active set = IN_PROGRESS entries, one verdict per xid, a
  snapshot that stays sound and stays the same, SSI books without ghosts;
* engine: unique primary keys, nothing of a rolled-back transaction left, vacuum
  invisible to every reader;
* recovery: what was acknowledged is there after a restart, what was not is gone;
* skip list: a scan without a lock is regular, a write is one step for readers;
* server: one connection's statement is not part of another's transaction;
* indexes and planner: an index lists what the rows say, and the rows a query
  returns do not depend on the plan that history picks;
* parser: an expression is read as it is written, and a statement ends where it
  ends, whatever comes next;
* catalog: what a start rebuilds is what the calls before it had made;
* memory contexts: no byte belongs to two callers, and nobody holds a byte, a
  context or a scope that has been given back.

## Modules

| module | models | state |
|---|---|---|
| `LockTable` | abstract: who holds what | `granted` |
| `LockManager` | `acquire`'s loop, release, notification | `key_states`, `held`, `waiting` (the code's books), `pc`, `request`, `expired`, `handles` (where each caller stands) |
| `LockManager_proofs` | theorems | |
| `TransactionManager` | `transaction.cpp`; the executor's choice of a snapshot | `next_xid`, `clog`, `active_xids`, `ctx`, `siread_map`, `in_conflict` |
| `TransactionManager_proofs` | theorems | |
| `Visibility` | `check_tuple_visibility` | |
| `RowTable` | abstract: rows as the session sees them, with commit, rollback and savepoints | `base`, `view`, `marks` |
| `Store` | DML, undo, vacuum over one table, composed with `TransactionManager` | `data`, `row_ids`, `has_pk` + the manager's |
| `Store_proofs` | theorems: the inductive invariant, `NoTrace`, `RowTable` is implemented, primary keys | |
| `Recovery` | log, checkpoint, load, replay, clean stop, crash | `mem`, `wal`, `ckp`, and ghosts `acked`, `crashes` |
| `Recovery_proofs` | theorems: what a stop and the first crash keep | |
| `Workers` | threads in `process_query`, call by call, over one `TransactionManager` | `data`, `row_ids`, `logged`, `worker`, ghosts `promised`, `alone`, `undisturbed`, `settled` + the manager's |
| `Workers_proofs` | theorems for any number of threads | |
| `SkipList` | `skiplist.h`, a step per pointer store or load | `node`, `next`, `level_`, `size_`, `writer`, `reader` |
| `SkipList_proofs` | lemmas on walks, stores and reach on one level's pointers; theorems: levels, regular scans, writes in one step | |
| `Expressions` | values, `coerce`, `value_to_string`, the operators of a condition | |
| `Evaluation` | `eval_expression`, the planner's search for columns and for an indexed equality | |
| `Query` | statements from plan to answer, indexes, workload memory | `rows`, `row_ids`, `index`, `undo`, `block`, `history`, `answer`, `behind` (ghost) |
| `Query_proofs` | theorems: indexes, answers | |
| `Parser` | `parser.cpp`, rule by rule | |
| `Session` | `Parser` and `Query` composed as `process_query` does | `request` + those of `Query` |
| `LogFile` | what `replay` reads of a file with torn frames, what `truncate` keeps | |
| `Catalog` | DDL, its log records, checkpoint, stop, crash, start | `catalog`, `using`, `wal_seq`, `log`, `log_seq`, `synced`, `ckp`, `status`, and ghosts |
| `Catalog_proofs` | theorems for any number of sessions: current database, restart, recovery after the first crash | |
| `Allocators` | `AllocSet` and `Bump` as functions of a context and the heap | |
| `MemoryContexts` | the tree of contexts, scopes, the engines' contexts | `node`, `heap`, `chunks`, `scopes`, `current`, `fault`, `corrupt`, `allocs` |
| `MC*` | symmetry and constant values for TLC | |

Definitions keep the source's names. Definitions named `X_Something` in front of
`X` are variants of `X` as a plausible bug would have it; no specification uses
them, they serve to confirm that a property is sensitive to that code.

**LockManager.** A step is what one thread does while it holds the mutex, or one
unlocked act (notify, falling asleep's end). `acquire` decides by `CanGrant`;
`Grant`, `Sleep` and `GiveUp` are the three ways a round of its loop ends;
`Reenter` hands out a handle without a count; `Release` releases everything the
xid holds, whatever the handle. `Notify` is separate because the code unlocks
first. The refused upgrade from shared to exclusive throws before any change and
is a stuttering step.

**TransactionManager.** One action per method. The early return of
`commit_transaction` for a transaction without an xid, which leaves the command
counter and the savepoints, is kept (`Committed`). Allocation may freeze first
and be refused after (`Refused`). `Restart` is `to_json`, `from_json`,
`rebuild_active_from_clog`, `reset_context`.

**Store.** A statement is one step, as it is under its table lock; a refused
statement is an action with what it leaves behind. `Update` applies to a chosen
set of up to `MaxMatched` rows, checks the primary key against rows as they were
before the statement, and stops at the first clash with earlier rows done.
Whether the table has a key is chosen at the start (`has_pk`), so that one run
covers both. `RollbackTo` is `rollback_to_savepoint` with `apply_undo_to`, which leaves the
records it has applied on the list.

**Recovery.** `mem` is the process, `wal` and `ckp` its two files. `acked` is a ghost, the
rows as last acknowledged, and so is `crashes`, the number of crashes so far, which the
properties need because a second crash can meet reused xids (see the weak spots). One counter numbers log records and memtable puts.
`Checkpoint` sets it back to the number of the last log record, as the code does.
`Crash` loses any unsynced suffix of the log, or strikes while the checkpoint is
being written (the file cannot be read), or between save and truncate, which may
itself be cut short. `ReplayRecord` applies a change only if the log already
says that its transaction committed. A checkpoint's rows are a set of which each has its
place in `scan_all`'s order (`Place`), since `load` numbers them in that order.

**Workers.** A step is one call `process_query` makes; all threads call into one
context. Statements are INSERTs of a few rows. Four ghosts record what a client could
know: `promised`, the rows of implicit transactions whose statement has been answered;
`alone`, the threads whose request no other has overlapped so far; `undisturbed`, the
promised rows of such requests; `settled`, the xids such a COMMIT or ROLLBACK ended. What
an overlapped request does is not defined away: every interleaving is a behaviour, and
what it leaves in the context is what the next undisturbed request starts from.

**SkipList.** The search of a writer reads what only writers change and is part of
the step that starts `put` or `erase_range`; then each level is one store. Every
reader step is one load or one copy of a value. A value that is assigned in place
while a reader may copy it is `Torn` in between. `get_exact(k)` is the range
`<<k, k>>` and `all()` the range of all keys. The ghost fields `ever` and `always`
of a reader record the list during its scan.

**Expressions, Evaluation, Query.** A value is a type and a payload; text is known by what it
renders and by how many quotes are around it, which is what index keys and the
planner's comparison of texts depend on. `Query` runs whole statements of one
session: `choose_initial_strategy` or, from the third run of a text on, what
`get_best_strategy` found; `build_pipeline`; `execute_pipeline`; and for DML the
engine's row loop with `validate`, `coerce`, key checks, undo and index upkeep,
including the exception that leaves a refused UPDATE before `rebuild_indexes`.
The strategy read through the pointer into a destroyed map is any recorded
signature or `Garbage`. A row's version only says how far its inserter and its
deleter have got; xids and snapshots are `Store`'s matter.

A statement is a function from a table to a table (`insert_rows`, `update_with_txn`,
`remove_with_txn`); the row loop of the engine compares every row with the table as it
was before the statement, so that UPDATE and DELETE are stated for the set of rows a
condition selects, up to the first whose new key is taken. `Query` takes as parameters
what walks a syntax tree: `eval` (`eval_expression`), `where_columns`
(`extract_where_columns`) and `eq_value` (`extract_eq_value`). `Evaluation` has the code's
definitions, which the configuration passes in. `Query` assumes nothing of them.

**Parser.** An operator per method over a record of tokens, position, error and
result. `Written` puts an expression down as a text with the parentheses its levels
need, as the statement of what the precedence should be. The conditions
`Query` runs on are what the parser makes of texts (`StatementsParsed`, an
assumption TLC evaluates). `Session` takes the parser as an operator parameter,
`parse`, which the configuration gives the value `Parsed`.

**LogFile, Catalog.** A crash keeps some number of unsynced frames and may tear
the next; a torn frame reads as incomplete until so many later frames follow that
its length is covered, then as a failed checksum. Each DDL call is one step with
its record, its effect and its automatic checkpoint; `USE` is two, so that with two
sessions a DROP DATABASE may come between its test and its assignment. Replay
translates `replay_record` (CREATE USER does nothing, DROP DATABASE leaves the
tables) and `catalog_decode` (a current database that is not there makes it throw).
The ghost in each
frame is the catalog after its call, and `due` is what the next start owes.

**Allocators, MemoryContexts.** Blocks are indices into a heap that is never
reused, so a pointer to a freed block is seen as such: `fault` for a context
that is touched after its end, `corrupt` for an allocation carved from a freed block,
from where the program may do anything and the properties promise nothing. Sizes are the
code's: 16-byte headers, eleven buckets by powers of two, 8 KB and above external.
The contexts are those of the program: Top, Error, three per engine, and
contexts of `ScopeChildContext`.

## Runs

| run | instance | what it shows |
|---|---|---|
| `LockManager` | 3 callers, 2 targets, 2 handles each, timeouts, fair | `MutualExclusion`; `CountsAgree` (counters = books); `NoLostWakeup` (a sleeper whose lock is free is owed a notification); `ImplementsLockTable`; `AcquireReturns`: no call blocks for ever, even if no holder releases |
| `TransactionManager_calls` | xids 3..5, 2 rows, 1 savepoint | `ActiveAreInProgress`, `CurrentIsActive`, `SsiOnlyActive`, `SnapshotSound`, `OneVerdict`, `SnapshotStable`, `CommitsAreSerial` (transactions commit in the order of their xids, and what commits is the last that was given one) |
| `Store` | 2 rows, 2 values; with a key and 1 row per statement, without one and 2; 2 nested savepoints of one name; 2 xids | `PrimaryKeyUnique`, `NoTrace` (no version of an aborted transaction), `ImplementsRowTable` |
| `Recovery` | 2 rows, 2 xids, a checkpoint every 3 numbers, 1 stop or crash anywhere | `RestartKeepsCommitted`; `CrashKeepsCheckpoint`: committed rows of the checkpoint that recovery reads are there after the first crash |
| `Workers` | 2 threads, overlapping at every call | `UndisturbedCommits` and `UndisturbedLog` (a statement, COMMIT or ROLLBACK that no other request overlapped keeps its promise, whatever overlapping ones left behind), `CommittedStay` (no interleaving takes a committed row back) |
| `SkipList_scans` | 3 keys, 3 nodes, 2 levels, 1 reader | `LevelsAgree`, `ScanRegular`, `WritesAtomic` |
| `Query` | 2 rowids, 3 INSERTs, 3 SET clauses, 4 conditions, 2 executions remembered; the parser's samples | `IndexAgrees` (after every statement, refusal, rollback and vacuum), `AnswersSound`; `ParsesAsWritten`, `StatementsApart`, `NothingIgnored` |
| `Catalog` | 2 sessions, 1 name of each kind, 5 calls, a checkpoint every 3, 2 stops, 1 crash | `CurrentKept` (the current database goes missing only in a USE that a DROP DATABASE overtook), `RestartExact`, `RecoveredIsPrefix` |
| `Memory` | 2 engines, 1 scratch context, 3 allocations, 2 scopes | `LiveDisjoint`, `ChunksHeld`, `TreeAgrees`, `BlocksOwned`, `ReallocKeeps`, `CurrentAlive`, `DanglesByReset` (a context carves from a block of its own, except after one kind of reset) |
| `Store_multirow` (violated) | 2 rows, 3 values, 2 rows per statement | one UPDATE gives two rows the same primary key |
| `Recovery_durable` (violated) | no implicit commits | after a crash, what was committed since the checkpoint is gone |
| `Workers_shared` (violated) | 2 threads | an answered statement is not committed |

The `Query` run checks `SessionSpec`: either a request is read, or statements are run.
The requests are every tree of depth two over seven operators, written down in a
DELETE; two dozen sample statements in pairs, with and without a semicolon; and
statements on rows with one stray token at any place. A parser shares nothing with
the tables, so requests are read in the first state only.
Every step of `SessionSpec` is a step of `Query`'s `Spec` or leaves its variables alone,
so that what is proved of `Spec` holds of what the run checks.

### Bounds

Names of bounds are CONSTANTS and appear in guards. Three callers are the least
with which a notification can go to the wrong one and a reader can join a reader
against a writer; two targets the least with which one handle releases more than
its own. Three xids give an older, a current and a younger transaction; the
emergency stop and the freezing threshold are set low enough to be reached. Two
rows are the least with which one statement clashes with itself. In `Recovery` the
checkpoint interval of 3 makes automatic checkpoints fall inside transactions and
between a record and its put; eight numbers leave room for two transactions and a
replay. In `SkipList` three keys give a predecessor, an erased node and a
survivor, three nodes an erased key that is put again under a reader, two levels a
list that disagrees with the one below in the middle of a write. In `Workers` two
threads are the least that overlap; three xids and two rowids let a request that nobody
overlaps follow two that did, on the context they left.

In `Query` two rowids let one statement clash with itself and an index list two
rows under one text; a history of two is what it takes before a text is planned
from memory, with one failed or one different plan in it; the conditions have an
equality on the key, one on the other column, below OR, below AND beside a NOT. In
`Catalog` two sessions are the least with which a DROP DATABASE overtakes a USE; five
calls with an interval of three put a checkpoint inside them, also while the current
database is gone, and records on both sides of it; one crash tears a frame, and a stop before and after
it starts on the file it left. In `Memory` the sizes 400, 900 and 9000 bytes fall
into two buckets that share small blocks and above the largest bucket; two engines
make the child list of Top change at its head, its middle and its end. A 400-byte and a
9000-byte chunk in a scratch context that is reset are what it takes to leave a dangling
`freeptr`, and a third allocation is carved from it.

`CHECK_DEADLOCK FALSE` stands where the bounds end a behaviour: in the `Recovery`
runs (numbers, starts), in `Query` (rowids and history) and in `Catalog` (calls,
stops, crashes; a failed load is the end there as well).

Seven modules (`Store`, `Recovery`, `Workers`, `SkipList`, `Query`, `Catalog`,
`MemoryContexts`) state their types in a `TypeOK` that no configuration keeps; it
documents the variables, and holds when it is added to the run of its module.

### Fairness

Only `LockManager` needs it: a thread that has been woken runs again, a
thread that has unlocked goes on to its `notify_all`, and a deadline passes
(`Retry`, `Notify`, `TimeOut`, each weakly fair). The operating system and the
clock give that. Nothing is assumed of holders: `Release` is not fair.

## Proofs

The modules named `*_proofs` are checked by TLAPS (SMT, Zenon, and LS4 for the
temporal steps). Their theorems hold for every set of callers, targets, threads,
values and names, and every number of handles, rows, xids, commands and savepoints,
from the assumptions the modules name (finite set of callers; natural bounds; an
emergency stop above the reserved xids). Every inductive invariant was given to TLC
as an invariant of the module's run before it was proved.

* **Lock manager.** The inductive invariant joins the type invariant, `CountsAgree`,
  `MutualExclusion`, and what is known of a blocked caller (it asks for a target it
  does not hold). `NoLostWakeup` is proved from it. Exclusion alone is not
  inductive: `acquire` decides by counters, so that a grant is safe only because
  the counters are the cardinalities of the holders. The proof of `CountsAgree`
  goes through the cardinality of a set with one element added or removed.
  `NoLostWakeup` needs that a holder is awake or notifying when it releases.
  Theorems: `TypeCorrect`, `ExclusionCorrect`, `BooksCorrect`, `WakeupCorrect`,
  `Refinement` (the manager implements `LockTable`).
* **Transaction manager.** The inductive invariant joins the types,
  `ActiveAreInProgress`, `CurrentIsActive`, `UndoHasXid`, `SsiOnlyActive`,
  `SnapshotSound`, that SSI edges run from older to younger xids
  (`EdgesPointForward`), and that the current xid is the last handed out
  (`CurrentIsLast`), from which `CommitsSerial` follows. Theorems: `TypeCorrect`,
  `ActiveCorrect`, `CurrentCorrect`, `UndoCorrect`, `SnapshotCorrect`, `SsiCorrect`,
  `VerdictsFinal`, `SnapshotKept` (`SnapshotStable`), `CommitsSerial`
  (`CommitsAreSerial`), and `PivotUnreachable`: `NoPivot` holds always, that is, the
  Serializable check of `commit_transaction` is dead code. This is no merit of the
  check; what it means is under the weak spots.

* **Store** (`Store_proofs`). `NoTrace` says that no row carries an aborted xid. Why
  it holds is spread over four modules' worth of state, and the inductive invariant
  `TypeOK /\ XidInv /\ BlockInv /\ RowInv` collects it: with one session the only
  active xid is the context's; every xid on a row is committed, frozen or that one
  (`Settled`); and applying the undo list, from its end or from any savepoint, gives
  rows that bear no trace of the open transaction. `BlockInv` says what
  goes with which block state, and that savepoints point into the list, in order. The steps fall into five kinds, each with a lemma that it
  preserves the invariant: the context changes and the rows do not (`ContextStep`),
  the transaction ends (`EndStep`), rows are written and records appended
  (`WriteStep`), records are applied (`RewindStep`), and `Vacuum`. What undo computes
  is reasoned about through `PastAt`: after a position, the first record of a row
  wins. `PastOfPast` and `PastOfMore` follow: records that ROLLBACK TO applied and
  left on the list do no harm when they are applied again, because older ones are
  applied after them.
* **Store implements RowTable** (`Store_proofs`). `Refinement`: under the mapping
  of `Store` (base = rows with the whole list undone, marks = rows with the list
  undone from a savepoint, view = rows without a deleter) every step of every action
  is a step of `RowTable` or a stutter; ROLLBACK and ROLLBACK TO restore exactly what
  BEGIN and SAVEPOINT saw, vacuum and refused statements change nothing a reader
  sees (`InitRefines` for the initial state).
  `PrimaryKeys`: no two visible rows share a key, *if a statement on a keyed table
  reaches at most one row* (`MaxMatched[TRUE] <= 1`). The hypothesis cannot be
  dropped: `Store_multirow` is the counterexample with two. Uniqueness of the current
  rows alone is not inductive, since ROLLBACK brings older rows back; `KeysKept` carries
  it for the base and every mark as well, over the refinement's abstract state.
* **Workers** (`Workers_proofs`), for any number of threads, rows and rows per
  statement. Overlapping requests may leave anything in the shared context: a dropped
  xid, a block nobody opened, rows of a transaction that is gone (`Workers_shared` shows
  where that leads). The inductive invariant separates what no interleaving takes away
  from what only a request that nobody overlaps finds. Of the first kind are `XidInv`
  (active xids are those handed out without a verdict, dropped ones included; the current
  one is the last) and `RowInv` (the undo list names only rows of the current
  transaction): they give `CommittedKept`, no step of any thread takes a committed row
  back. Of the second kind is `Alone(w)`: while `w` is the only thread in a request, the
  transaction it began is the current one and the verdict it has logged is the one it
  gives. A thread enters that state from whatever the others left (`AloneBegins`), since
  `start_transaction_command` begins anew unless a block is open, and leaves it when
  another request starts (`AloneGoesOn`, `AloneEnds`). `CommitsCorrect` and `LogCorrect`
  prove `UndisturbedCommits` and `UndisturbedLog`, which speak of the time after the
  request as well: a settled xid is never logged again (`SettledInv`).
* **Skip list** (`SkipList_proofs`), for any number of keys, levels,
  nodes and readers. The inductive invariant `TypeOK /\ ListInv /\ WriterInv /\
  ReaderInv` was checked by TLC on the instance of `SkipList_scans`.
  *The list:* each level is, between any two stores and not only between
  writes, a sorted list of nodes tall enough for it (`Sorted`), and whatever node has
  ever been linked still points to a linked node with a greater key (`Ascending`),
  also after it was bypassed. *The writer:* the levels below `writer.i` are as its
  operation leaves them, the others as it found them, and each `update[i]` still to be
  used is the last node before the key (`InstallInv`, `BypassInv`): the search was made
  before the first store, so it has to stay true through the stores that follow.
  *The readers:* a scan may stand on a node that is out of the list for good.
  `Covered` says why it is right all the same: from there it can still reach every node
  of a key that has been present all through the scan and has not been collected, and
  every pair in its range ahead of it was stored at some moment of the scan.
  `ScansKept` reduces the three kinds of writer's stores to what they do to the nodes in
  reach: linking adds the new node only (`ReachInstalled`), bypassing takes out only
  the erased range (`ReachShrinks`, `ReachKept`), assigning a value changes a node that is
  in the list. Theorems: `TypeCorrect`, `LevelsCorrect`, `ScansRegular`, `WritesOneStep`.
  The lemmas on walks start from the recursive functions of the model: that they have the
  values of their equations is shown by giving a solution, the least set of places
  closed under the pointers (`WalkedStep`, `StopStep`), and on a sorted list that set is
  the nodes behind (`ListWalk`, by the node with the greatest key where it fails).
* **Catalog** (`Catalog_proofs`), for any number of sessions, any names, any checkpoint
  interval and any number of calls and stops. The assumption `CatalogAssumption` is that
  `defaultdb` is not among the databases that can be dropped, as `drop_database` has it
  (`catalog.cpp:182`). The inductive invariant `TypeInv /\ FirstCrashInv` was checked by
  TLC on the instance of `Catalog`. `TypeInv` gives `TypeCorrect`.
  *The current database* (`CurrentCorrect`, any number of crashes): USE tests and assigns
  in two steps that no lock joins, so that the current database can be dropped. The
  theorem says that there is no other way: DROP DATABASE resets a current database it
  drops, replay keeps the current database from record to record (`ReplayKeeps`), a
  load of a checkpoint whose current database is not there throws, and only the
  assignment of a USE whose database was dropped meanwhile leaves one dangling.
  The two theorems below have `Loadable` as their premise, that the checkpoint was not
  written while the current database was dangling: otherwise `load` throws, and the
  server does not come up.
  *A stop and a start* (`RestartCorrect`): before any crash no frame has a number above
  `wal_seq`, so a checkpoint empties the log (`ReplayNothing`).
  *The first crash* (`RecoveryCorrect`): the frames are numbered on from the checkpoint
  and each is `Linked` to the catalog before it, so that replaying it on a catalog with
  more tables and fewer users (`Follows`) gives such a catalog again (`ReplayFollows`);
  of the file the crash leaves, replay returns exactly the whole frames
  (`ReplayPrefix`). The theorem says `crashes <= 1`: after a second crash the property
  fails, as noted below.

* **Query** (`Query_proofs`), for any columns and keys, statements, conditions, number of
  rows, and any `eval`, `where_columns` and `eq_value`. The
  inductive invariant is `TableOK /\ PlanOK /\ AnswersSound`; TLC checked it on the
  instance of the run `Query`.
  *The indexes* (`IndexesCorrect`): no call keeps them up to date as a whole. INSERT adds
  an entry, DELETE none, UPDATE rebuilds if it sets an indexed column, undo always, vacuum
  if a row has gone. So the invariant is carried from table to table (`Kept`) through the
  calls of one statement, and through the rows of an INSERT up to the first refused one
  (`InsertRowsKept`). It needs that rowids not yet handed out are free (`Free`): an entry
  is added for the new row and none taken away for an old one. Rows written but not
  indexed again keep their texts (`SameTexts`).
  `TypeCorrect` says besides that a column only holds what `coerce` or a SET literal
  gives it.
  *The answers* (`AnswersCorrect`): a pipeline's source yields visible rows and its filter
  those the clause accepts (`Answer`); only a statement without WHERE has no filter, and
  that is never planned by index (`Chosen`). A plan from memory is a scan whatever the
  dangling pointer reads, as signatures name kinds of steps and never an index
  (`PlansScan`).

* **Recovery** (`Recovery_proofs`), for any number of rows, xids, sequence numbers and
  stops, any checkpoint interval, implicit commits or not, and every crash point. The
  inductive invariant is `TypeInv /\ (crashes = 0 => LogInv /\ RowInv)`; TLC checked it
  on the instance of the run `Recovery` and with two and three stops and crashes.
  `TypeInv` alone carries `TypeCorrect` through any number of crashes: replay of any part
  of any log over any checkpoint gives a memory with its types.
  *The rows* (`RowInv`, in terms of memory only): a version belongs to the open
  transaction or to ended ones (`VersionInv`); the first undo record of a row holds the
  version from before the transaction (`UndoInv`), and what the clients were told is the
  rows without an undo record and those old versions (`AckInv`). It gives
  `SeesCommitted`: undo, checkpoints and starts neither lose a committed row nor bring one
  back. `apply_undo` runs from the last record to the first, so that of each row the first
  record wins (`ApplyUndoIs`).
  *A stop*: `close` checkpoints, which empties the log as long as no number in it is above
  `wal_seq_` (`NothingKept`), so that a start is `FromCheckpoint` alone; the open
  transaction is aborted by `rebuild_active_from_clog`, and `RestartKeeps` compares what
  is then seen with `AckInv`, row by row. An unfinished UPDATE is the one case it cannot cover.
  *The first crash* (`LogInv`): each record in the log is of a transaction that was not
  committed in the checkpoint, and a commit record comes after all others of its
  transaction (`RecordInv`). Hence every record is `Harmless` when its turn comes:
  `replay_record` applies a change only if the log read so far says committed, which no
  log says of a change before its own commit record. `ReplayKeeps` follows that through
  any prefix of the file, over the old or the new checkpoint or none. So
  `CrashCorrect` holds, and `ReplayPutsNothing` states the price: recovery never puts a
  row from the log, which is why `Recovery_durable` is violated.
  Both theorems on crashes and stops say `crashes = 0`: `load` leaves numbers and xids behind that
  are used again, so that none of `LogInv` holds after a crash.

On the form of the proofs: the library's induction theorems cannot be used here
(they take an operator as a parameter). Where an induction is unavoidable, a set of
natural numbers is formed and its least member taken (`FirstExists`, `OrderExists`,
from the well-foundedness of the naturals), which replaces induction by a minimal
counterexample.

Only model-checked: liveness (`AcquireReturns`), which this prover does not reach;
`Parser` and `MemoryContexts`, which use recursive operators and are out of its
reach for that reason; and `Session`, which builds on `Parser`.
`UndoHasXid`, `SeesCommitted` and `ReplayPutsNothing` are the other way round: they are
proved for every instance, from the inductive invariants, and no run repeats them.

## Weak spots met while modelling

The three violated runs are recorded as findings. Others, seen in the code or in
earlier explorations with these modules, are kept in prose:

* Serializable is not checked. `README.md:10` and `:44` promise detection of 2-cycles
  and pivots, `transaction.h:80` and `:209` say that `commit_transaction` throws, and
  `transaction.cpp:460-466` has the test. It never fires: with one context every edge
  runs from an older xid to a younger one, so that no two xids have edges both ways. `PivotUnreachable` proves
  that for every instance: the refusal the documents promise cannot happen. The
  tests named for it (`tests/test_transaction_manager.cpp:452`, `:525`) check that there
  is no pivot and that the commit does not throw. What is
  serial rests on the single context alone (`CommitsAreSerial`).
* Two requests that overlap share the transaction: an answered statement need not be
  committed (`Workers_shared`), the log may get a verdict the commit log does not have,
  and the xid of a transaction that another's `reset_context` drops stays IN_PROGRESS
  until freezing or a restart aborts it, with its rows left in the table.
* `update_with_txn` (`engine.cpp:716`) erases the old version; a clean stop with an
  UPDATE unfinished saves only the new one, and load aborts its xid: the row is
  gone. `RestartKeepsCommitted` therefore leaves unfinished updates out.
* `vacuum` (`engine.cpp:918-919`) reclaims a deleted row only if its xmin is
  COMMITTED in the log; a row frozen earlier has xmin 2, which reads IN_PROGRESS.
* `commit_transaction` (`transaction.cpp:451-460`) of a transaction without an xid
  keeps its savepoints.
* `CheckpointManager::save` (`checkpoint.cpp:213`) rewrites the only checkpoint file
  in place: a crash in the middle leaves none. `CrashKeepsCheckpoint` speaks of the
  checkpoint that recovery reads.
* `checkpoint` (`engine.cpp:1321`) sets `wal_seq_` below numbers puts already have,
  and replay (`engine.cpp:1152-1157`) does not move `next_xid_`: after a second crash
  a record of a reused xid may be replayed over a checkpoint younger than it.

Indexes, planner and executor (`Query`):

* The planner hands `index_lookup` a value that is rendered text already
  (`planner.cpp:101`), and the engine renders it again (`engine.cpp:1001-1042`), so a
  SELECT by an indexed column finds nothing until history picks a full scan.
  `tests/test_functional.cpp:482` tests "CREATE INDEX does not affect query
  correctness" with a condition the index does not serve. To see it, add the
  invariant `SelectAnswers` to `Query.cfg`; `AnswersSound` asks only that nothing
  wrong is returned and that scans and remembered plans are exact.
* `get_best_strategy` returns a pointer into a local map (`memory.cpp:154`).
* An UPDATE of several rows that sets the key and another indexed column (or
  columns of a composite key) can be refused after it has written some rows; it
  throws before the indexes are rebuilt (`engine.cpp:694`, `:724`), and outside a
  block the server commits after it. `IndexAgrees` leaves out
  the time from there to the next rebuild (`behind`); without that it fails.
* A multi-row INSERT keeps the rows before a refused one; UPDATE applies only SETs
  to literals and does not coerce them; SORT, LIMIT and AGGREGATE stages are never
  planned.

Parser (`Parser`):

* `NOT NULL` in CREATE TABLE never parses: `NOT` is a keyword and the code looks for
  an identifier (`parser.cpp:606-640`). A table-level `PRIMARY KEY (c)` is skipped
  without a word (`:248`), unknown column modifiers are swallowed, `VARCHAR(n)` is
  refused.
* INSERT keeps only literals of its values: an expression or a negative number
  becomes NULL or is refused. ORDER BY takes any token and is forgotten, as is LIMIT.
* Statements need no semicolon between them; NOT binds tighter than a comparison.

Catalog and log (`Catalog`, `LogFile`):

* Replay of DROP DATABASE leaves the tables (`engine.cpp:1107`), replay of CREATE USER
  does nothing. `RecoveredIsPrefix` is stated accordingly.
* `load` sets `wal_seq_` back to the checkpoint (`engine.cpp:123`) and replaying DDL does
  not advance it, so numbers are used twice; a later `truncate` keeps records it
  should drop, and the next start replays them. After a crash a clean stop and
  start therefore need not keep the catalog: `RestartKeepsCatalog` fails where
  `RestartExact` (no crash so far) holds. `engine.cpp:1314` and
  `tests/test_storage_engine.cpp:602` describe the intended behaviour.
* Records appended behind a torn frame are lost at the next crash
  (`wal_v3.cpp:322`): with `MaxCrashes = 2`, `RecoveredIsPrefix` fails.
* `USE` checks and assigns without the lock of DROP DATABASE (`catalog.cpp:290`): the
  current database may be one that is gone. A checkpoint written then makes every later
  `load` throw, and the server never comes up; `RestartExact` and `RecoveredIsPrefix`
  have `Loadable` as their premise, without which they fail.

Memory contexts (`Allocators`, `MemoryContexts`):

* A `Bump` object larger than a block gets a block whose `freeptr` stays at its start
  (`bump.cpp:139-141`): the next small object is placed over it. With
  `BumpSizes = {400, 5000}`, `LiveDisjoint` fails. `Bump`'s realloc copies the new
  size, and its reset leaks the block it keeps.
* realloc of a chunk with a block of its own copies nothing (`allocset.cpp:345`);
  `ReallocKeeps` exempts it.
* `AllocSetReset` (`allocset.cpp:295`) keeps the head block and leaves `freeptr` as it
  is. In a context whose head block is a large chunk's own, that is a pointer to a freed
  block, and the next small allocation is carved from it (`corrupt`). The model has this;
  `DanglesByReset` says that nothing else leaves a context such a pointer. `LiveDisjoint`
  and `ChunksHeld` promise nothing after an allocation has used it. The server's only
  scope (`engine.cpp:1438`) does not reset; scopes that do are in the tests.
* `MemoryContextLinkChild` (`memcontext.cpp:51-65`) makes the child list a ring once
  there are two; `MemoryContextResetChildren` would walk it for ever. No caller of
  the program has two children there.
* Arenas take their blocks from the top context without a common lock
  (`allocset.cpp:161`), and `~Arena` gives back nothing (`arena.cpp:47`).

## Not modelled, and plan

Left out for good: the lexer, the natural-language parser, supervisor rules,
configuration, JSON and the byte layout of rows and payloads (pure functions of
text or bytes, or I/O); `LWLock` and `Spinlock`, which no code of the program uses.
Of modelled parts: the non-transactional `insert`, `update` and `remove` of the engine
and several tables at once; `learn_patterns` and the file of the workload memory; cost
estimates; reset callbacks and statistics of memory contexts; the arena, whose nodes
`SkipList` assumes to be never reused.

Planned:

1. The order in which engine calls take catalog, table and log locks: vacuum and DDL
   beside DML (`engine.cpp:873`).
2. Accesses inside one transaction-manager call from several threads
   (`transaction.cpp:166`).
3. The search for the next magic number inside a payload (`wal_v3.cpp:322`).
