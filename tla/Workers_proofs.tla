--------------------------- MODULE Workers_proofs ---------------------------
(***************************************************************************)
(* Proofs about Workers, for any number of worker threads, of rows and of  *)
(* rows per statement, and any bounds.                                     *)
(*                                                                         *)
(* Threads that overlap may leave anything in the context: a dropped xid,  *)
(* a block nobody opened, rows of a transaction that is gone.  What no     *)
(* interleaving takes away is in XidInv and RowInv: the current xid is the *)
(* last one handed out, and the undo list names only its rows.  A request  *)
(* that nobody overlaps finds its calls as it left them (Alone), so that   *)
(* it ends the transaction it began, under the verdict it has logged.      *)
(***************************************************************************)
EXTENDS Workers, SequenceTheorems, WellFoundedInduction, TLAPS

-----------------------------------------------------------------------------
(* The inductive invariant.                                                *)

\* The active xids are those handed out that have no verdict, dropped ones
\* included, and the current one is the last handed out.
XidInv ==
    /\ active_xids = {x \in TM!Xid : x < next_xid /\ clog[x] = "IN_PROGRESS"}
    /\ \A x \in TM!Xid : x >= next_xid => clog[x] = "IN_PROGRESS"
    /\ ctx.xid # NoXid => next_xid = ctx.xid + 1 /\ clog[ctx.xid] = "IN_PROGRESS"
    /\ ctx.undo_records # <<>> => ctx.xid # NoXid

\* A rollback erases rows of the current transaction only, and a rowid that
\* is still to come has no row.
RowInv ==
    /\ \A i \in 1 .. Len(ctx.undo_records) :
         /\ ctx.undo_records[i] \in 1 .. row_ids
         /\ data[ctx.undo_records[i]] \in {ctx.xid, NoXid}
    /\ \A k \in RowIds : k > row_ids => data[k] = NoXid

\* No COMMIT or ROLLBACK is about to log a verdict of a settled xid.
SettledInv ==
    \A w \in Threads : worker[w].pc = "log" => worker[w].xid \notin settled

Waiting(w) == worker[w].pc = "idle" => worker[w] = Idle

\* A statement nobody overlaps, if it began a transaction: the transaction is
\* still the current one, and the rows are its.
Stating(w) ==
    w \in Running /\ worker[w].own =>
        /\ ctx.block_state = "STARTED"
        /\ \A k \in worker[w].rows : ctx.xid # NoXid /\ data[k] = ctx.xid

\* A COMMIT or ROLLBACK nobody overlaps logs and ends the current transaction.
Ending(w) ==
    /\ worker[w].pc \in {"log", "undo", "finish"} => worker[w].xid = ctx.xid
    /\ worker[w].pc \in {"undo", "finish"} /\ worker[w].xid # NoXid =>
         logged[worker[w].xid] = worker[w].verdict
    /\ worker[w].pc = "reset" /\ worker[w].xid # NoXid =>
         /\ logged[worker[w].xid] = clog[worker[w].xid]
         /\ clog[worker[w].xid] # "IN_PROGRESS"

Alone(w) ==
    /\ worker[w].pc # "idle"
    /\ \A v \in Threads \ {w} : worker[v].pc = "idle"
    /\ Stating(w) /\ Ending(w)

IInv ==
    /\ TypeOK /\ XidInv /\ RowInv /\ SettledInv
    /\ UndisturbedCommits /\ UndisturbedLog
    /\ \A w \in Threads : Waiting(w)
    /\ \A w \in alone : Alone(w)

LEMMA Fields ==
    ASSUME TypeOK
    PROVE  /\ next_xid \in Nat /\ next_xid >= 3 /\ next_xid <= XIDEmergencyStop
           /\ TM!Xid = 3 .. XIDEmergencyStop - 1
           /\ XIDEmergencyStop \in Nat /\ MaxRowId \in Nat
           /\ clog \in [TM!Xid -> TM!Status]
           /\ ctx \in TM!TransactionContext
           /\ ctx.xid \in TM!Xid \cup {NoXid}
           /\ ctx.block_state \in TM!BlockState
           /\ ctx.command_id \in Nat
           /\ ctx.undo_records \in Seq(RowIds)
           /\ data \in [RowIds -> TM!Xid \cup {NoXid}]
           /\ row_ids \in Nat /\ row_ids <= MaxRowId
           /\ logged \in [TM!Xid -> {"none", "COMMITTED", "ABORTED"}]
           /\ worker \in [Threads -> Worker]
           /\ promised \in SUBSET RowIds /\ undisturbed \in SUBSET RowIds
           /\ alone \in SUBSET Threads /\ settled \in SUBSET TM!Xid
           /\ active_xids \in SUBSET TM!Xid
<1>1. ctx \in TM!TransactionContext /\ next_xid \in 3 .. XIDEmergencyStop
  BY DEF TypeOK, TM!TypeOK, TM!FirstNormalXid
<1>2. XIDEmergencyStop \in Nat /\ MaxRowId \in Nat
  BY WorkersAssumption DEF WorkersAssumption
<1>3. next_xid \in Nat /\ next_xid >= 3 /\ next_xid <= XIDEmergencyStop
  BY <1>1, <1>2
<1>4. row_ids \in Nat /\ row_ids <= MaxRowId
  BY <1>2 DEF TypeOK
<1>5. QED
  BY <1>1, <1>2, <1>3, <1>4
     DEF TypeOK, TM!TypeOK, TM!Xid, TM!FirstNormalXid, TM!TransactionContext,
         TM!InvalidXid, NoXid

LEMMA WorkerFields ==
    ASSUME TypeOK, NEW w \in Threads
    PROVE  /\ worker[w] \in Worker
           /\ worker[w].pc \in Place /\ worker[w].verdict \in {"COMMITTED", "ABORTED"}
           /\ worker[w].xid \in TM!Xid \cup {NoXid} /\ worker[w].rows \in SUBSET RowIds
           /\ worker[w].own \in BOOLEAN
  BY Fields DEF Worker

LEMMA ContextType ==
    ASSUME TypeOK
    PROVE  /\ TM!NoSnapshot \in TM!Snapshot
           /\ <<>> \in Seq(RowIds) /\ <<>> \in Seq(TM!Savepoint) /\ 0 \in Nat
  BY DEF TM!NoSnapshot, TM!Snapshot

\* The vacuum horizon lies at or below every active xid, so that freezing finds
\* no zombie: a dropped xid stays active.
LEMMA Horizon ==
    ASSUME TypeOK, XidInv
    PROVE  TM!Frozen(clog) = clog
<1>1. active_xids \in SUBSET Nat /\ next_xid \in Nat
  BY Fields
<1>2. ASSUME active_xids # {}
      PROVE  /\ TM!Oldest(active_xids) \in active_xids
             /\ \A y \in active_xids : TM!Oldest(active_xids) <= y
  <2> DEFINE Less == {p \in Nat \X Nat : p[1] < p[2]}
  <2>1. IsWellFoundedOn(Less, Nat)
    BY NatLessThanWellFounded, Zenon DEF OpToRel
  <2>2. PICK x \in active_xids : \A y \in active_xids : <<y, x>> \notin Less
    <3> HIDE DEF Less
    <3>1. QED
      BY <1>1, <1>2, <2>1, WFMin
  <2>3. ASSUME NEW y \in active_xids
        PROVE  x <= y
    <3>1. x \in Nat /\ y \in Nat
      BY <1>1
    <3>2. y < x => <<y, x>> \in Less
      BY <3>1
    <3>3. QED
      BY <2>2, <3>1, <3>2
  <2>4. QED
    BY <2>3 DEF TM!Oldest
<1>3. /\ TM!OldestActiveXid \in Nat
      /\ \A y \in active_xids : TM!OldestActiveXid <= y
      /\ TM!OldestActiveXid <= next_xid
  <2>1. CASE active_xids = {}
    BY <1>1, <2>1 DEF TM!OldestActiveXid
  <2>2. CASE active_xids # {}
    <3>1. TM!OldestActiveXid = TM!Oldest(active_xids)
      BY <2>2 DEF TM!OldestActiveXid
    <3>2. \A y \in active_xids : y < next_xid
      BY DEF XidInv
    <3>3. /\ TM!Oldest(active_xids) \in active_xids
          /\ \A y \in active_xids : TM!Oldest(active_xids) <= y
      BY <1>2, <2>2
    <3>4. TM!Oldest(active_xids) \in Nat /\ TM!Oldest(active_xids) < next_xid
      BY <1>1, <3>2, <3>3
    <3>5. TM!Oldest(active_xids) <= next_xid
      BY <1>1, <3>4
    <3>6. QED
      BY <3>1, <3>3, <3>4, <3>5
  <2>3. QED
    BY <2>1, <2>2
<1>4. ASSUME NEW x \in TM!Xid, x < TM!OldestActiveXid
      PROVE  clog[x] # "IN_PROGRESS"
  <2>1. x \in Nat
    BY Fields
  <2>2. x < next_xid /\ x \notin active_xids
    BY <1>1, <1>3, <1>4, <2>1
  <2>3. QED
    BY <2>2 DEF XidInv
<1>5. QED
  BY <1>4, Fields DEF TM!Frozen

-----------------------------------------------------------------------------
(* What the calls do to the manager.                                       *)

\* No verdict changes.
Final == \A x \in TM!Xid : clog[x] # "IN_PROGRESS" => clog'[x] = clog[x]

\* The context keeps its transaction, or is left with none.
KeepsXid == ctx'.xid = ctx.xid /\ ctx'.undo_records = ctx.undo_records
DropsXid == ctx'.xid = NoXid /\ ctx'.undo_records = <<>>

\* A call that changes nothing but the context.
LEMMA ContextCalls ==
    ASSUME TypeOK, XidInv, ctx' \in TM!TransactionContext,
           UNCHANGED <<next_xid, clog, active_xids, siread_map, in_conflict>>,
           KeepsXid \/ DropsXid
    PROVE  TM!TypeOK' /\ XidInv' /\ Final
<1>1. TM!TypeOK'
  BY DEF TypeOK, TM!TypeOK
<1>2. QED
  BY <1>1 DEF XidInv, Final, KeepsXid, DropsXid

\* A call that ends the current transaction, if there is one.
LEMMA EndCalls ==
    ASSUME TypeOK, XidInv, NEW verdict \in {"COMMITTED", "ABORTED"},
           TM!Finish(verdict), ctx' \in TM!TransactionContext, DropsXid
    PROVE  /\ TM!TypeOK' /\ XidInv' /\ Final
           /\ ctx.xid # NoXid => clog'[ctx.xid] = verdict
<1>1. CASE ctx.xid = NoXid
  <2>1. UNCHANGED <<next_xid, clog, active_xids, siread_map, in_conflict>>
    BY <1>1 DEF TM!Finish, TM!InvalidXid, NoXid
  <2>2. QED
    BY <1>1, <2>1, ContextCalls
<1>2. CASE ctx.xid # NoXid
  <2>1. /\ clog' = [clog EXCEPT ![ctx.xid] = verdict]
        /\ active_xids' = active_xids \ {ctx.xid}
        /\ TM!Cleanup(ctx.xid) /\ next_xid' = next_xid
    BY <1>2 DEF TM!Finish, TM!InvalidXid, NoXid
  <2>2. ctx.xid \in TM!Xid /\ verdict \in TM!Status
    BY <1>2, Fields DEF TM!Status
  <2>3. /\ siread_map' \in [{} -> SUBSET TM!Xid]
        /\ in_conflict' \in [TM!Xid -> SUBSET TM!Xid]
    BY <2>1, <2>2 DEF TypeOK, TM!TypeOK, TM!Cleanup
  <2>4. clog' \in [TM!Xid -> TM!Status]
    BY <2>1, <2>2, Fields
  <2>5. TM!TypeOK'
    BY <2>1, <2>3, <2>4 DEF TypeOK, TM!TypeOK
  <2>6. \A x \in TM!Xid : clog'[x] = IF x = ctx.xid THEN verdict ELSE clog[x]
    BY <2>1, <2>2, Fields
  <2>7. XidInv'
    <3>1. active_xids' = {x \in TM!Xid : x < next_xid /\ clog'[x] = "IN_PROGRESS"}
      BY <2>1, <2>6 DEF XidInv
    <3>2. ctx.xid < next_xid /\ ctx.xid \in Nat
      BY <1>2, <2>2, Fields DEF XidInv
    <3>3. \A x \in TM!Xid : x >= next_xid => clog'[x] = "IN_PROGRESS"
      BY <2>6, <3>2, Fields DEF XidInv
    <3>4. QED
      BY <2>1, <3>1, <3>3 DEF XidInv, DropsXid
  <2>8. QED
    BY <1>2, <2>2, <2>5, <2>6, <2>7 DEF XidInv, Final
<1>3. QED
  BY <1>1, <1>2

\* insert_with_txn, as far as the manager is concerned.
LEMMA WriteCalls ==
    ASSUME TypeOK, XidInv, NEW recs \in Seq(RowIds), TM!Write(recs, {}, {})
    PROVE  /\ TM!TypeOK' /\ XidInv' /\ Final
           /\ TM!WriterXid \in TM!Xid /\ ctx'.xid = TM!WriterXid
           /\ ctx.xid # NoXid => ctx'.xid = ctx.xid
           /\ ctx'.undo_records = ctx.undo_records \o recs
           /\ ctx'.block_state = ctx.block_state
<1>1. /\ TM!WriterXid \in TM!Xid
      /\ next_xid' \in 3 .. XIDEmergencyStop
      /\ clog' = [clog EXCEPT ![TM!WriterXid] = "IN_PROGRESS"]
      /\ active_xids' = active_xids \cup {TM!WriterXid}
      /\ next_xid' = TM!WriterXid + 1 /\ next_xid' >= next_xid
      /\ clog[TM!WriterXid] = "IN_PROGRESS"
      /\ \A x \in TM!Xid : x < next_xid' <=> x < next_xid \/ x = TM!WriterXid
      /\ ctx.xid # NoXid => TM!WriterXid = ctx.xid
  <2>0. TM!Assigned
    BY DEF TM!Write
  <2>1. CASE ctx.xid = NoXid
    <3>1. /\ next_xid < XIDEmergencyStop /\ next_xid' = next_xid + 1
          /\ active_xids' = active_xids \cup {next_xid}
          /\ clog' = [clog EXCEPT ![next_xid] = "IN_PROGRESS"]
      BY <2>0, <2>1, Horizon DEF TM!Assigned, TM!InvalidXid, NoXid, TM!MayAllocate
    <3>2. TM!WriterXid = next_xid
      BY <2>1 DEF TM!WriterXid, TM!InvalidXid, NoXid
    <3>3. next_xid \in TM!Xid /\ next_xid' \in 3 .. XIDEmergencyStop
      BY <3>1, Fields
    <3>4. clog[next_xid] = "IN_PROGRESS"
      BY <3>3, Fields DEF XidInv
    <3>5. \A x \in TM!Xid : x < next_xid' <=> x < next_xid \/ x = next_xid
      BY <3>1, Fields
    <3>6. next_xid' >= next_xid
      BY <3>1, Fields
    <3>7. QED
      BY <2>1, <3>1, <3>2, <3>3, <3>4, <3>5, <3>6
  <2>2. CASE ctx.xid # NoXid
    <3>1. /\ TM!WriterXid = ctx.xid /\ ctx.xid \in TM!Xid
          /\ UNCHANGED <<next_xid, active_xids, clog>>
      BY <2>0, <2>2, Fields DEF TM!WriterXid, TM!InvalidXid, NoXid, TM!Assigned
    <3>2. next_xid = ctx.xid + 1 /\ clog[ctx.xid] = "IN_PROGRESS"
      BY <2>2 DEF XidInv
    <3>3. clog' = [clog EXCEPT ![ctx.xid] = "IN_PROGRESS"]
      BY <3>1, <3>2, Fields
    <3>4. ctx.xid < next_xid /\ next_xid' \in 3 .. XIDEmergencyStop /\ next_xid' >= next_xid
      BY <3>1, <3>2, Fields
    <3>5. active_xids' = active_xids \cup {ctx.xid}
      BY <3>1, <3>2, <3>4 DEF XidInv
    <3>6. QED
      BY <3>1, <3>2, <3>3, <3>4, <3>5
  <2>3. QED
    BY <2>1, <2>2
<1>2. ctx' = [ctx EXCEPT !.xid = TM!WriterXid, !.undo_records = ctx.undo_records \o recs]
  BY DEF TM!Write
<1>3. ctx.undo_records \o recs \in Seq(RowIds)
  BY Fields, ConcatProperties
<1>4. /\ ctx' \in TM!TransactionContext /\ ctx'.xid = TM!WriterXid
      /\ ctx'.undo_records = ctx.undo_records \o recs
      /\ ctx'.block_state = ctx.block_state
  BY <1>1, <1>2, <1>3, Fields DEF TM!TransactionContext
<1>5. /\ siread_map' \in [{} -> SUBSET TM!Xid]
      /\ in_conflict' \in [TM!Xid -> SUBSET TM!Xid]
  BY <1>1 DEF TypeOK, TM!TypeOK, TM!Write, TM!Sireads, TM!Conflicts
<1>6. clog' \in [TM!Xid -> TM!Status] /\ active_xids' \in SUBSET TM!Xid
  BY <1>1, Fields DEF TM!Status
<1>7. TM!TypeOK'
  BY <1>1, <1>4, <1>5, <1>6 DEF TM!TypeOK, TM!FirstNormalXid
<1>8. \A x \in TM!Xid : clog'[x] = IF x = TM!WriterXid THEN "IN_PROGRESS" ELSE clog[x]
  BY <1>1, Fields
<1>9. XidInv'
  <2>1. active_xids' = {x \in TM!Xid : x < next_xid' /\ clog'[x] = "IN_PROGRESS"}
    <3>1. active_xids = {x \in TM!Xid : x < next_xid /\ clog[x] = "IN_PROGRESS"}
      BY DEF XidInv
    <3>2. QED
      BY <1>1, <1>8, <3>1
  <2>2. \A x \in TM!Xid : x >= next_xid' => clog'[x] = "IN_PROGRESS"
    <3>1. \A x \in TM!Xid : x >= next_xid' => x >= next_xid
      BY <1>1, Fields
    <3>2. QED
      BY <1>8, <3>1 DEF XidInv
  <2>3. TM!WriterXid # NoXid /\ clog'[TM!WriterXid] = "IN_PROGRESS"
    BY <1>1, <1>8, Fields DEF NoXid
  <2>4. QED
    BY <1>1, <1>4, <2>1, <2>2, <2>3 DEF XidInv
<1>10. QED
  BY <1>1, <1>4, <1>7, <1>8, <1>9 DEF Final

-----------------------------------------------------------------------------
(* What a step leaves of each part of the invariant.                       *)

\* Committed rows stay.
Kept == \A k \in RowIds : HoldsCommitted(k) => HoldsCommitted(k)'

LEMMA RowKept ==
    ASSUME TypeOK, TypeOK', Final, NEW k \in RowIds, HoldsCommitted(k), data'[k] = data[k]
    PROVE  HoldsCommitted(k)'
<1>1. data[k] \in TM!Xid /\ clog[data[k]] = "COMMITTED" /\ data[k] # NoXid
  BY Fields DEF HoldsCommitted, StatusIn
<1>2. clog'[data[k]] = "COMMITTED" /\ clog' \in [TM!Xid -> TM!Status]
  BY <1>1 DEF Final, TypeOK, TM!TypeOK
<1>3. QED
  BY <1>1, <1>2 DEF HoldsCommitted, StatusIn

LEMMA UndoList ==
    ASSUME RowInv, UNCHANGED <<data, row_ids>>, KeepsXid \/ DropsXid
    PROVE  RowInv'
<1>1. CASE KeepsXid
  BY <1>1 DEF RowInv, KeepsXid
<1>2. CASE DropsXid
  BY <1>2 DEF RowInv, DropsXid
<1>3. QED
  BY <1>1, <1>2

LEMMA LogKept ==
    ASSUME TypeOK, UndisturbedLog, Final, settled' = settled,
           \A x \in settled : logged'[x] = logged[x]
    PROVE  UndisturbedLog'
  BY Fields DEF UndisturbedLog, Final

\* One thread moves.
LEMMA OneMoves ==
    ASSUME IInv, NEW w \in Threads, worker' = [worker EXCEPT ![w] = worker'[w]],
           worker'[w] \in Worker, worker'[w].pc = "idle" => worker'[w] = Idle,
           settled' = settled,
           worker'[w].pc = "log" => worker'[w].xid \notin settled
    PROVE  /\ worker' \in [Threads -> Worker]
           /\ \A v \in Threads : Waiting(v)'
           /\ SettledInv'
<1>1. /\ worker' \in [Threads -> Worker]
      /\ \A v \in Threads : v # w => worker'[v] = worker[v]
  BY Fields DEF IInv
<1>2. \A v \in Threads : Waiting(v)'
  BY <1>1 DEF IInv, Waiting
<1>3. SettledInv'
  BY <1>1 DEF IInv, SettledInv
<1>4. QED
  BY <1>1, <1>2, <1>3

\* A thread within a request moves: any other has been overlapped.
LEMMA AloneGoesOn ==
    ASSUME IInv, NEW w \in Threads, worker' = [worker EXCEPT ![w] = worker'[w]],
           worker[w].pc # "idle", worker'[w].pc # "idle", alone' = alone,
           w \in alone => Stating(w)' /\ Ending(w)'
    PROVE  \A u \in alone' : Alone(u)'
<1> SUFFICES ASSUME NEW u \in alone
             PROVE  Alone(u)'
  OBVIOUS
<1>1. u \in Threads /\ Alone(u)
  BY Fields DEF IInv
<1>2. u = w
  BY <1>1 DEF Alone
<1>3. \A v \in Threads \ {w} : worker'[v] = worker[v]
  BY Fields DEF IInv
<1>4. QED
  BY <1>1, <1>2, <1>3 DEF Alone

\* A request begins: it is alone, or nobody is.
LEMMA AloneBegins ==
    ASSUME IInv, NEW w \in Threads, worker' = [worker EXCEPT ![w] = worker'[w]],
           worker'[w].pc # "idle", RequestBegins(w),
           w \in alone' => Stating(w)' /\ Ending(w)'
    PROVE  (\A u \in alone' : Alone(u)') /\ alone' \in SUBSET Threads
<1>1. /\ alone' \subseteq {w}
      /\ w \in alone' => \A u \in Threads \ {w} : worker[u].pc = "idle"
  BY DEF RequestBegins
<1>2. \A v \in Threads \ {w} : worker'[v] = worker[v]
  BY Fields DEF IInv
<1>3. QED
  BY <1>1, <1>2 DEF Alone

\* A request ends: now nobody is alone.
LEMMA AloneEnds ==
    ASSUME IInv, NEW w \in Threads, worker[w].pc # "idle", RequestEnds(w)
    PROVE  alone' = {}
  BY Fields DEF IInv, Alone, RequestEnds

-----------------------------------------------------------------------------
(* The actions.                                                            *)

\* What START and BEGIN make of a context without a block: a transaction that
\* is still there is dropped.
LEMMA StartedContext ==
    ASSUME IInv, NEW state \in {"STARTED", "BEGIN"}, ctx' = TM!Started(state)
    PROVE  ctx' \in TM!TransactionContext /\ DropsXid /\ ctx'.block_state = state
<1>1. ctx' = [ctx EXCEPT !.xid = 0, !.command_id = 0, !.undo_records = <<>>,
                         !.snapshot = TM!NoSnapshot, !.block_state = state]
  BY DEF TM!Started, TM!InvalidXid
<1>2. ctx \in TM!TransactionContext /\ state \in TM!BlockState /\ 0 \in TM!Xid \cup {0}
      /\ TM!NoSnapshot \in TM!Snapshot /\ <<>> \in Seq(RowIds) /\ 0 \in Nat
  BY Fields, ContextType DEF IInv, TM!BlockState
<1>3. ctx' \in TM!TransactionContext
  BY <1>1, <1>2 DEF TM!TransactionContext, TM!InvalidXid
<1>4. ctx'.xid = 0 /\ ctx'.undo_records = <<>> /\ ctx'.block_state = state
  BY <1>1, <1>2 DEF TM!TransactionContext
<1>5. QED
  BY <1>3, <1>4 DEF DropsXid, NoXid

\* What commit_transaction and the end of an implicit statement leave.
LEMMA CommittedContext ==
    ASSUME IInv, NEW state \in TM!BlockState, TM!Committed(state)
    PROVE  /\ TM!Finish("COMMITTED") /\ ctx' \in TM!TransactionContext
           /\ DropsXid /\ ctx'.block_state = state
<1>1. /\ TM!Finish("COMMITTED")
      /\ ctx' = IF ctx.xid = 0
                THEN [ctx EXCEPT !.undo_records = <<>>, !.snapshot = TM!NoSnapshot,
                                 !.block_state = state]
                ELSE TM!Ended(state)
  BY DEF TM!Committed, TM!InvalidXid
<1>2. ctx \in TM!TransactionContext /\ 0 \in TM!Xid \cup {0}
      /\ TM!NoSnapshot \in TM!Snapshot /\ <<>> \in Seq(RowIds) /\ 0 \in Nat
      /\ <<>> \in Seq(TM!Savepoint)
  BY Fields, ContextType DEF IInv
<1>3. ctx' \in TM!TransactionContext
  BY <1>1, <1>2 DEF TM!Ended, TM!TransactionContext, TM!InvalidXid
<1>4. ctx'.xid = 0 /\ ctx'.undo_records = <<>> /\ ctx'.block_state = state
  BY <1>1, <1>2 DEF TM!Ended, TM!TransactionContext, TM!InvalidXid
<1>5. QED
  BY <1>1, <1>3, <1>4 DEF NoXid, DropsXid

LEMMA AbortedContext ==
    ASSUME IInv, TM!AbortTransaction
    PROVE  /\ TM!Finish("ABORTED") /\ ctx' \in TM!TransactionContext
           /\ DropsXid /\ ctx'.block_state = ctx.block_state
<1>1. ctx \in TM!TransactionContext /\ 0 \in TM!Xid \cup {0}
      /\ TM!NoSnapshot \in TM!Snapshot /\ <<>> \in Seq(RowIds) /\ 0 \in Nat
      /\ <<>> \in Seq(TM!Savepoint) /\ ctx.block_state \in TM!BlockState
  BY Fields, ContextType DEF IInv
<1>2. TM!Finish("ABORTED") /\ ctx' = TM!Ended(ctx.block_state)
  BY DEF TM!AbortTransaction
<1>3. ctx' \in TM!TransactionContext
  BY <1>1, <1>2 DEF TM!Ended, TM!TransactionContext, TM!InvalidXid
<1>4. ctx'.xid = 0 /\ ctx'.undo_records = <<>> /\ ctx'.block_state = ctx.block_state
  BY <1>1, <1>2 DEF TM!Ended, TM!TransactionContext, TM!InvalidXid
<1>5. QED
  BY <1>2, <1>3, <1>4 DEF NoXid, DropsXid

LEMMA StartKeeps ==
    ASSUME IInv, NEW w \in Threads, StartStatement(w)
    PROVE  IInv' /\ Kept
<1>1. worker[w] = Idle
  BY DEF StartStatement, IInv, Waiting
<1>2. /\ ctx' \in TM!TransactionContext
      /\ UNCHANGED <<next_xid, clog, active_xids, siread_map, in_conflict>>
      /\ KeepsXid \/ DropsXid
      /\ ctx.block_state = "DEFAULT" => ctx'.block_state = "STARTED"
  <2>1. CASE ctx.block_state = "DEFAULT"
    <3>1. ctx' = TM!Started("STARTED")
          /\ UNCHANGED <<next_xid, clog, active_xids, siread_map, in_conflict>>
      BY <2>1 DEF StartStatement, TM!StartTransactionCommand
    <3>2. QED
      BY <3>1, StartedContext
  <2>2. CASE ctx.block_state # "DEFAULT"
    <3>1. UNCHANGED tmVars
      BY <2>2 DEF StartStatement
    <3>2. QED
      BY <2>2, <3>1, Fields DEF tmVars, KeepsXid, IInv
  <2>3. QED
    BY <2>1, <2>2
<1>3. TM!TypeOK' /\ XidInv' /\ Final
  BY <1>2, ContextCalls DEF IInv
<1>4. /\ UNCHANGED <<data, row_ids, logged, promised, undisturbed, settled>>
      /\ worker' = [worker EXCEPT ![w] = worker'[w]]
      /\ worker'[w] \in Worker
      /\ worker'[w].rows = {} /\ worker'[w].pc = "run"
      /\ worker'[w].own = (ctx.block_state = "DEFAULT")
  <2>1. /\ worker' = [worker EXCEPT ![w].pc = "run",
                                    ![w].own = (ctx.block_state = "DEFAULT")]
        /\ UNCHANGED <<data, row_ids, logged, promised, undisturbed, settled>>
    BY DEF StartStatement
  <2>2. /\ worker'[w] = [Idle EXCEPT !.pc = "run", !.own = (ctx.block_state = "DEFAULT")]
        /\ worker' = [worker EXCEPT ![w] = worker'[w]]
    BY <1>1, <2>1, Fields DEF IInv
  <2>3. worker'[w] \in Worker /\ worker'[w].rows = {} /\ worker'[w].pc = "run"
        /\ worker'[w].own = (ctx.block_state = "DEFAULT")
    BY <2>2, WorkerFields DEF Idle, Worker, Place
  <2>4. QED
    BY <2>1, <2>2, <2>3
<1>5. worker' \in [Threads -> Worker] /\ (\A v \in Threads : Waiting(v)') /\ SettledInv'
  BY <1>4, OneMoves
<1>6. (\A u \in alone' : Alone(u)') /\ alone' \in SUBSET Threads
  <2>1. Stating(w)' /\ Ending(w)'
    BY <1>2, <1>4 DEF Stating, Ending
  <2>2. RequestBegins(w)
    BY DEF StartStatement
  <2>3. QED
    BY <1>4, <2>1, <2>2, AloneBegins
<1>7. TypeOK'
  BY <1>3, <1>4, <1>5, <1>6 DEF TypeOK, IInv
<1>8. RowInv' /\ UndisturbedLog'
  BY <1>2, <1>3, <1>4, UndoList, LogKept DEF IInv
<1>9. Kept
  BY <1>3, <1>4, <1>7, RowKept DEF Kept, IInv
<1>10. UndisturbedCommits'
  BY <1>4, <1>9, Fields DEF Kept, UndisturbedCommits, IInv
<1>11. QED
  BY <1>3, <1>5, <1>6, <1>7, <1>8, <1>9, <1>10 DEF IInv

LEMMA BeginKeeps ==
    ASSUME IInv, NEW w \in Threads, Begin(w)
    PROVE  IInv' /\ Kept
<1>1. /\ UNCHANGED <<next_xid, clog, active_xids, siread_map, in_conflict>>
      /\ UNCHANGED <<data, row_ids, logged, worker, promised, undisturbed, settled>>
      /\ alone' = {}
      /\ ctx' \in {TM!Started("BEGIN"), [ctx EXCEPT !.block_state = "BEGIN"]}
  BY DEF Begin, TM!BeginTransactionBlock
<1>2. ctx' \in TM!TransactionContext /\ (KeepsXid \/ DropsXid)
  <2>1. CASE ctx' = TM!Started("BEGIN")
    BY <2>1, StartedContext
  <2>2. CASE ctx' = [ctx EXCEPT !.block_state = "BEGIN"]
    <3>1. ctx \in TM!TransactionContext /\ "BEGIN" \in TM!BlockState
      BY Fields DEF IInv, TM!BlockState
    <3>2. QED
      BY <2>2, <3>1 DEF TM!TransactionContext, KeepsXid
  <2>3. QED
    BY <1>1, <2>1, <2>2
<1>3. TM!TypeOK' /\ XidInv' /\ Final
  BY <1>1, <1>2, ContextCalls DEF IInv
<1>4. TypeOK' /\ SettledInv' /\ \A v \in Threads : Waiting(v)'
  BY <1>1, <1>3 DEF TypeOK, IInv, SettledInv, Waiting
<1>5. RowInv' /\ UndisturbedLog'
  BY <1>1, <1>2, <1>3, UndoList, LogKept DEF IInv
<1>6. Kept
  BY <1>1, <1>3, <1>4, RowKept DEF Kept, IInv
<1>7. UndisturbedCommits'
  BY <1>1, <1>6, Fields DEF Kept, UndisturbedCommits, IInv
<1>8. QED
  BY <1>1, <1>3, <1>4, <1>5, <1>6, <1>7 DEF IInv

LEMMA InsertKeeps ==
    ASSUME IInv, NEW w \in Threads, InsertRow(w)
    PROVE  IInv' /\ Kept
<1> DEFINE new == row_ids + 1
<1>1. /\ worker[w].pc = "run" /\ new \in RowIds /\ row_ids' = new
      /\ TM!Write(<<new>>, {}, {})
      /\ data' = [data EXCEPT ![new] = TM!WriterXid]
      /\ worker' = [worker EXCEPT ![w].rows = worker[w].rows \cup {new}]
      /\ UNCHANGED <<logged, promised, alone, undisturbed, settled>>
  BY Fields DEF InsertRow, RowIds, IInv, history
<1>2. /\ TM!TypeOK' /\ XidInv' /\ Final
      /\ TM!WriterXid \in TM!Xid /\ ctx'.xid = TM!WriterXid
      /\ ctx.xid # NoXid => ctx'.xid = ctx.xid
      /\ ctx'.undo_records = ctx.undo_records \o <<new>>
      /\ ctx'.block_state = ctx.block_state
  <2>1. <<new>> \in Seq(RowIds)
    BY <1>1
  <2>2. QED
    BY <1>1, <2>1, WriteCalls DEF IInv
<1>3. /\ worker' = [worker EXCEPT ![w] = worker'[w]] /\ worker'[w] \in Worker
      /\ worker'[w].pc = "run" /\ worker'[w].own = worker[w].own
      /\ worker'[w].rows = worker[w].rows \cup {new}
  <2>1. worker'[w] = [worker[w] EXCEPT !.rows = worker[w].rows \cup {new}]
        /\ worker' = [worker EXCEPT ![w] = worker'[w]]
    BY <1>1, Fields DEF IInv
  <2>2. worker'[w] \in Worker
    BY <1>1, <2>1, WorkerFields DEF Worker, IInv
  <2>3. QED
    BY <1>1, <2>1, <2>2, WorkerFields DEF Worker, IInv
<1>4. /\ data' \in [RowIds -> TM!Xid \cup {NoXid}]
      /\ \A k \in RowIds : data'[k] = IF k = new THEN ctx'.xid ELSE data[k]
  BY <1>1, <1>2, Fields DEF IInv
<1>5. worker' \in [Threads -> Worker] /\ (\A v \in Threads : Waiting(v)') /\ SettledInv'
  BY <1>1, <1>3, OneMoves
<1>6. TypeOK'
  <2>1. new \in 0 .. MaxRowId
    BY <1>1, Fields DEF RowIds, IInv
  <2>2. QED
    BY <1>1, <1>2, <1>4, <1>5, <2>1 DEF TypeOK, IInv
<1>7. RowInv'
  <2>1. /\ Len(ctx'.undo_records) = Len(ctx.undo_records) + 1
        /\ \A i \in 1 .. Len(ctx.undo_records) :
             ctx'.undo_records[i] = ctx.undo_records[i]
        /\ ctx'.undo_records[Len(ctx.undo_records) + 1] = new
    BY <1>2, Fields DEF IInv
  <2>2. ASSUME NEW i \in 1 .. Len(ctx.undo_records)
        PROVE  /\ ctx'.undo_records[i] \in 1 .. new
               /\ data'[ctx'.undo_records[i]] \in {ctx'.xid, NoXid}
    <3>1. ctx.undo_records[i] \in 1 .. row_ids /\ ctx.xid # NoXid
          /\ data[ctx.undo_records[i]] \in {ctx.xid, NoXid}
      BY DEF RowInv, XidInv, IInv
    <3>2. ctx.undo_records[i] \in RowIds \ {new}
      BY <3>1, Fields DEF RowIds, IInv
    <3>3. QED
      BY <1>2, <1>4, <2>1, <3>1, <3>2, Fields DEF IInv
  <2>3. new \in 1 .. new /\ data'[new] = ctx'.xid
    BY <1>1, <1>4, Fields DEF IInv
  <2>4. \A k \in RowIds : k > new => data'[k] = NoXid
    <3>1. \A k \in RowIds : k > new => k # new /\ k > row_ids
      BY Fields DEF RowIds, IInv
    <3> HIDE DEF new
    <3>2. QED
      BY <1>4, <3>1 DEF RowInv, IInv
  <2>5. \A i \in 1 .. Len(ctx'.undo_records) :
          i \in 1 .. Len(ctx.undo_records) \/ i = Len(ctx.undo_records) + 1
    BY <2>1, Fields DEF IInv
  <2>6. QED
    BY <1>1, <2>1, <2>2, <2>3, <2>4, <2>5 DEF RowInv
<1>8. \A k \in RowIds : data[k] # NoXid => k # new
  BY Fields DEF RowInv, RowIds, IInv
<1>9. Kept
  <2> HIDE DEF new
  <2>1. \A k \in RowIds : HoldsCommitted(k) => data'[k] = data[k]
    BY <1>4, <1>8 DEF HoldsCommitted
  <2>2. QED
    BY <1>2, <1>6, <2>1, RowKept DEF Kept, IInv
<1>10. UndisturbedCommits'
  BY <1>1, <1>9, Fields DEF Kept, UndisturbedCommits, IInv
<1>11. UndisturbedLog'
  BY <1>1, <1>2, LogKept DEF IInv
<1>12. \A u \in alone' : Alone(u)'
  <2>1. ASSUME w \in alone
        PROVE  Stating(w)' /\ Ending(w)'
    <3>1. Ending(w)'
      BY <1>3 DEF Ending
    <3>2. ASSUME worker[w].own
          PROVE  /\ ctx.block_state = "STARTED"
                 /\ \A k \in worker[w].rows : ctx.xid # NoXid /\ data[k] = ctx.xid
      BY <1>1, <2>1, <3>2 DEF IInv, Alone, Stating, Running
    <3>3. ASSUME worker[w].own, NEW k \in worker'[w].rows
          PROVE  ctx'.xid # NoXid /\ data'[k] = ctx'.xid
      <4>1. ctx'.xid # NoXid
        BY <1>2, Fields DEF NoXid, IInv
      <4>2. CASE k \in worker[w].rows
        <5>1. ctx.xid # NoXid /\ data[k] = ctx.xid /\ k \in RowIds
          BY <3>2, <3>3, <4>2, WorkerFields DEF IInv
        <5>2. QED
          BY <1>2, <1>4, <4>1, <5>1
      <4>3. CASE k = new
        BY <1>1, <1>4, <4>1, <4>3
      <4>4. QED
        BY <1>3, <3>3, <4>2, <4>3
    <3>4. QED
      BY <1>2, <1>3, <3>1, <3>2, <3>3 DEF Stating
  <2>2. QED
    BY <1>1, <1>3, <2>1, AloneGoesOn
<1>13. QED
  BY <1>2, <1>5, <1>6, <1>7, <1>9, <1>10, <1>11, <1>12 DEF IInv

LEMMA RefuseKeeps ==
    ASSUME IInv, NEW w \in Threads, RefuseRow(w)
    PROVE  IInv' /\ Kept
<1>1. /\ worker[w].pc = "run" /\ row_ids' = row_ids + 1 /\ row_ids < MaxRowId
      /\ TM!Write(<<>>, {}, {})
      /\ worker' = [worker EXCEPT ![w].pc = "end"]
      /\ UNCHANGED <<data, logged, promised, alone, undisturbed, settled>>
  BY DEF RefuseRow, history
<1>2. /\ TM!TypeOK' /\ XidInv' /\ Final
      /\ ctx.xid # NoXid => ctx'.xid = ctx.xid
      /\ ctx'.undo_records = ctx.undo_records \o <<>>
      /\ ctx'.block_state = ctx.block_state
  <2>1. <<>> \in Seq(RowIds)
    OBVIOUS
  <2>2. QED
    BY <1>1, <2>1, WriteCalls DEF IInv
<1>3. ctx'.undo_records = ctx.undo_records
  BY <1>2, Fields DEF IInv
<1>4. /\ worker' = [worker EXCEPT ![w] = worker'[w]] /\ worker'[w] \in Worker
      /\ worker'[w].pc = "end" /\ worker'[w].own = worker[w].own
      /\ worker'[w].rows = worker[w].rows
  <2>1. worker'[w] = [worker[w] EXCEPT !.pc = "end"]
        /\ worker' = [worker EXCEPT ![w] = worker'[w]]
    BY <1>1, Fields DEF IInv
  <2>2. worker'[w] \in Worker
    BY <2>1, WorkerFields DEF Worker, Place, IInv
  <2>3. QED
    BY <2>1, <2>2, WorkerFields DEF Worker, IInv
<1>5. worker' \in [Threads -> Worker] /\ (\A v \in Threads : Waiting(v)') /\ SettledInv'
  BY <1>1, <1>4, OneMoves
<1>6. row_ids + 1 \in 0 .. MaxRowId /\ 1 .. row_ids \subseteq 1 .. row_ids'
  BY <1>1, Fields DEF IInv
<1>7. TypeOK'
  BY <1>1, <1>2, <1>5, <1>6 DEF TypeOK, IInv
<1>8. RowInv'
  <2>1. Len(ctx.undo_records) \in Nat /\ (ctx.undo_records = <<>> => Len(ctx.undo_records) = 0)
    BY Fields DEF IInv
  <2>2. ctx.undo_records # <<>> => ctx'.xid = ctx.xid
    BY <1>2 DEF XidInv, IInv
  <2>3. \A k \in RowIds : k > row_ids' => k > row_ids
    BY <1>1, Fields DEF RowIds, IInv
  <2>4. QED
    BY <1>1, <1>3, <1>6, <2>1, <2>2, <2>3 DEF RowInv, IInv
<1>9. Kept
  BY <1>1, <1>2, <1>7, RowKept DEF Kept, IInv
<1>10. UndisturbedCommits'
  BY <1>1, <1>9, Fields DEF Kept, UndisturbedCommits, IInv
<1>11. UndisturbedLog'
  BY <1>1, <1>2, LogKept DEF IInv
<1>12. \A u \in alone' : Alone(u)'
  <2>1. ASSUME w \in alone
        PROVE  Stating(w)' /\ Ending(w)'
    <3>1. Stating(w)
      BY <2>1 DEF IInv, Alone
    <3>2. QED
      BY <1>1, <1>2, <1>4, <3>1 DEF Stating, Ending, Running
  <2>2. QED
    BY <1>1, <1>4, <2>1, AloneGoesOn
<1>13. QED
  BY <1>2, <1>5, <1>7, <1>8, <1>9, <1>10, <1>11, <1>12 DEF IInv

LEMMA EndStatementKeeps ==
    ASSUME IInv, NEW w \in Threads, EndStatement(w)
    PROVE  IInv' /\ Kept
<1>1. /\ w \in Running /\ worker[w].pc \in {"run", "end"}
      /\ UNCHANGED <<data, row_ids, logged, settled>>
      /\ worker' = [worker EXCEPT ![w] = Idle] /\ RequestEnds(w)
      /\ promised' = IF worker[w].own THEN promised \cup worker[w].rows ELSE promised
      /\ undisturbed' = IF worker[w].own /\ w \in alone
                        THEN undisturbed \cup worker[w].rows ELSE undisturbed
  BY DEF EndStatement, Answer, Running
<1>2. /\ ctx' \in TM!TransactionContext /\ TM!TypeOK' /\ XidInv' /\ Final
      /\ KeepsXid \/ DropsXid
      /\ ctx.block_state = "STARTED" /\ ctx.xid # NoXid => clog'[ctx.xid] = "COMMITTED"
  <2>1. CASE ctx.block_state = "STARTED" /\ TM!Committed("DEFAULT")
    <3>1. "DEFAULT" \in TM!BlockState
      BY DEF TM!BlockState
    <3>2. TM!Finish("COMMITTED") /\ ctx' \in TM!TransactionContext /\ DropsXid
      BY <2>1, <3>1, CommittedContext
    <3>3. /\ TM!TypeOK' /\ XidInv' /\ Final
          /\ ctx.xid # NoXid => clog'[ctx.xid] = "COMMITTED"
      BY <3>2, EndCalls DEF IInv
    <3>4. QED
      BY <3>2, <3>3
  <2>2. ASSUME ctx.block_state # "STARTED",
               \/ ctx' = [ctx EXCEPT !.block_state = "INPROGRESS"]
               \/ ctx' = [ctx EXCEPT !.command_id = ctx.command_id + 1]
               \/ ctx' = ctx,
               UNCHANGED <<next_xid, clog, active_xids, siread_map, in_conflict>>
        PROVE  ctx' \in TM!TransactionContext /\ TM!TypeOK' /\ XidInv' /\ Final /\ KeepsXid
    <3>1. /\ ctx.command_id + 1 \in Nat /\ "INPROGRESS" \in TM!BlockState
          /\ ctx \in TM!TransactionContext
      BY Fields DEF TM!BlockState, IInv
    <3>2. ctx' \in TM!TransactionContext /\ KeepsXid
      BY <2>2, <3>1 DEF TM!TransactionContext, KeepsXid
    <3>3. QED
      BY <2>2, <3>2, ContextCalls DEF IInv
  <2>3. CASE ctx.block_state = "DEFAULT" /\ UNCHANGED tmVars
    BY <2>2, <2>3 DEF tmVars
  <2>4. CASE TM!CommitTransactionCommand /\ ctx.block_state # "STARTED"
    BY <2>2, <2>4 DEF TM!CommitTransactionCommand
  <2>5. QED
    BY <2>1, <2>2, <2>3, <2>4 DEF EndStatement, TM!CommitTransactionCommand
<1>3. Idle \in Worker /\ Idle.pc = "idle"
  BY DEF Idle, Worker, Place
<1>4. worker' \in [Threads -> Worker] /\ (\A v \in Threads : Waiting(v)') /\ SettledInv'
  <2>1. worker'[w] = Idle /\ worker' = [worker EXCEPT ![w] = worker'[w]]
    BY <1>1, Fields DEF IInv
  <2>2. QED
    BY <1>1, <1>3, <2>1, OneMoves
<1>5. alone' = {}
  BY <1>1, AloneEnds
<1>6. promised' \in SUBSET RowIds /\ undisturbed' \in SUBSET RowIds
  BY <1>1, Fields, WorkerFields DEF IInv
<1>7. TypeOK'
  BY <1>1, <1>2, <1>4, <1>5, <1>6 DEF TypeOK, IInv
<1>8. RowInv' /\ UndisturbedLog'
  BY <1>1, <1>2, UndoList, LogKept DEF IInv
<1>9. Kept
  BY <1>1, <1>2, <1>7, RowKept DEF Kept, IInv
<1>10. UndisturbedCommits'
  <2>1. ASSUME worker[w].own, w \in alone, NEW k \in worker[w].rows
        PROVE  HoldsCommitted(k)'
    <3>1. ctx.block_state = "STARTED" /\ ctx.xid # NoXid /\ data[k] = ctx.xid
      BY <1>1, <2>1 DEF IInv, Alone, Stating
    <3>2. /\ data'[k] = ctx.xid /\ clog'[ctx.xid] = "COMMITTED"
          /\ ctx.xid \in TM!Xid /\ clog' \in [TM!Xid -> TM!Status]
      BY <1>1, <1>2, <3>1, Fields DEF TM!TypeOK, IInv
    <3>3. QED
      BY <3>1, <3>2 DEF HoldsCommitted, StatusIn
  <2>2. \A k \in undisturbed : HoldsCommitted(k)'
    BY <1>9, Fields DEF Kept, UndisturbedCommits, IInv
  <2>3. QED
    BY <1>1, <2>1, <2>2 DEF UndisturbedCommits
<1>11. QED
  BY <1>2, <1>4, <1>5, <1>7, <1>8, <1>9, <1>10 DEF IInv

LEMMA GetXidKeeps ==
    ASSUME IInv, NEW w \in Threads, NEW verdict \in {"COMMITTED", "ABORTED"},
           GetXid(w, verdict)
    PROVE  IInv' /\ Kept
<1>1. /\ worker' = [worker EXCEPT ![w].pc = "log", ![w].verdict = verdict,
                                  ![w].xid = ctx.xid]
      /\ worker[w].pc = "idle" /\ RequestBegins(w)
      /\ UNCHANGED <<tmVars, data, row_ids, logged, promised, undisturbed, settled>>
  BY DEF GetXid
<1>2. UNCHANGED <<next_xid, clog, active_xids, ctx, siread_map, in_conflict>>
  BY <1>1 DEF tmVars
<1>3. TM!TypeOK' /\ XidInv' /\ Final /\ KeepsXid
  BY <1>2, ContextCalls, Fields DEF KeepsXid, IInv
<1>4. /\ worker' = [worker EXCEPT ![w] = worker'[w]] /\ worker'[w] \in Worker
      /\ worker'[w].pc = "log" /\ worker'[w].xid = ctx.xid
  <2>1. /\ worker'[w] = [worker[w] EXCEPT !.pc = "log", !.verdict = verdict, !.xid = ctx.xid]
        /\ worker' = [worker EXCEPT ![w] = worker'[w]]
    BY <1>1, Fields DEF IInv
  <2>2. worker[w] \in Worker /\ ctx.xid \in TM!Xid \cup {NoXid}
    BY Fields DEF IInv
  <2>3. QED
    BY <2>1, <2>2 DEF Worker, Place
<1>5. ctx.xid \notin settled
  <2>1. NoXid \notin settled
    BY Fields DEF IInv, NoXid
  <2>2. ctx.xid # NoXid => clog[ctx.xid] = "IN_PROGRESS"
    BY DEF IInv, XidInv
  <2>3. QED
    BY <2>1, <2>2 DEF IInv, UndisturbedLog
<1>6. worker' \in [Threads -> Worker] /\ (\A v \in Threads : Waiting(v)') /\ SettledInv'
  BY <1>1, <1>4, <1>5, OneMoves
<1>7. (\A u \in alone' : Alone(u)') /\ alone' \in SUBSET Threads
  <2>1. Stating(w)' /\ Ending(w)'
    BY <1>2, <1>4 DEF Stating, Ending, Running
  <2>2. QED
    BY <1>1, <1>4, <2>1, AloneBegins
<1>8. TypeOK'
  BY <1>1, <1>3, <1>6, <1>7 DEF TypeOK, IInv
<1>9. RowInv' /\ UndisturbedLog'
  BY <1>1, <1>3, UndoList, LogKept DEF IInv
<1>10. Kept
  BY <1>1, <1>3, <1>8, RowKept DEF Kept, IInv
<1>11. UndisturbedCommits'
  BY <1>1, <1>10, Fields DEF Kept, UndisturbedCommits, IInv
<1>12. QED
  BY <1>3, <1>6, <1>7, <1>8, <1>9, <1>10, <1>11 DEF IInv

LEMMA WriteXactKeeps ==
    ASSUME IInv, NEW w \in Threads, WriteXact(w)
    PROVE  IInv' /\ Kept
<1> DEFINE next == IF worker[w].verdict = "ABORTED" THEN "undo" ELSE "finish"
<1>1. /\ worker' = [worker EXCEPT ![w].pc = next]
      /\ worker[w].pc = "log"
      /\ UNCHANGED <<next_xid, clog, active_xids, ctx, siread_map, in_conflict>>
      /\ UNCHANGED <<data, row_ids, promised, alone, undisturbed, settled>>
      /\ logged' = IF worker[w].xid = NoXid THEN logged
                   ELSE [logged EXCEPT ![worker[w].xid] = worker[w].verdict]
  BY DEF WriteXact, Record, tmVars, history
<1>2. /\ worker[w] \in Worker /\ worker[w].xid \in TM!Xid \cup {NoXid}
      /\ worker[w].verdict \in {"COMMITTED", "ABORTED"}
      /\ worker[w].xid \notin settled
      /\ next \in {"undo", "finish"}
  BY <1>1, WorkerFields DEF IInv, SettledInv
<1> HIDE DEF next
<1>3. /\ worker' = [worker EXCEPT ![w] = worker'[w]] /\ worker'[w] \in Worker
      /\ worker'[w].pc = next
      /\ worker'[w].xid = worker[w].xid /\ worker'[w].verdict = worker[w].verdict
  <2>1. /\ worker'[w] = [worker[w] EXCEPT !.pc = next]
        /\ worker' = [worker EXCEPT ![w] = worker'[w]]
    BY <1>1, Fields DEF IInv
  <2>2. QED
    BY <1>2, <2>1 DEF Worker, Place
<1>4. /\ logged' \in [TM!Xid -> {"none", "COMMITTED", "ABORTED"}]
      /\ worker[w].xid # NoXid => logged'[worker[w].xid] = worker[w].verdict
      /\ \A x \in TM!Xid : x # worker[w].xid => logged'[x] = logged[x]
  BY <1>1, <1>2, Fields DEF IInv
<1>5. TM!TypeOK' /\ XidInv' /\ Final /\ KeepsXid
  BY <1>1, ContextCalls, Fields DEF KeepsXid, IInv
<1>6. worker' \in [Threads -> Worker] /\ (\A v \in Threads : Waiting(v)') /\ SettledInv'
  BY <1>1, <1>2, <1>3, OneMoves
<1>7. TypeOK'
  BY <1>1, <1>4, <1>5, <1>6 DEF TypeOK, IInv
<1>8. RowInv'
  BY <1>1, <1>5, UndoList DEF IInv
<1>9. UndisturbedLog'
  <2>1. \A x \in settled : logged'[x] = logged[x]
    BY <1>2, <1>4, Fields DEF IInv
  <2>2. QED
    BY <1>1, <1>5, <2>1, LogKept DEF IInv
<1>10. Kept
  BY <1>1, <1>5, <1>7, RowKept DEF Kept, IInv
<1>11. UndisturbedCommits'
  BY <1>1, <1>10, Fields DEF Kept, UndisturbedCommits, IInv
<1>12. \A u \in alone' : Alone(u)'
  <2>1. ASSUME w \in alone
        PROVE  Stating(w)' /\ Ending(w)'
    <3>1. worker[w].xid = ctx.xid
      BY <1>1, <2>1 DEF IInv, Alone, Ending
    <3>2. QED
      BY <1>1, <1>2, <1>3, <1>4, <3>1 DEF Stating, Ending, Running
  <2>2. QED
    BY <1>1, <1>2, <1>3, <2>1, AloneGoesOn
<1>13. QED
  BY <1>5, <1>6, <1>7, <1>8, <1>9, <1>10, <1>11, <1>12 DEF IInv

LEMMA ApplyUndoKeeps ==
    ASSUME IInv, NEW w \in Threads, ApplyUndo(w)
    PROVE  IInv' /\ Kept
<1>1. /\ worker' = [worker EXCEPT ![w].pc = "finish"]
      /\ worker[w].pc = "undo"
      /\ UNCHANGED <<next_xid, clog, active_xids, ctx, siread_map, in_conflict>>
      /\ UNCHANGED <<row_ids, logged, promised, alone, undisturbed, settled>>
      /\ data' = [k \in RowIds |->
                    IF \E i \in 1 .. Len(ctx.undo_records) : ctx.undo_records[i] = k
                    THEN NoXid ELSE data[k]]
  BY DEF ApplyUndo, tmVars, history
<1>2. /\ worker' = [worker EXCEPT ![w] = worker'[w]] /\ worker'[w] \in Worker
      /\ worker'[w].pc = "finish"
      /\ worker'[w].xid = worker[w].xid /\ worker'[w].verdict = worker[w].verdict
  <2>1. /\ worker'[w] = [worker[w] EXCEPT !.pc = "finish"]
        /\ worker' = [worker EXCEPT ![w] = worker'[w]]
    BY <1>1, Fields DEF IInv
  <2>2. worker[w] \in Worker
    BY Fields DEF IInv
  <2>3. QED
    BY <2>1, <2>2 DEF Worker, Place
<1>3. TM!TypeOK' /\ XidInv' /\ Final /\ KeepsXid
  BY <1>1, ContextCalls, Fields DEF KeepsXid, IInv
<1>4. worker' \in [Threads -> Worker] /\ (\A v \in Threads : Waiting(v)') /\ SettledInv'
  BY <1>1, <1>2, OneMoves
<1>5. /\ data' \in [RowIds -> TM!Xid \cup {NoXid}]
      /\ \A k \in RowIds : data'[k] \in {data[k], NoXid}
  BY <1>1, Fields DEF IInv
<1>6. TypeOK'
  BY <1>1, <1>3, <1>4, <1>5 DEF TypeOK, IInv
<1>7. RowInv'
  <2>1. \A i \in 1 .. Len(ctx.undo_records) : ctx.undo_records[i] \in RowIds
    BY Fields DEF IInv
  <2>2. QED
    BY <1>1, <1>5, <2>1 DEF RowInv, IInv
<1>8. UndisturbedLog'
  BY <1>1, <1>3, LogKept DEF IInv
<1>9. Kept
  <2>1. ASSUME NEW k \in RowIds, HoldsCommitted(k)
        PROVE  data'[k] = data[k]
    <3>1. CASE \E i \in 1 .. Len(ctx.undo_records) : ctx.undo_records[i] = k
      <4>1. data[k] = ctx.xid /\ ctx.xid # NoXid
        BY <2>1, <3>1 DEF HoldsCommitted, RowInv, IInv
      <4>2. ctx.xid \in TM!Xid /\ clog[ctx.xid] = "IN_PROGRESS"
        BY <4>1, Fields DEF XidInv, IInv
      <4>3. QED
        BY <2>1, <4>1, <4>2, Fields DEF HoldsCommitted, StatusIn, IInv
    <3>2. QED
      BY <1>1, <3>1
  <2>2. QED
    BY <1>3, <1>6, <2>1, RowKept DEF Kept, IInv
<1>10. UndisturbedCommits'
  BY <1>1, <1>9, Fields DEF Kept, UndisturbedCommits, IInv
<1>11. \A u \in alone' : Alone(u)'
  <2>1. ASSUME w \in alone
        PROVE  Stating(w)' /\ Ending(w)'
    <3>1. Ending(w)
      BY <2>1 DEF IInv, Alone
    <3>2. QED
      BY <1>1, <1>2, <3>1 DEF Stating, Ending, Running
  <2>2. QED
    BY <1>1, <1>2, <2>1, AloneGoesOn
<1>12. QED
  BY <1>3, <1>4, <1>6, <1>7, <1>8, <1>9, <1>10, <1>11 DEF IInv

LEMMA FinishKeeps ==
    ASSUME IInv, NEW w \in Threads, FinishTransaction(w)
    PROVE  IInv' /\ Kept
<1> DEFINE verdict == worker[w].verdict
<1>1. /\ worker' = [worker EXCEPT ![w].pc = "reset"] /\ worker[w].pc = "finish"
      /\ \/ verdict = "ABORTED" /\ TM!AbortTransaction
         \/ verdict = "COMMITTED" /\ TM!Committed(ctx.block_state)
      /\ UNCHANGED <<data, row_ids, logged, promised, alone, undisturbed, settled>>
  BY DEF FinishTransaction, TM!CommitTransaction, history
<1>2. verdict \in {"COMMITTED", "ABORTED"} /\ worker[w] \in Worker
  BY WorkerFields DEF IInv
<1>3. /\ worker' = [worker EXCEPT ![w] = worker'[w]] /\ worker'[w] \in Worker
      /\ worker'[w].pc = "reset" /\ worker'[w].xid = worker[w].xid
  <2>1. /\ worker'[w] = [worker[w] EXCEPT !.pc = "reset"]
        /\ worker' = [worker EXCEPT ![w] = worker'[w]]
    BY <1>1, Fields DEF IInv
  <2>2. QED
    BY <1>2, <2>1 DEF Worker, Place
<1> HIDE DEF verdict
<1>4. TM!Finish(verdict) /\ ctx' \in TM!TransactionContext /\ DropsXid
  <2>1. ctx.block_state \in TM!BlockState
    BY Fields DEF IInv
  <2>2. CASE verdict = "ABORTED" /\ TM!AbortTransaction
    BY <2>2, AbortedContext
  <2>3. CASE verdict = "COMMITTED" /\ TM!Committed(ctx.block_state)
    BY <2>1, <2>3, CommittedContext
  <2>4. QED
    BY <1>1, <2>2, <2>3
<1>5. /\ TM!TypeOK' /\ XidInv' /\ Final
      /\ ctx.xid # NoXid => clog'[ctx.xid] = verdict
  BY <1>2, <1>4, EndCalls DEF IInv
<1>6. worker' \in [Threads -> Worker] /\ (\A v \in Threads : Waiting(v)') /\ SettledInv'
  BY <1>1, <1>3, OneMoves
<1>7. TypeOK'
  BY <1>1, <1>5, <1>6 DEF IInv, TypeOK
<1>8. RowInv' /\ UndisturbedLog'
  BY <1>1, <1>4, <1>5, UndoList, LogKept DEF IInv
<1>9. Kept
  BY <1>1, <1>5, <1>7, RowKept DEF Kept, IInv
<1>10. UndisturbedCommits'
  BY <1>1, <1>9, Fields DEF Kept, UndisturbedCommits, IInv
<1>11. \A u \in alone' : Alone(u)'
  <2>1. ASSUME w \in alone
        PROVE  Stating(w)' /\ Ending(w)'
    <3>1. worker[w].xid = ctx.xid /\ (ctx.xid # NoXid => logged[ctx.xid] = verdict)
      BY <1>1, <2>1 DEF IInv, Alone, Ending, verdict
    <3>2. QED
      BY <1>1, <1>2, <1>3, <1>5, <3>1 DEF Stating, Ending, Running
  <2>2. QED
    BY <1>1, <1>3, <2>1, AloneGoesOn
<1>12. QED
  BY <1>5, <1>6, <1>7, <1>8, <1>9, <1>10, <1>11 DEF IInv

LEMMA ResetKeeps ==
    ASSUME IInv, NEW w \in Threads, Reset(w)
    PROVE  IInv' /\ Kept
<1>1. /\ worker' = [worker EXCEPT ![w] = Idle] /\ worker[w].pc = "reset"
      /\ ctx' = [TM!IdleContext EXCEPT !.isolation = ctx.isolation]
      /\ UNCHANGED <<next_xid, clog, active_xids, siread_map, in_conflict>>
      /\ UNCHANGED <<data, row_ids, logged, promised, undisturbed>>
      /\ RequestEnds(w)
      /\ settled' = IF w \in alone THEN settled \cup ({worker[w].xid} \ {NoXid})
                    ELSE settled
  BY DEF Reset, TM!ResetContext
<1>2. ctx' \in TM!TransactionContext /\ DropsXid
  <2>1. ctx' = [xid |-> 0, block_state |-> "DEFAULT", command_id |-> 0,
                undo_records |-> <<>>, snapshot |-> TM!NoSnapshot,
                isolation |-> ctx.isolation, savepoints |-> <<>>]
    BY <1>1 DEF TM!IdleContext, TM!InvalidXid
  <2>2. ctx.isolation \in TM!Isolation /\ "DEFAULT" \in TM!BlockState
    BY Fields DEF IInv, TM!TransactionContext, TM!BlockState
  <2>3. QED
    BY <2>1, <2>2, ContextType DEF IInv, TM!TransactionContext, TM!InvalidXid, NoXid, DropsXid
<1>3. TM!TypeOK' /\ XidInv' /\ Final
  BY <1>1, <1>2, ContextCalls DEF IInv
<1>4. Idle \in Worker /\ Idle.pc = "idle"
  BY DEF Idle, Worker, Place
<1>5. /\ worker' \in [Threads -> Worker] /\ worker'[w] = Idle
      /\ \A v \in Threads \ {w} : worker'[v] = worker[v]
  BY <1>1, <1>4, Fields DEF IInv
<1>6. (\A v \in Threads : Waiting(v)') /\ alone' = {}
  BY <1>1, <1>4, <1>5, AloneEnds DEF Waiting, IInv
\* When the request was alone, nobody is about to log.
<1>7. SettledInv'
  <2>1. CASE w \in alone
    <3>1. \A v \in Threads \ {w} : worker[v].pc = "idle"
      BY <2>1 DEF IInv, Alone
    <3>2. QED
      BY <1>4, <1>5, <3>1 DEF SettledInv
  <2>2. CASE w \notin alone
    BY <1>1, <1>4, <1>5, <2>2 DEF SettledInv, IInv
  <2>3. QED
    BY <2>1, <2>2
<1>8. settled' \in SUBSET TM!Xid
  BY <1>1, Fields, WorkerFields DEF IInv
<1>9. TypeOK'
  BY <1>1, <1>3, <1>5, <1>6, <1>8 DEF IInv, TypeOK
<1>10. RowInv'
  BY <1>1, <1>2, UndoList DEF IInv
<1>11. UndisturbedLog'
  <2>1. ASSUME w \in alone, worker[w].xid # NoXid
        PROVE  /\ logged[worker[w].xid] = clog[worker[w].xid]
               /\ clog[worker[w].xid] # "IN_PROGRESS"
    BY <1>1, <2>1 DEF IInv, Alone, Ending
  <2>2. QED
    BY <1>1, <2>1 DEF UndisturbedLog, IInv
<1>12. Kept
  BY <1>1, <1>3, <1>9, RowKept DEF Kept, IInv
<1>13. UndisturbedCommits'
  BY <1>1, <1>12, Fields DEF Kept, UndisturbedCommits, IInv
<1>14. QED
  BY <1>3, <1>6, <1>7, <1>9, <1>10, <1>11, <1>12, <1>13 DEF IInv

LEMMA InitHolds ==
    ASSUME Init
    PROVE  IInv
<1> USE DEF Init, TM!Init
<1>1. /\ next_xid = 3 /\ clog = [x \in TM!Xid |-> "IN_PROGRESS"] /\ active_xids = {}
      /\ siread_map = [k \in {} |-> {}] /\ in_conflict = [x \in TM!Xid |-> {}]
      /\ ctx = [xid |-> 0, block_state |-> "DEFAULT", command_id |-> 0,
                undo_records |-> <<>>, snapshot |-> TM!NoSnapshot,
                isolation |-> "ReadCommitted", savepoints |-> <<>>]
  BY DEF TM!FirstNormalXid, TM!IdleContext, TM!InvalidXid
<1>2. /\ XIDEmergencyStop \in Nat /\ XIDEmergencyStop > 3 /\ MaxRowId \in Nat
      /\ TM!Xid = 3 .. XIDEmergencyStop - 1
  BY WorkersAssumption DEF WorkersAssumption, TM!Xid, TM!FirstNormalXid
<1>3. ctx \in TM!TransactionContext
  <2>1. TM!NoSnapshot \in TM!Snapshot
    BY DEF TM!NoSnapshot, TM!Snapshot
  <2>2. QED
    BY <1>1, <2>1 DEF TM!TransactionContext, TM!BlockState, TM!Isolation, TM!InvalidXid
<1>4. TM!TypeOK
  BY <1>1, <1>2, <1>3 DEF TM!TypeOK, TM!Status, TM!FirstNormalXid
<1>5. Idle \in Worker /\ Idle.pc = "idle"
  BY DEF Idle, Worker, Place
<1>6. TypeOK
  BY <1>2, <1>4, <1>5 DEF TypeOK
<1>7. XidInv
  BY <1>1, <1>2 DEF XidInv, NoXid
<1>8. RowInv /\ UndisturbedCommits /\ UndisturbedLog
  BY <1>1 DEF RowInv, UndisturbedCommits, UndisturbedLog
<1>9. SettledInv /\ \A w \in Threads : Waiting(w)
  BY <1>5 DEF SettledInv, Waiting
<1>10. QED
  BY <1>6, <1>7, <1>8, <1>9 DEF IInv

LEMMA StutterKeeps ==
    ASSUME IInv, UNCHANGED vars
    PROVE  IInv'
<1>1. UNCHANGED <<next_xid, clog, active_xids, ctx, siread_map, in_conflict, data,
                  row_ids, logged, worker, promised, alone, undisturbed, settled>>
  BY DEF vars, tmVars, history
<1>2. TypeOK' /\ XidInv'
  BY <1>1 DEF IInv, TypeOK, TM!TypeOK, XidInv
<1>3. RowInv' /\ SettledInv' /\ UndisturbedCommits' /\ UndisturbedLog'
  BY <1>1 DEF IInv, RowInv, SettledInv, UndisturbedCommits, UndisturbedLog, HoldsCommitted
<1>4. (\A w \in Threads : Waiting(w)') /\ \A w \in alone' : Alone(w)'
  BY <1>1 DEF IInv, Waiting, Alone, Stating, Ending, Running
<1>5. QED
  BY <1>2, <1>3, <1>4 DEF IInv

LEMMA NextKeeps ==
    ASSUME IInv, Next
    PROVE  IInv' /\ Kept
  BY StartKeeps, InsertKeeps, RefuseKeeps, EndStatementKeeps, BeginKeeps, GetXidKeeps,
     WriteXactKeeps, ApplyUndoKeeps, FinishKeeps, ResetKeeps DEF Next

-----------------------------------------------------------------------------
(* The theorems.                                                           *)

\* The invariant holds, however the requests of all the threads overlap.
THEOREM Inductive == Spec => []IInv
<1>1. Init => IInv
  BY InitHolds
<1>2. IInv /\ [Next]_vars => IInv'
  BY StutterKeeps, NextKeeps
<1>3. QED
  BY <1>1, <1>2, PTL DEF Spec

\* A statement outside a block that no other request overlapped has committed
\* every row it inserted when it answers, whatever the other threads did before
\* and do afterwards.
THEOREM CommitsCorrect == Spec => []UndisturbedCommits
BY Inductive, PTL DEF IInv

\* The verdict a COMMIT or ROLLBACK that no other request overlapped has logged
\* is the one in the commit log, and stays it: recovery sees what sessions saw.
THEOREM LogCorrect == Spec => []UndisturbedLog
BY Inductive, PTL DEF IInv

\* No interleaving of any number of threads takes a committed row back.
THEOREM CommittedKept == Spec => CommittedStay
<1>1. IInv /\ [Next]_vars
        => [\A k \in RowIds : HoldsCommitted(k) => HoldsCommitted(k)']_vars
  BY NextKeeps DEF Kept
<1>2. QED
  BY <1>1, Inductive, PTL DEF Spec, CommittedStay
=============================================================================
