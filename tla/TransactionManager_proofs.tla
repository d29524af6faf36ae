---------------------- MODULE TransactionManager_proofs ----------------------
(***************************************************************************)
(* Proofs about TransactionManager, for any rows, savepoint names, bounds  *)
(* and any emergency stop.                                                 *)
(*                                                                         *)
(* The argument rests on the single context: the current xid is the last   *)
(* one handed out (CurrentIsLast), because only the newest xid ever        *)
(* becomes current and a dropped one never returns.  Rw edges are          *)
(* drawn from earlier readers to the current writer, so they all point     *)
(* from older to younger (EdgesPointForward), and no cycle can form.       *)
(***************************************************************************)
EXTENDS TransactionManager, WellFoundedInduction, SequenceTheorems, TLAPS

\* Only the newest xid becomes current, and a dropped one never returns.
CurrentIsLast == ctx.xid # InvalidXid => next_xid = ctx.xid + 1

\* A rw edge runs from an older reader to a younger writer.
EdgesPointForward ==
    \A r \in Xid : \A w \in in_conflict[r] : r < w

\* An xid that has not been handed out has no entry in the log.
FreshHaveNoVerdict == \A x \in Xid : x >= next_xid => clog[x] = "IN_PROGRESS"

\* The log and the active set.
LogInv == ActiveAreInProgress /\ FreshHaveNoVerdict /\ CurrentIsActive /\ UndoHasXid

\* The SSI books.
SsiInv == CurrentIsLast /\ SsiOnlyActive /\ EdgesPointForward

\* The inductive invariant.
IInv == TypeOK /\ LogInv /\ SsiInv /\ SnapshotSound

-----------------------------------------------------------------------------
\* A nonempty set of naturals has an oldest member.
LEMMA OldestExists ==
    ASSUME NEW s \in SUBSET Nat, s # {}
    PROVE  Oldest(s) \in s /\ \A y \in s : Oldest(s) <= y
<1> DEFINE Less == {p \in Nat \X Nat : p[1] < p[2]}
<1>1. IsWellFoundedOn(Less, Nat)
  BY NatLessThanWellFounded, Zenon DEF OpToRel
<1>2. PICK x \in s : \A y \in s : <<y, x>> \notin Less
  <2> HIDE DEF Less
  <2>1. QED
    BY <1>1, WFMin
<1>3. ASSUME NEW y \in s
      PROVE  x <= y
  <2>1. x \in Nat /\ y \in Nat
    OBVIOUS
  <2>2. y < x => <<y, x>> \in Less
    BY <2>1
  <2>3. ~(y < x)
    BY <1>2, <2>2
  <2>4. QED
    BY <2>1, <2>3
<1>4. QED
  BY <1>3 DEF Oldest

\* The vacuum horizon lies at or below every active xid.
LEMMA OldestActive ==
    ASSUME TypeOK
    PROVE  /\ OldestActiveXid \in Nat
           /\ \A x \in active_xids : OldestActiveXid <= x
           /\ active_xids = {} => OldestActiveXid = next_xid
           /\ active_xids # {} => OldestActiveXid \in active_xids
<1>1. active_xids \in SUBSET Nat /\ next_xid \in Nat
  BY DEF TypeOK, Xid, FirstNormalXid
<1>2. CASE active_xids = {}
  BY <1>1, <1>2 DEF OldestActiveXid
<1>3. CASE active_xids # {}
  BY <1>1, <1>3, OldestExists DEF OldestActiveXid
<1>4. QED
  BY <1>2, <1>3

\* Freezing the log changes nothing: below every active xid there are only
\* finished transactions.
LEMMA FreezeKeepsLog ==
    ASSUME TypeOK, ActiveAreInProgress
    PROVE  Frozen(clog) = clog
<1>1. \A x \in Xid : x < OldestActiveXid => clog[x] # "IN_PROGRESS"
  <2> SUFFICES ASSUME NEW x \in Xid, x < OldestActiveXid, clog[x] = "IN_PROGRESS"
               PROVE  FALSE
    OBVIOUS
  <2>1. x \in Nat /\ next_xid \in Nat
    BY DEF Xid, TypeOK, FirstNormalXid
  <2>2. x < next_xid
    <3>1. \A y \in active_xids : y < next_xid /\ y \in Nat
      BY DEF ActiveAreInProgress, Allocated, FirstNormalXid, TypeOK
    <3>2. QED
      BY <2>1, <3>1, OldestActive
  <2>3. x \in active_xids
    BY <2>1, <2>2 DEF ActiveAreInProgress, Allocated, Xid
  <2>4. QED
    BY <2>1, <2>3, OldestActive
<1>2. QED
  BY <1>1 DEF Frozen, TypeOK
-----------------------------------------------------------------------------
(* The steps, by what they do to xids, log and books.                      *)

\* Nothing but the context changes, and it keeps its xid and undo records or
\* loses both, and keeps its snapshot or loses it.
ContextStep ==
    /\ UNCHANGED <<next_xid, clog, active_xids, siread_map, in_conflict>>
    /\ \/ ctx'.xid = ctx.xid /\ ctx'.undo_records = ctx.undo_records
       \/ ctx'.xid = InvalidXid /\ ctx'.undo_records = <<>>
    /\ ctx'.snapshot \in {ctx.snapshot, NoSnapshot}

\* The current transaction ends with a verdict.
EndStep(verdict) ==
    /\ ctx.xid # InvalidXid
    /\ clog' = [clog EXCEPT ![ctx.xid] = verdict]
    /\ active_xids' = active_xids \ {ctx.xid}
    /\ Cleanup(ctx.xid)
    /\ ctx'.xid = InvalidXid /\ ctx'.undo_records = <<>>
    /\ ctx'.snapshot = NoSnapshot
    /\ UNCHANGED next_xid

\* A statement reads or writes under the current xid.
ScanStep == \E rows \in SUBSET Keys : Scan(rows)
WriteStep == \E recs \in Seq(UndoRecord), read, written \in SUBSET Keys :
                Write(recs, read, written)

\* What the context's fields are, one by one.
LEMMA ContextFields ==
    ASSUME TypeOK
    PROVE  /\ ctx.xid \in Xid \cup {InvalidXid}
           /\ ctx.undo_records \in Seq(UndoRecord)
           /\ ctx.snapshot \in Snapshot
           /\ ctx.savepoints \in Seq(Savepoint)
  BY DEF TypeOK, TransactionContext

\* Every step is of one of these kinds, or a restart.
LEMMA StepKinds ==
    ASSUME TypeOK, LogInv, Next
    PROVE  \/ ContextStep
           \/ EndStep("COMMITTED") \/ EndStep("ABORTED")
           \/ ScanStep \/ WriteStep \/ Restart
<1> USE DEF TypeOK, TransactionContext, LogInv, InvalidXid
<1>1. ASSUME NEW rows \in SUBSET Keys, Scan(rows)
      PROVE  ScanStep
  BY <1>1 DEF ScanStep
<1>2. ASSUME NEW r \in UndoRecord, NEW rows \in SUBSET Keys,
             Write(<<r>>, rows, {}) \/ Write(<<r>>, {}, rows)
      PROVE  WriteStep
  <2>1. <<r>> \in Seq(UndoRecord)
    OBVIOUS
  <2>2. QED
    BY <1>2, <2>1 DEF WriteStep
<1>3. CASE Refused \/ FreezeOldXids
  <2>1. clog' = clog
    BY <1>3, FreezeKeepsLog DEF Refused, FreezeOldXids
  <2>2. QED
    BY <1>3, <2>1 DEF Refused, FreezeOldXids, ContextStep
<1>4. ASSUME NEW level \in Isolation, SetIsolationLevel(level)
      PROVE  ContextStep
  BY <1>4 DEF SetIsolationLevel, ContextStep
<1>5. CASE StartTransactionCommand
  BY <1>5 DEF StartTransactionCommand, Started, ContextStep
<1>6. ASSUME NEW state \in BlockState, Committed(state)
      PROVE  ContextStep \/ EndStep("COMMITTED")
  <2>1. CASE ctx.xid = InvalidXid
    BY <1>6, <2>1 DEF Committed, Finish, ContextStep
  <2>2. CASE ctx.xid # InvalidXid
    BY <1>6, <2>2 DEF Committed, Finish, Ended, EndStep
  <2>3. QED
    BY <2>1, <2>2
<1>7. CASE CommitTransactionCommand
  <2>1. CASE Committed("DEFAULT")
    BY <1>6, <2>1 DEF BlockState
  <2>2. CASE ~Committed("DEFAULT")
    BY <1>7, <2>2 DEF CommitTransactionCommand, ContextStep
  <2>3. QED
    BY <2>1, <2>2
<1>8. CASE BeginTransactionBlock
  <2>1. CASE ctx.block_state = "DEFAULT"
    BY <1>8, <2>1 DEF BeginTransactionBlock, Started, ContextStep
  <2>2. CASE ctx.block_state # "DEFAULT"
    BY <1>8, <2>2 DEF BeginTransactionBlock, ContextStep
  <2>3. QED
    BY <2>1, <2>2
<1>9. CASE CommitTransaction
  <2>1. ctx.block_state \in BlockState
    OBVIOUS
  <2>2. QED
    BY <1>6, <1>9, <2>1 DEF CommitTransaction
<1>10. CASE AbortTransaction
  <2>1. CASE ctx.xid = InvalidXid
    BY <1>10, <2>1 DEF AbortTransaction, Finish, Ended, ContextStep
  <2>2. CASE ctx.xid # InvalidXid
    BY <1>10, <2>2 DEF AbortTransaction, Finish, Ended, EndStep
  <2>3. QED
    BY <2>1, <2>2
<1>11. CASE ResetContext
  BY <1>11 DEF ResetContext, IdleContext, ContextStep
<1>12. ASSUME NEW n \in Names, CreateSavepoint(n)
       PROVE  ContextStep
  BY <1>12 DEF CreateSavepoint, ContextStep
<1>13. ASSUME NEW i \in 1 .. MaxSavepoints, PopSavepoint(i)
       PROVE  ContextStep
  BY <1>13 DEF PopSavepoint, ContextStep
<1>14. QED
  BY <1>1, <1>2, <1>3, <1>4, <1>5, <1>7, <1>8, <1>9, <1>10, <1>11, <1>12, <1>13
     DEF Next
-----------------------------------------------------------------------------
(* The invariants, by kind of step.                                        *)

LEMMA ContextStepKeeps ==
    ASSUME IInv, ContextStep
    PROVE  LogInv' /\ SsiInv' /\ SnapshotSound'
<1> USE DEF IInv, ContextStep
<1>1. LogInv'
  BY DEF LogInv, ActiveAreInProgress, Allocated, FreshHaveNoVerdict, CurrentIsActive,
         UndoHasXid
<1>2. SsiInv'
  BY DEF SsiInv, CurrentIsLast, SsiOnlyActive, EdgesPointForward
<1>3. SnapshotSound'
  BY DEF SnapshotSound
<1>4. QED
  BY <1>1, <1>2, <1>3

LEMMA EndStepKeeps ==
    ASSUME IInv, NEW verdict \in {"COMMITTED", "ABORTED"}, EndStep(verdict)
    PROVE  LogInv' /\ SsiInv' /\ SnapshotSound'
<1> USE DEF IInv, EndStep
<1>1. ctx.xid \in Xid
  BY ContextFields
<1>2. LogInv'
  <2>1. ActiveAreInProgress'
    BY <1>1 DEF LogInv, TypeOK, ActiveAreInProgress, Allocated
  <2>2. FreshHaveNoVerdict'
    <3>1. ctx.xid \in Allocated /\ next_xid \in Nat
      BY DEF LogInv, CurrentIsActive, ActiveAreInProgress, TypeOK, FirstNormalXid
    <3>2. ctx.xid < next_xid
      BY <3>1 DEF Allocated, FirstNormalXid
    <3>3. ASSUME NEW x \in Xid, x >= next_xid
          PROVE  clog'[x] = "IN_PROGRESS"
      <4>1. x # ctx.xid /\ clog[x] = "IN_PROGRESS"
        BY <3>1, <3>2, <3>3 DEF Xid, LogInv, FreshHaveNoVerdict
      <4>2. QED
        BY <4>1 DEF TypeOK
    <3>4. next_xid' = next_xid /\ Xid' = Xid
      OBVIOUS
    <3>5. QED
      BY <3>3, <3>4, Zenon DEF FreshHaveNoVerdict
  <2>3. QED
    BY <2>1, <2>2 DEF LogInv, CurrentIsActive, UndoHasXid
<1>3. SsiInv'
  <2>1. SsiOnlyActive'
    BY <1>1 DEF SsiInv, SsiOnlyActive, Cleanup, TypeOK
  <2>2. EdgesPointForward'
    BY <1>1 DEF SsiInv, EdgesPointForward, Cleanup, TypeOK
  <2>3. QED
    BY <2>1, <2>2 DEF SsiInv, CurrentIsLast
<1>4. SnapshotSound'
  BY DEF SnapshotSound
<1>5. QED
  BY <1>2, <1>3, <1>4

LEMMA RestartKeeps ==
    ASSUME IInv, Restart
    PROVE  LogInv' /\ SsiInv' /\ SnapshotSound'
<1> USE DEF IInv, Restart
<1>1. LogInv'
  <2>1. ActiveAreInProgress'
    <3>1. Allocated \subseteq Xid
      BY TransactionAssumption
         DEF TransactionAssumption, Allocated, Xid, TypeOK, FirstNormalXid
    <3>2. \A x \in Allocated : clog'[x] # "IN_PROGRESS"
      BY <3>1
    <3>3. Allocated' = Allocated /\ active_xids' = {}
      BY DEF Allocated
    <3>4. QED
      BY <3>2, <3>3 DEF ActiveAreInProgress
  <2>2. FreshHaveNoVerdict'
    <3>1. next_xid \in Nat
      BY DEF TypeOK, FirstNormalXid
    <3>2. \A x \in Xid : x >= next_xid => x \notin Allocated
      BY <3>1 DEF Allocated, Xid, FirstNormalXid
    <3>3. QED
      BY <3>2 DEF LogInv, FreshHaveNoVerdict
  <2>3. QED
    BY <2>1, <2>2 DEF LogInv, CurrentIsActive, UndoHasXid, IdleContext
<1>2. SsiInv'
  BY DEF SsiInv, CurrentIsLast, SsiOnlyActive, EdgesPointForward, IdleContext
<1>3. SnapshotSound'
  BY DEF SnapshotSound, IdleContext
<1>4. QED
  BY <1>1, <1>2, <1>3

\* A snapshot taken now divides the xids soundly.
LEMMA FreshSnapshotSound ==
    ASSUME TypeOK, ActiveAreInProgress
    PROVE  /\ GetSnapshot \in Snapshot
           /\ GetSnapshot.xmin <= GetSnapshot.xmax
           /\ GetSnapshot.xmax = next_xid
           /\ \A x \in GetSnapshot.xip : GetSnapshot.xmin <= x /\ x < GetSnapshot.xmax
           /\ \A x \in Xid : x < GetSnapshot.xmax /\ x \notin GetSnapshot.xip
                               => clog[x] # "IN_PROGRESS"
<1>1. next_xid \in Nat /\ OldestActiveXid \in Nat
  BY OldestActive DEF TypeOK, FirstNormalXid
<1>2. \A x \in active_xids : x < next_xid /\ OldestActiveXid <= x /\ x \in Nat
  BY OldestActive DEF ActiveAreInProgress, Allocated, FirstNormalXid, TypeOK
<1>3. OldestActiveXid <= next_xid
  BY <1>1, <1>2, OldestActive
<1>4. \A x \in Xid : x < next_xid /\ x \notin active_xids => clog[x] # "IN_PROGRESS"
  BY <1>1 DEF ActiveAreInProgress, Allocated, Xid, FirstNormalXid
<1>5. active_xids \in SUBSET Xid
  BY DEF TypeOK
<1>6. QED
  BY <1>1, <1>2, <1>3, <1>4, <1>5 DEF GetSnapshot, Snapshot

LEMMA ScanStepKeeps ==
    ASSUME IInv, ScanStep
    PROVE  LogInv' /\ SsiInv' /\ SnapshotSound'
<1> USE DEF IInv
<1>1. PICK rows \in SUBSET Keys : Scan(rows)
  BY DEF ScanStep
<1>2. /\ ctx'.xid = ctx.xid /\ ctx'.undo_records = ctx.undo_records
      /\ ctx'.snapshot \in {ctx.snapshot, GetSnapshot}
  BY <1>1 DEF Scan, StatementSnapshot, TransactionSnapshot, TypeOK, TransactionContext
<1>3. LogInv'
  BY <1>1, <1>2 DEF Scan, LogInv, ActiveAreInProgress, Allocated, FreshHaveNoVerdict,
                    CurrentIsActive, UndoHasXid
<1>4. SsiInv'
  <2>1. SsiOnlyActive'
    BY <1>1 DEF Scan, Sireads, SsiInv, SsiOnlyActive, LogInv, CurrentIsActive
  <2>2. QED
    BY <1>1, <1>2, <2>1 DEF Scan, SsiInv, CurrentIsLast, EdgesPointForward
<1>5. SnapshotSound'
  <2>1. CASE ctx'.snapshot = ctx.snapshot
    BY <1>1, <2>1 DEF Scan, SnapshotSound
  <2>2. CASE ctx'.snapshot = GetSnapshot
    <3>1. ActiveAreInProgress
      BY DEF LogInv
    <3>2. next_xid \in Nat
      BY DEF TypeOK, FirstNormalXid
    <3>3. UNCHANGED <<next_xid, clog>>
      BY <1>1 DEF Scan
    <3>4. QED
      BY <2>2, <3>1, <3>2, <3>3, FreshSnapshotSound DEF SnapshotSound
  <2>3. QED
    BY <1>2, <2>1, <2>2
<1>6. QED
  BY <1>3, <1>4, <1>5

LEMMA WriteStepKeeps ==
    ASSUME IInv, WriteStep
    PROVE  LogInv' /\ SsiInv' /\ SnapshotSound'
<1> USE DEF IInv
<1>1. PICK recs \in Seq(UndoRecord), read \in SUBSET Keys, written \in SUBSET Keys :
        Write(recs, read, written)
  BY DEF WriteStep
<1>2. next_xid \in Nat /\ next_xid >= FirstNormalXid
  BY DEF TypeOK, FirstNormalXid
<1>3. /\ ctx'.xid = WriterXid /\ ctx'.snapshot = ctx.snapshot
      /\ siread_map' = Sireads(WriterXid, read)
      /\ in_conflict' = Conflicts(WriterXid, written)
  BY <1>1 DEF Write, TypeOK, TransactionContext
<1>4. WriterXid # InvalidXid
  BY <1>2 DEF WriterXid, InvalidXid, FirstNormalXid
\* What assigning an xid does to the log, in both cases.
<1>5. /\ next_xid' \in {next_xid, next_xid + 1} /\ next_xid' = WriterXid + 1
      /\ active_xids' = active_xids \cup {WriterXid}
      /\ clog' = [clog EXCEPT ![WriterXid] = "IN_PROGRESS"]
      /\ WriterXid \in Xid
      /\ Allocated' = Allocated \cup {WriterXid}
  <2>1. CASE ctx.xid # InvalidXid
    <3>1. WriterXid = ctx.xid /\ ctx.xid \in active_xids
      BY <2>1 DEF WriterXid, LogInv, CurrentIsActive
    <3>2. ctx.xid \in Allocated /\ clog[ctx.xid] = "IN_PROGRESS"
      BY <3>1 DEF LogInv, ActiveAreInProgress
    <3>3. UNCHANGED <<next_xid, active_xids, clog>>
      BY <1>1, <2>1 DEF Write, Assigned
    <3>4. QED
      BY <2>1, <3>1, <3>2, <3>3 DEF Allocated, TypeOK, SsiInv, CurrentIsLast
  <2>2. CASE ctx.xid = InvalidXid
    <3>1. /\ MayAllocate
          /\ next_xid' = next_xid + 1
          /\ active_xids' = active_xids \cup {next_xid}
          /\ clog' = [clog EXCEPT ![next_xid] = "IN_PROGRESS"]
      BY <1>1, <2>2, FreezeKeepsLog DEF Write, Assigned, LogInv
    <3>2. next_xid \in Xid
      BY <1>2, <3>1, TransactionAssumption
         DEF MayAllocate, Xid, TransactionAssumption, TypeOK, FirstNormalXid
    <3>3. Allocated' = Allocated \cup {next_xid}
      BY <1>2, <3>1 DEF Allocated, FirstNormalXid
    <3>4. QED
      BY <2>2, <3>1, <3>2, <3>3 DEF WriterXid
  <2>3. QED
    BY <2>1, <2>2
<1>6. \A x \in active_xids : x <= WriterXid
  <2>1. CASE ctx.xid # InvalidXid
    BY <1>2, <1>5, <2>1
       DEF WriterXid, SsiInv, CurrentIsLast, LogInv, ActiveAreInProgress, Allocated, Xid,
           FirstNormalXid
  <2>2. CASE ctx.xid = InvalidXid
    BY <1>2, <2>2 DEF WriterXid, LogInv, ActiveAreInProgress, Allocated, FirstNormalXid
  <2>3. QED
    BY <2>1, <2>2
<1>7. LogInv'
  <2>1. ActiveAreInProgress'
    BY <1>5 DEF LogInv, ActiveAreInProgress, TypeOK
  <2>2. CurrentIsActive' /\ UndoHasXid'
    BY <1>3, <1>4, <1>5 DEF CurrentIsActive, UndoHasXid
  <2>3. FreshHaveNoVerdict'
    BY <1>2, <1>5 DEF LogInv, FreshHaveNoVerdict, TypeOK, Xid
  <2>4. QED
    BY <2>1, <2>2, <2>3 DEF LogInv
<1>8. SsiInv'
  <2>1. CurrentIsLast'
    BY <1>3, <1>5 DEF CurrentIsLast
  <2>2. \A k \in Keys : siread_map'[k] \subseteq siread_map[k] \cup {WriterXid}
    BY <1>3 DEF Sireads
  <2>3. \A r \in Xid : /\ in_conflict'[r] \subseteq in_conflict[r] \cup {WriterXid}
                       /\ in_conflict'[r] # in_conflict[r]
                            => r # WriterXid /\ \E k \in Keys : r \in siread_map[k]
    BY <1>3 DEF Conflicts
  <2>4. SsiOnlyActive'
    BY <1>5, <2>2, <2>3 DEF SsiInv, SsiOnlyActive
  <2>5. EdgesPointForward'
    <3> SUFFICES ASSUME NEW r \in Xid, NEW w \in in_conflict'[r]
                 PROVE  r < w
      BY DEF EdgesPointForward
    <3>1. CASE w \in in_conflict[r]
      BY <3>1 DEF SsiInv, EdgesPointForward
    <3>2. CASE w \notin in_conflict[r]
      <4>1. w = WriterXid /\ r # WriterXid /\ r \in active_xids
        BY <2>3, <3>2 DEF SsiInv, SsiOnlyActive
      <4>2. QED
        BY <1>5, <1>6, <4>1 DEF Xid
    <3>3. QED
      BY <3>1, <3>2
  <2>6. QED
    BY <2>1, <2>4, <2>5 DEF SsiInv
<1>9. SnapshotSound'
  <2>1. CASE ctx.snapshot = NoSnapshot
    BY <1>3, <2>1 DEF SnapshotSound
  <2>2. CASE ctx.snapshot # NoSnapshot
    <3>1. ctx.snapshot.xmax \in Nat
      BY ContextFields DEF Snapshot
    <3>2. ctx.snapshot.xmax <= next_xid'
      BY <1>2, <1>5, <2>2, <3>1 DEF SnapshotSound
    <3>3. ASSUME NEW x \in Xid, x < ctx.snapshot.xmax, x \notin ctx.snapshot.xip
          PROVE  clog'[x] # "IN_PROGRESS"
      <4>1. clog[x] # "IN_PROGRESS"
        BY <2>2, <3>3 DEF SnapshotSound
      <4>2. x # WriterXid
        <5>1. CASE ctx.xid # InvalidXid
          BY <4>1, <5>1 DEF WriterXid, LogInv, CurrentIsActive, ActiveAreInProgress
        <5>2. CASE ctx.xid = InvalidXid
          BY <1>2, <2>2, <3>1, <3>3, <5>2 DEF WriterXid, SnapshotSound, Xid
        <5>3. QED
          BY <5>1, <5>2
      <4>3. QED
        BY <1>5, <4>1, <4>2 DEF TypeOK
    <3>4. QED
      BY <1>3, <2>2, <3>2, <3>3 DEF SnapshotSound
  <2>3. QED
    BY <2>1, <2>2
<1>10. QED
  BY <1>7, <1>8, <1>9
-----------------------------------------------------------------------------
(* Types.                                                                  *)

\* A write runs under a proper xid, below the emergency stop.
LEMMA WriterTyped ==
    ASSUME TypeOK, NEW recs, NEW read, NEW written, Write(recs, read, written)
    PROVE  WriterXid \in Xid
<1>1. CASE ctx.xid # InvalidXid
  BY <1>1, ContextFields DEF WriterXid
<1>2. CASE ctx.xid = InvalidXid
  BY <1>2, TransactionAssumption
     DEF TypeOK, Write, Assigned, MayAllocate, WriterXid, Xid, TransactionAssumption,
         FirstNormalXid
<1>3. QED
  BY <1>1, <1>2

\* Every operation leaves a context a context.
LEMMA ContextTyped ==
    ASSUME IInv, Next
    PROVE  ctx' \in TransactionContext
<1> USE DEF IInv, TypeOK, InvalidXid
<1>1. NoSnapshot \in Snapshot /\ IdleContext \in TransactionContext
  BY DEF NoSnapshot, Snapshot, IdleContext, TransactionContext, BlockState, Isolation
<1>2. ASSUME NEW rows \in SUBSET Keys, Scan(rows)
      PROVE  ctx' \in TransactionContext
  <2>1. StatementSnapshot \in Snapshot
    BY FreshSnapshotSound, ContextFields
       DEF LogInv, StatementSnapshot, TransactionSnapshot
  <2>2. QED
    BY <1>2, <2>1 DEF Scan, TransactionContext
<1>3. ASSUME NEW r \in UndoRecord, NEW rows \in SUBSET Keys,
             Write(<<r>>, rows, {}) \/ Write(<<r>>, {}, rows)
      PROVE  ctx' \in TransactionContext
  <2>1. WriterXid \in Xid
    BY <1>3, WriterTyped
  <2>2. ctx.undo_records \o <<r>> \in Seq(UndoRecord)
    BY ContextFields
  <2>3. ctx' = [ctx EXCEPT !.xid = WriterXid, !.undo_records = ctx.undo_records \o <<r>>]
    BY <1>3 DEF Write
  <2>4. QED
    BY <2>1, <2>2, <2>3 DEF TransactionContext
<1>4. CASE Refused \/ FreezeOldXids
  BY <1>4 DEF Refused, FreezeOldXids
<1>5. ASSUME NEW level \in Isolation, SetIsolationLevel(level)
      PROVE  ctx' \in TransactionContext
  BY <1>5 DEF SetIsolationLevel, TransactionContext
<1>6. ASSUME NEW state \in BlockState
      PROVE  /\ Started(state) \in TransactionContext
             /\ Ended(state) \in TransactionContext
             /\ [ctx EXCEPT !.block_state = state] \in TransactionContext
             /\ Committed(state) => ctx' \in TransactionContext
  <2>1. <<>> \in Seq(UndoRecord) /\ <<>> \in Seq(Savepoint) /\ 0 \in Nat
    OBVIOUS
  <2>2. Started(state) \in TransactionContext
    BY <1>1, <2>1 DEF Started, TransactionContext
  <2>3. Ended(state) \in TransactionContext
    BY <1>1, <2>1 DEF Ended, TransactionContext
  <2>4. [ctx EXCEPT !.block_state = state] \in TransactionContext
    BY DEF TransactionContext
  <2>5. Committed(state) => ctx' \in TransactionContext
    <3>1. [ctx EXCEPT !.undo_records = <<>>, !.snapshot = NoSnapshot, !.block_state = state]
            \in TransactionContext
      BY <1>1, <2>1 DEF TransactionContext
    <3>2. QED
      BY <2>3, <3>1 DEF Committed
  <2>6. QED
    BY <2>2, <2>3, <2>4, <2>5
<1>7. ctx.block_state \in BlockState
  BY DEF TransactionContext
<1>8. CASE StartTransactionCommand
  BY <1>6, <1>8 DEF StartTransactionCommand, BlockState
<1>9. CASE CommitTransactionCommand
  <2>1. [ctx EXCEPT !.command_id = ctx.command_id + 1] \in TransactionContext
    <3>1. ctx.command_id + 1 \in Nat
      BY DEF TransactionContext
    <3>2. QED
      BY <3>1 DEF TransactionContext
  <2>2. QED
    BY <1>6, <1>9, <2>1 DEF CommitTransactionCommand, BlockState
<1>10. CASE BeginTransactionBlock
  BY <1>6, <1>10 DEF BeginTransactionBlock, BlockState
<1>11. CASE CommitTransaction
  BY <1>6, <1>7, <1>11 DEF CommitTransaction
<1>12. CASE AbortTransaction
  BY <1>6, <1>7, <1>12 DEF AbortTransaction
<1>13. CASE ResetContext \/ Restart
  BY <1>1, <1>13 DEF ResetContext, Restart, TransactionContext
<1>14. ASSUME NEW n \in Names, CreateSavepoint(n)
       PROVE  ctx' \in TransactionContext
  <2>1. Len(ctx.undo_records) \in Nat
    BY ContextFields
  <2>2. Append(ctx.savepoints, [name |-> n, undo_position |-> Len(ctx.undo_records)])
          \in Seq(Savepoint)
    BY <2>1, ContextFields DEF Savepoint
  <2>3. QED
    BY <1>14, <2>2 DEF CreateSavepoint, TransactionContext
<1>15. ASSUME NEW n \in Names, NEW i \in 1 .. MaxSavepoints,
              IsLatest(n, i), PopSavepoint(i)
       PROVE  ctx' \in TransactionContext
  <2>1. i \in 1 .. Len(ctx.savepoints)
    BY <1>15 DEF IsLatest
  <2>2. SubSeq(ctx.savepoints, 1, i - 1) \in Seq(Savepoint)
    BY <2>1, ContextFields, SubSeqProperties
  <2>3. QED
    BY <1>15, <2>2 DEF PopSavepoint, TransactionContext
<1>16. QED
  BY <1>2, <1>3, <1>4, <1>5, <1>8, <1>9, <1>10, <1>11, <1>12, <1>13, <1>14, <1>15
     DEF Next

\* Every operation keeps the other variables in their types.
LEMMA NextKeepsTypes ==
    ASSUME IInv, Next
    PROVE  TypeOK'
<1> USE DEF IInv, TypeOK
<1>1. ctx' \in TransactionContext
  BY ContextTyped
<1>2. CASE ContextStep
  BY <1>1, <1>2 DEF ContextStep
<1>3. ASSUME NEW verdict \in {"COMMITTED", "ABORTED"}, EndStep(verdict)
      PROVE  TypeOK'
  BY <1>1, <1>3 DEF EndStep, Cleanup, Status
<1>4. CASE ScanStep
  <2>1. PICK rows \in SUBSET Keys : Scan(rows)
    BY <1>4 DEF ScanStep
  <2>2. siread_map' \in [Keys -> SUBSET Xid]
    BY <2>1, ContextFields DEF Scan, Sireads
  <2>3. QED
    BY <1>1, <2>1, <2>2 DEF Scan
<1>5. CASE WriteStep
  <2>1. PICK recs \in Seq(UndoRecord), read \in SUBSET Keys, written \in SUBSET Keys :
          Write(recs, read, written)
    BY <1>5 DEF WriteStep
  <2>2. WriterXid \in Xid
    BY <2>1, WriterTyped
  <2>3. siread_map' \in [Keys -> SUBSET Xid] /\ in_conflict' \in [Xid -> SUBSET Xid]
    BY <2>1, <2>2 DEF Write, Sireads, Conflicts
  <2>4. CASE ctx.xid # InvalidXid
    BY <1>1, <2>1, <2>3, <2>4 DEF Write, Assigned
  <2>5. CASE ctx.xid = InvalidXid
    <3>1. WriterXid = next_xid
      BY <2>5 DEF WriterXid
    <3>2. /\ next_xid' = next_xid + 1
          /\ active_xids' = active_xids \cup {next_xid}
          /\ clog' = [clog EXCEPT ![next_xid] = "IN_PROGRESS"]
      BY <2>1, <2>5, FreezeKeepsLog DEF Write, Assigned, LogInv
    <3>3. next_xid' \in FirstNormalXid .. XIDEmergencyStop
      BY <2>2, <3>1, <3>2, TransactionAssumption
         DEF TransactionAssumption, Xid, FirstNormalXid
    <3>4. QED
      BY <1>1, <2>2, <2>3, <3>1, <3>2, <3>3 DEF Status
  <2>6. QED
    BY <2>4, <2>5
<1>6. CASE Restart
  BY <1>1, <1>6 DEF Restart, Status
<1>7. QED
  BY <1>2, <1>3, <1>4, <1>5, <1>6, StepKinds
-----------------------------------------------------------------------------
(* The theorems.                                                           *)

\* The invariant holds throughout.
THEOREM Inductive == Spec => []IInv
<1>1. Init => IInv
  <2> SUFFICES ASSUME Init
               PROVE  IInv
    OBVIOUS
  <2> USE DEF Init
  <2>1. TypeOK
    BY TransactionAssumption
       DEF TypeOK, TransactionAssumption, Status, FirstNormalXid, InvalidXid,
           IdleContext, TransactionContext, NoSnapshot, Snapshot, BlockState, Isolation
  <2>2. LogInv
    BY DEF LogInv, ActiveAreInProgress, Allocated, FreshHaveNoVerdict,
           CurrentIsActive, UndoHasXid, IdleContext, FirstNormalXid
  <2>3. SsiInv
    BY DEF SsiInv, CurrentIsLast, SsiOnlyActive, EdgesPointForward, IdleContext
  <2>4. SnapshotSound
    BY DEF SnapshotSound, IdleContext
  <2>5. QED
    BY <2>1, <2>2, <2>3, <2>4 DEF IInv
<1>2. IInv /\ [Next]_tmVars => IInv'
  <2> SUFFICES ASSUME IInv, [Next]_tmVars
               PROVE  IInv'
    OBVIOUS
  <2>1. CASE UNCHANGED tmVars
    BY <2>1
       DEF tmVars, IInv, TypeOK, LogInv, SsiInv, ActiveAreInProgress, Allocated,
           FreshHaveNoVerdict, CurrentIsActive, UndoHasXid, CurrentIsLast, SsiOnlyActive,
           EdgesPointForward, SnapshotSound
  <2>2. CASE Next
    <3>1. LogInv' /\ SsiInv' /\ SnapshotSound'
      <4>1. TypeOK /\ LogInv
        BY DEF IInv
      <4>2. QED
        BY <2>2, <4>1, StepKinds, ContextStepKeeps, EndStepKeeps, ScanStepKeeps,
           WriteStepKeeps, RestartKeeps
    <3>2. QED
      BY <2>2, <3>1, NextKeepsTypes DEF IInv
  <2>3. QED
    BY <2>1, <2>2
<1>3. QED
  BY <1>1, <1>2, PTL DEF Spec

\* Every variable keeps its type: no xid at or past the emergency stop.
THEOREM TypeCorrect == Spec => []TypeOK
BY Inductive, PTL DEF IInv

\* The active set and the log agree, whatever is called in whatever order.
THEOREM ActiveCorrect == Spec => []ActiveAreInProgress
BY Inductive, PTL DEF IInv, LogInv

\* What is current can still end.
THEOREM CurrentCorrect == Spec => []CurrentIsActive
BY Inductive, PTL DEF IInv, LogInv

\* Undo records never outlive or precede their xid.
THEOREM UndoCorrect == Spec => []UndoHasXid
BY Inductive, PTL DEF IInv, LogInv

\* Transaction snapshots divide the xids soundly.
THEOREM SnapshotCorrect == Spec => []SnapshotSound
BY Inductive, PTL DEF IInv

\* The SSI books never name an ended transaction.
THEOREM SsiCorrect == Spec => []SsiOnlyActive
BY Inductive, PTL DEF IInv, SsiInv

\* No commit is ever refused as a pivot.
THEOREM PivotUnreachable == Spec => []NoPivot
<1>1. IInv => NoPivot
  <2> SUFFICES ASSUME IInv, NEW x \in Xid, NEW y \in in_conflict[x], x \in in_conflict[y]
               PROVE  FALSE
    BY DEF NoPivot, Pivot
  <2>1. y \in Xid
    BY DEF IInv, TypeOK
  <2>2. x < y /\ y < x
    BY <2>1 DEF IInv, SsiInv, EdgesPointForward
  <2>3. QED
    BY <2>1, <2>2 DEF Xid
<1>2. QED
  BY <1>1, Inductive, PTL

\* A verdict is final.
THEOREM VerdictsFinal == Spec => OneVerdict
<1> DEFINE Final == \A x \in Xid : clog[x] # "IN_PROGRESS" => clog'[x] = clog[x]
<1>1. IInv /\ [Next]_tmVars => [Final]_tmVars
  <2> SUFFICES ASSUME IInv, Next, NEW x \in Xid, clog[x] # "IN_PROGRESS"
               PROVE  clog'[x] = clog[x]
    OBVIOUS
  <2>1. TypeOK /\ LogInv
    BY DEF IInv
  <2>2. x \notin active_xids
    BY <2>1 DEF LogInv, ActiveAreInProgress
  <2>3. CASE ContextStep \/ ScanStep
    BY <2>3 DEF ContextStep, ScanStep, Scan
  <2>4. ASSUME NEW verdict, EndStep(verdict)
        PROVE  clog'[x] = clog[x]
    BY <2>1, <2>2, <2>4 DEF EndStep, LogInv, CurrentIsActive, TypeOK
  <2>5. CASE WriteStep
    <3>1. CASE ctx.xid # InvalidXid
      BY <2>5, <3>1 DEF WriteStep, Write, Assigned
    <3>2. CASE ctx.xid = InvalidXid
      <4>1. clog' = [clog EXCEPT ![next_xid] = "IN_PROGRESS"] /\ MayAllocate
        BY <2>1, <2>5, <3>2, FreezeKeepsLog DEF WriteStep, Write, Assigned, LogInv
      <4>2. clog[next_xid] = "IN_PROGRESS"
        BY <2>1, <4>1, TransactionAssumption
           DEF LogInv, FreshHaveNoVerdict, TypeOK, MayAllocate, Xid,
               TransactionAssumption, FirstNormalXid
      <4>3. QED
        BY <2>1, <4>1, <4>2 DEF TypeOK
    <3>3. QED
      BY <3>1, <3>2
  <2>6. CASE Restart
    BY <2>6 DEF Restart
  <2>7. QED
    BY <2>1, <2>3, <2>4, <2>5, <2>6, StepKinds
<1>2. QED
  BY <1>1, Inductive, PTL DEF Spec, OneVerdict

\* Transactions commit in the order of their xids: one during whose life
\* another was given an xid never commits.
THEOREM CommitsSerial == Spec => CommitsAreSerial
<1> DEFINE Serial == \A x \in Xid : clog[x] # "COMMITTED" /\ clog'[x] = "COMMITTED"
                                     => x = next_xid - 1
<1>1. IInv /\ [Next]_tmVars => [Serial]_tmVars
  <2> SUFFICES ASSUME IInv, Next,
                      NEW x \in Xid, clog[x] # "COMMITTED", clog'[x] = "COMMITTED"
               PROVE  x = next_xid - 1
    OBVIOUS
  <2>1. TypeOK /\ LogInv
    BY DEF IInv
  <2>2. CASE ContextStep \/ ScanStep
    BY <2>2 DEF ContextStep, ScanStep, Scan
  <2>3. ASSUME NEW verdict, EndStep(verdict)
        PROVE  x = next_xid - 1
    <3>1. x = ctx.xid /\ ctx.xid # InvalidXid
      BY <2>1, <2>3 DEF EndStep, TypeOK
    <3>2. next_xid = x + 1 /\ x \in Nat
      BY <3>1 DEF IInv, SsiInv, CurrentIsLast, Xid, FirstNormalXid
    <3>3. QED
      BY <3>2
  <2>4. CASE WriteStep
    <3>1. CASE ctx.xid # InvalidXid
      BY <2>4, <3>1 DEF WriteStep, Write, Assigned
    <3>2. CASE ctx.xid = InvalidXid
      <4>1. clog' = [clog EXCEPT ![next_xid] = "IN_PROGRESS"]
        BY <2>1, <2>4, <3>2, FreezeKeepsLog DEF WriteStep, Write, Assigned, LogInv
      <4>2. QED
        BY <2>1, <4>1 DEF TypeOK
    <3>3. QED
      BY <3>1, <3>2
  <2>5. CASE Restart
    BY <2>5 DEF Restart
  <2>6. QED
    BY <2>1, <2>2, <2>3, <2>4, <2>5, StepKinds
<1>2. QED
  BY <1>1, Inductive, PTL DEF Spec, CommitsAreSerial

\* One snapshot per transaction: no call replaces it by another, it only goes.
THEOREM SnapshotKept == Spec => SnapshotStable
<1> DEFINE Kept == ctx.snapshot # NoSnapshot /\ ctx'.snapshot # NoSnapshot
                     => ctx'.snapshot = ctx.snapshot
<1>1. IInv /\ [Next]_tmVars => [Kept]_tmVars
  <2> SUFFICES ASSUME IInv, Next, ctx.snapshot # NoSnapshot
               PROVE  ctx'.snapshot \in {ctx.snapshot, NoSnapshot}
    OBVIOUS
  <2>1. ctx \in TransactionContext
    BY DEF IInv, TypeOK
  <2>2. ASSUME NEW state
        PROVE  /\ Started(state).snapshot = NoSnapshot
               /\ Ended(state).snapshot = NoSnapshot
               /\ Committed(state) => ctx'.snapshot = NoSnapshot
    BY <2>1 DEF Started, Ended, Committed, TransactionContext
  <2>3. ASSUME NEW rows \in SUBSET Keys, Scan(rows)
        PROVE  ctx'.snapshot = ctx.snapshot
    BY <2>1, <2>3 DEF Scan, StatementSnapshot, TransactionSnapshot, TransactionContext
  <2>4. ASSUME NEW recs, NEW read, NEW written, Write(recs, read, written)
        PROVE  ctx'.snapshot = ctx.snapshot
    BY <2>1, <2>4 DEF Write, TransactionContext
  <2>5. CASE Refused \/ FreezeOldXids
    BY <2>5 DEF Refused, FreezeOldXids
  <2>6. ASSUME NEW level, SetIsolationLevel(level)
        PROVE  ctx'.snapshot = ctx.snapshot
    BY <2>1, <2>6 DEF SetIsolationLevel, TransactionContext
  <2>7. CASE StartTransactionCommand \/ BeginTransactionBlock
    BY <2>1, <2>2, <2>7
       DEF StartTransactionCommand, BeginTransactionBlock, TransactionContext
  <2>8. CASE CommitTransactionCommand \/ CommitTransaction
    BY <2>1, <2>2, <2>8
       DEF CommitTransactionCommand, CommitTransaction, TransactionContext
  <2>9. CASE AbortTransaction
    BY <2>2, <2>9 DEF AbortTransaction
  <2>10. CASE ResetContext \/ Restart
    BY <2>10 DEF ResetContext, Restart, IdleContext
  <2>11. ASSUME NEW n, CreateSavepoint(n)
         PROVE  ctx'.snapshot = ctx.snapshot
    BY <2>1, <2>11 DEF CreateSavepoint, TransactionContext
  <2>12. ASSUME NEW i, PopSavepoint(i)
         PROVE  ctx'.snapshot = ctx.snapshot
    BY <2>1, <2>12 DEF PopSavepoint, TransactionContext
  <2>13. QED
    BY <2>3, <2>4, <2>5, <2>6, <2>7, <2>8, <2>9, <2>10, <2>11, <2>12 DEF Next
<1>2. QED
  BY <1>1, Inductive, PTL DEF Spec, SnapshotStable
=============================================================================
