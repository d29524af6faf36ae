--------------------------- MODULE Recovery_proofs ---------------------------
(***************************************************************************)
(* Proofs about Recovery, for any number of rows, xids and sequence        *)
(* numbers, any checkpoint interval, and any number of stops and crashes.  *)
(*                                                                         *)
(* Until the first crash the undo list tells which rows the clients were   *)
(* last told of (Past), every record of the log belongs to a transaction   *)
(* that was not committed in the checkpoint, and the record of a commit    *)
(* comes after all others of its transaction: so that the replay after     *)
(* that crash applies no row, and what the checkpoint holds stays as it    *)
(* is.                                                                     *)
(***************************************************************************)
EXTENDS Recovery, FiniteSetTheorems, SequenceTheorems, WellFoundedInduction, TLAPS

-----------------------------------------------------------------------------
(* Types.                                                                  *)

Mems ==
    {m \in [table : BOOLEAN, next_xid : Nat, clog : CLogs, xid : Xid \cup {NoXid},
            undo : Seq(Undo), data : [RowIds -> SUBSET Version],
            row_ids : 0 .. MaxRowId, wal_seq : Nat] :
       m.next_xid >= 3 /\ \A k \in RowIds : IsFiniteSet(m.data[k])}
Wals == {w \in [file : Seq(Record), synced : Nat, seq : Nat] : w.synced <= Len(w.file)}
Ckps ==
    {c \in [table : BOOLEAN, last_seq : Nat,
            rows : SUBSET [row_id : RowIds, seq : Nat, row : Row],
            row_ids : 0 .. MaxRowId, next_xid : Nat, clog : CLogs] :
       c.next_xid >= 3 /\ IsFiniteSet(c.rows)}

TypeInv ==
    /\ mem \in Mems /\ wal \in Wals /\ ckp \in Ckps /\ crashes \in Nat
    /\ mem.xid = NoXid => mem.undo = <<>>

-----------------------------------------------------------------------------
(* Facts about sets of numbers and frames of files.                        *)

\* A nonempty set of naturals has a least member.
LEMMA Least ==
    ASSUME NEW s \in SUBSET Nat, s # {}
    PROVE  \E x \in s : \A y \in s : x <= y
<1> DEFINE Less == {p \in Nat \X Nat : p[1] < p[2]}
<1>1. IsWellFoundedOn(Less, Nat)
  BY NatLessThanWellFounded, Zenon DEF OpToRel
<1>2. PICK x \in s : \A y \in s : <<y, x>> \notin Less
  <2> HIDE DEF Less
  <2>1. QED
    BY <1>1, WFMin
<1>3. ASSUME NEW y \in s
      PROVE  x <= y
  <2>1. y < x => <<y, x>> \in Less
    OBVIOUS
  <2>2. QED
    BY <1>2, <2>1
<1>4. QED
  BY <1>3

\* Each of the members of a set of positions is the one with some number of
\* smaller ones.
LEMMA NthExists ==
    ASSUME NEW m \in Nat, NEW S \in SUBSET (1 .. m), NEW n \in 1 .. Cardinality(S)
    PROVE  Nth(S, n) \in S
<1> DEFINE Smaller(i) == {j \in S : j < i}
           Is(k, i) == Cardinality(Smaller(i)) = k - 1
           bad == {k \in 1 .. Cardinality(S) : \A i \in S : ~Is(k, i)}
<1>1. IsFiniteSet(S) /\ Cardinality(S) \in Nat
  <2>1. IsFiniteSet(1 .. m)
    BY FS_Interval
  <2>2. QED
    BY <2>1, FS_Subset, FS_CardinalityType
<1>2. SUFFICES bad = {}
  BY DEF Nth
<1>3. SUFFICES ASSUME bad # {}
               PROVE  FALSE
  OBVIOUS
<1>4. PICK k \in bad : \A l \in bad : k <= l
  <2>1. bad \in SUBSET Nat
    BY <1>1
  <2> HIDE DEF bad
  <2>2. QED
    BY <1>3, <2>1, Least
<1>5. k \in 1 .. Cardinality(S) /\ \A i \in S : ~Is(k, i)
  OBVIOUS
<1>6. PICK B \in SUBSET S : Cardinality(B) = k - 1 /\ \A x \in B, y \in S : y < x => y \in B
  <2>1. CASE k = 1
    BY <2>1, FS_EmptySet
  <2>2. CASE k > 1
    <3>1. k - 1 \in 1 .. Cardinality(S) /\ k - 1 \notin bad
      BY <1>1, <1>4, <1>5, <2>2
    <3>2. PICK i \in S : Is(k - 1, i)
      BY <3>1
    <3>3. IsFiniteSet(Smaller(i)) /\ i \notin Smaller(i)
      BY <1>1, FS_Subset
    <3>4. Cardinality(Smaller(i) \cup {i}) = k - 1
      <4> HIDE DEF Smaller
      <4>1. Cardinality(Smaller(i) \cup {i}) = Cardinality(Smaller(i)) + 1
        BY <3>3, FS_AddElement
      <4>2. QED
        BY <1>1, <1>5, <3>2, <4>1
    <3>5. Smaller(i) \cup {i} \in SUBSET S
      OBVIOUS
    <3>6. \A x \in Smaller(i) \cup {i}, y \in S : y < x => y \in Smaller(i) \cup {i}
      OBVIOUS
    <3>7. QED
      BY <3>4, <3>5, <3>6
  <2>3. QED
    BY <1>1, <1>5, <2>1, <2>2
<1>7. S \ B # {}
  <2>1. Cardinality(S) # k - 1
    BY <1>1, <1>5
  <2>2. S # B
    BY <1>6, <2>1
  <2>3. QED
    BY <2>2
<1>8. PICK i \in S \ B : \A j \in S \ B : i <= j
  <2>1. S \ B \in SUBSET Nat
    OBVIOUS
  <2>2. QED
    BY <1>7, <2>1, Least
<1>9. Smaller(i) = B
  <2>1. \A j \in S : j \in Int
    OBVIOUS
  <2>2. ASSUME NEW j \in B
        PROVE  j < i
    <3>1. i \in S /\ i \notin B /\ j \in S
      OBVIOUS
    <3>2. ~(i < j)
      BY <1>6, <3>1
    <3>3. QED
      BY <2>1, <3>1, <3>2
  <2>3. ASSUME NEW j \in S, j < i
        PROVE  j \in B
    <3>1. ~(i <= j)
      BY <2>1, <2>3
    <3>2. QED
      BY <1>8, <3>1
  <2>4. QED
    BY <2>2, <2>3
<1>10. QED
  BY <1>5, <1>6, <1>8, <1>9

\* What is kept of a file are frames of it.
LEMMA FramesFrom ==
    ASSUME NEW file, Len(file) \in Nat, NEW S \in SUBSET (1 .. Len(file))
    PROVE  /\ Len(Frames(file, S)) = Cardinality(S)
           /\ Cardinality(S) \in Nat
           /\ Frames(file, S) = [n \in 1 .. Cardinality(S) |-> Frames(file, S)[n]]
           /\ \A n \in 1 .. Cardinality(S) : \E i \in S : Frames(file, S)[n] = file[i]
<1>1. Cardinality(S) \in Nat
  <2>1. IsFiniteSet(1 .. Len(file))
    BY FS_Interval
  <2>2. QED
    BY <2>1, FS_Subset, FS_CardinalityType
<1>2. \A n \in 1 .. Cardinality(S) : Frames(file, S)[n] = file[Nth(S, n)]
  BY DEF Frames
<1>3. \A n \in 1 .. Cardinality(S) : Nth(S, n) \in S
  BY NthExists
<1>4. Len(Frames(file, S)) = Cardinality(S)
  BY <1>1 DEF Frames
<1>5. Frames(file, S) = [n \in 1 .. Cardinality(S) |-> Frames(file, S)[n]]
  BY DEF Frames
<1>6. QED
  BY <1>1, <1>2, <1>3, <1>4, <1>5

-----------------------------------------------------------------------------
(* The operators on memory, what they change and their types.              *)

\* A commit log is a function on some xids.
LEMMA CLogFacts ==
    /\ \A log \in CLogs : DOMAIN log \in SUBSET Xid /\ \A x \in DOMAIN log : log[x] \in Statuses
    /\ \A xids \in SUBSET Xid : \A log \in [xids -> Statuses] : log \in CLogs
  BY DEF CLogs

\* Setting a status enters the xid and changes no other.
LEMMA SetStatusIs ==
    ASSUME NEW log \in CLogs, NEW x \in Xid, NEW status \in Statuses
    PROVE  /\ SetStatus(log, x, status) \in CLogs
           /\ DOMAIN SetStatus(log, x, status) = DOMAIN log \cup {x}
           /\ SetStatus(log, x, status)[x] = status
           /\ \A y \in DOMAIN log : y # x => SetStatus(log, x, status)[y] = log[y]
           /\ StatusIn(SetStatus(log, x, status), x) = status
           /\ \A y : y # x => StatusIn(SetStatus(log, x, status), y) = StatusIn(log, y)
<1>1. DOMAIN log \in SUBSET Xid /\ \A y \in DOMAIN log : log[y] \in Statuses
  BY CLogFacts
<1>2. SetStatus(log, x, status) \in [DOMAIN log \cup {x} -> Statuses]
  BY <1>1 DEF SetStatus
<1>3. SetStatus(log, x, status) \in CLogs
  BY <1>1, <1>2, CLogFacts
<1>4. QED
  BY <1>2, <1>3 DEF SetStatus, StatusIn

\* The part of memory a put or an erase leaves alone.
SameXact(m, n) ==
    /\ n.table = m.table
    /\ n.next_xid = m.next_xid
    /\ n.clog = m.clog
    /\ n.xid = m.xid
    /\ n.undo = m.undo
    /\ n.row_ids = m.row_ids

LEMMA NextSeqIs ==
    ASSUME NEW m \in Mems
    PROVE  /\ NextSeq(m) \in Mems
           /\ SameXact(m, NextSeq(m))
           /\ NextSeq(m).data = m.data
           /\ NextSeq(m).wal_seq = m.wal_seq + 1
  BY DEF Mems, NextSeq, SameXact

LEMMA PutIs ==
    ASSUME NEW m \in Mems, NEW k \in RowIds, NEW row \in Row
    PROVE  /\ Put(m, k, row) \in Mems
           /\ SameXact(m, Put(m, k, row))
           /\ Put(m, k, row).wal_seq = m.wal_seq + 1
           /\ \A l \in RowIds \ {k} : Put(m, k, row).data[l] = m.data[l]
           /\ Put(m, k, row).data[k]
                = {v \in m.data[k] : v.seq # m.wal_seq + 1}
                  \cup {[seq |-> m.wal_seq + 1, row |-> row]}
<1> DEFINE n == m.wal_seq + 1
           versions == {v \in m.data[k] : v.seq # n} \cup {[seq |-> n, row |-> row]}
<1>1. /\ m.wal_seq \in Nat /\ n \in Nat /\ m.data \in [RowIds -> SUBSET Version]
      /\ IsFiniteSet(m.data[k])
  BY DEF Mems
<1>2. versions \in SUBSET Version
  BY <1>1 DEF Version
<1>3. IsFiniteSet(versions)
  <2>1. IsFiniteSet({v \in m.data[k] : v.seq # n})
    BY <1>1, FS_Subset
  <2>2. QED
    BY <2>1, FS_AddElement
<1>4. Put(m, k, row) = [NextSeq(m) EXCEPT !.data = [@ EXCEPT ![k] = versions]]
  <2>1. NextSeq(m) \in Mems /\ NextSeq(m).data = m.data
    BY NextSeqIs
  <2>2. QED
    BY <1>1, <2>1 DEF Put, Mems
<1> HIDE DEF versions
<1>5. Put(m, k, row) \in Mems
  <2>1. [m.data EXCEPT ![k] = versions] \in [RowIds -> SUBSET Version]
    BY <1>1, <1>2
  <2>2. \A l \in RowIds : IsFiniteSet([m.data EXCEPT ![k] = versions][l])
    BY <1>1, <1>3 DEF Mems
  <2>3. NextSeq(m) \in Mems /\ NextSeq(m).data = m.data
    BY NextSeqIs
  <2> DEFINE data == [m.data EXCEPT ![k] = versions]
  <2>4. Put(m, k, row) = [NextSeq(m) EXCEPT !.data = data]
    BY <1>4, <2>3 DEF Mems
  <2> HIDE DEF data
  <2>5. QED
    BY <2>1, <2>2, <2>3, <2>4 DEF Mems, data
<1>6. /\ Put(m, k, row).data = [m.data EXCEPT ![k] = versions]
      /\ Put(m, k, row).wal_seq = n
      /\ SameXact(m, Put(m, k, row))
  BY <1>4 DEF Mems, NextSeq, SameXact
<1>7. QED
  BY <1>1, <1>5, <1>6 DEF versions

LEMMA EraseIs ==
    ASSUME NEW m \in Mems, NEW k \in RowIds
    PROVE  /\ Erase(m, k) \in Mems
           /\ SameXact(m, Erase(m, k))
           /\ Erase(m, k).wal_seq = m.wal_seq
           /\ \A l \in RowIds \ {k} : Erase(m, k).data[l] = m.data[l]
           /\ Erase(m, k).data[k] = {}
  BY FS_EmptySet DEF Mems, Erase, SameXact

\* A put of a row that has just been erased leaves it alone.
LEMMA ReplaceIs ==
    ASSUME NEW m \in Mems, NEW k \in RowIds, NEW row \in Row
    PROVE  LET n == Put(Erase(m, k), k, row)
           IN  /\ n \in Mems
               /\ SameXact(m, n)
               /\ n.wal_seq = m.wal_seq + 1
               /\ \A l \in RowIds \ {k} : n.data[l] = m.data[l]
               /\ n.data[k] = {[seq |-> m.wal_seq + 1, row |-> row]}
<1>1. /\ Erase(m, k) \in Mems /\ SameXact(m, Erase(m, k))
      /\ Erase(m, k).wal_seq = m.wal_seq
      /\ \A l \in RowIds \ {k} : Erase(m, k).data[l] = m.data[l]
      /\ Erase(m, k).data[k] = {}
  BY EraseIs
<1>2. QED
  BY <1>1, PutIs DEF SameXact

\* assign_xid gives the next xid to a transaction that has none.
LEMMA AssignedIs ==
    ASSUME NEW m \in Mems, m.xid # NoXid \/ m.next_xid <= MaxXid
    PROVE  LET n == Assigned(m)
           IN  /\ n \in Mems
               /\ n.xid \in Xid
               /\ n.table = m.table /\ n.undo = m.undo /\ n.row_ids = m.row_ids
               /\ n.data = m.data /\ n.wal_seq = m.wal_seq
               /\ m.xid # NoXid => n = m
               /\ m.xid = NoXid => /\ n.xid = m.next_xid
                                   /\ n.next_xid = m.next_xid + 1
                                   /\ n.clog = SetStatus(m.clog, m.next_xid, "IN_PROGRESS")
<1>1. CASE m.xid # NoXid
  BY <1>1 DEF Assigned, Mems
<1>2. CASE m.xid = NoXid
  <2>1. m.next_xid \in Xid /\ MaxXid \in Nat
    BY <1>2, RecoveryAssumption DEF Mems, Xid
  <2> DEFINE log == SetStatus(m.clog, m.next_xid, "IN_PROGRESS")
  <2>2. log \in CLogs
    BY <2>1, SetStatusIs DEF Mems, Statuses
  <2>3. Assigned(m) = [m EXCEPT !.xid = m.next_xid, !.next_xid = m.next_xid + 1, !.clog = log]
    BY <1>2 DEF Assigned, Mems
  <2> HIDE DEF log
  <2>4. QED
    <3> DEFINE next == m.next_xid + 1
    <3>1. next \in Nat /\ next >= 3
      BY DEF Mems
    <3>2. Assigned(m) = [m EXCEPT !.xid = m.next_xid, !.next_xid = next, !.clog = log]
      BY <2>3
    <3> HIDE DEF next
    <3>3. Assigned(m) \in Mems
      BY <2>1, <2>2, <3>1, <3>2 DEF Mems
    <3>4. QED
      BY <1>2, <2>1, <2>3, <3>3 DEF Mems, log
<1>3. QED
  BY <1>1, <1>2

LEMMA AddUndoIs ==
    ASSUME NEW m \in Mems, NEW k \in RowIds, NEW op, NEW old,
           \/ op = "INSERT" /\ old = NoRow
           \/ op \in {"UPDATE", "DELETE"} /\ old \in Row
    PROVE  LET n == AddUndo(m, k, op, old)
           IN  /\ n \in Mems
               /\ n.undo = Append(m.undo, [row_id |-> k, op |-> op, old |-> old])
               /\ n.table = m.table /\ n.next_xid = m.next_xid /\ n.clog = m.clog
               /\ n.xid = m.xid /\ n.row_ids = m.row_ids
               /\ n.data = m.data /\ n.wal_seq = m.wal_seq
<1> DEFINE rec == [row_id |-> k, op |-> op, old |-> old]
<1>1. rec \in Undo
  BY DEF Undo
<1>2. Append(m.undo, rec) \in Seq(Undo)
  BY <1>1, AppendProperties DEF Mems
<1> DEFINE undo == Append(m.undo, rec)
<1>3. AddUndo(m, k, op, old) = [m EXCEPT !.undo = undo]
  BY DEF AddUndo, Mems
<1> HIDE DEF undo
<1>4. AddUndo(m, k, op, old) \in Mems
  BY <1>2, <1>3 DEF Mems, undo
<1>5. QED
  BY <1>3, <1>4 DEF Mems, undo

LEMMA EndedIs ==
    ASSUME NEW m \in Mems, m.xid # NoXid, NEW verdict \in {"COMMITTED", "ABORTED"}
    PROVE  LET n == Ended(m, verdict)
           IN  /\ n \in Mems
               /\ n.clog = SetStatus(m.clog, m.xid, verdict)
               /\ n.xid = NoXid /\ n.undo = <<>>
               /\ n.table = m.table /\ n.next_xid = m.next_xid /\ n.row_ids = m.row_ids
               /\ n.data = m.data /\ n.wal_seq = m.wal_seq
<1> DEFINE log == SetStatus(m.clog, m.xid, verdict)
<1>1. log \in CLogs
  BY SetStatusIs DEF Mems, Statuses
<1>2. Ended(m, verdict) = [m EXCEPT !.clog = log, !.xid = NoXid, !.undo = <<>>]
  BY DEF Ended, Mems
<1>3. <<>> \in Seq(Undo)
  BY EmptySeq
<1> HIDE DEF log
<1>4. Ended(m, verdict) \in Mems
  BY <1>1, <1>2, <1>3 DEF Mems
<1>5. QED
  BY <1>2, <1>4 DEF Mems, log

\* A finite, nonempty set of naturals has a greatest member.
LEMMA Greatest ==
    ASSUME NEW S \in SUBSET Nat, IsFiniteSet(S), S # {}
    PROVE  \E x \in S : \A y \in S : y <= x
<1> DEFINE Fails(n) == \E T \in SUBSET Nat : /\ IsFiniteSet(T) /\ Cardinality(T) = n /\ T # {}
                                             /\ ~ \E x \in T : \A y \in T : y <= x
           bad == {n \in Nat : Fails(n)}
<1>1. SUFFICES bad = {}
  <2>1. Cardinality(S) \in Nat
    BY FS_CardinalityType
  <2>2. QED
    BY <2>1
<1>2. SUFFICES ASSUME bad # {}
               PROVE  FALSE
  OBVIOUS
<1>3. PICK n \in bad : \A k \in bad : n <= k
  <2>1. bad \in SUBSET Nat
    OBVIOUS
  <2> HIDE DEF bad
  <2>2. QED
    BY <1>2, <2>1, Least
<1>4. n \in Nat
  OBVIOUS
<1>5. PICK T \in SUBSET Nat : /\ IsFiniteSet(T) /\ Cardinality(T) = n /\ T # {}
                              /\ ~ \E x \in T : \A y \in T : y <= x
  OBVIOUS
<1>6. PICK t \in T : TRUE
  BY <1>5
<1>7. /\ IsFiniteSet(T \ {t}) /\ Cardinality(T \ {t}) = n - 1
      /\ n - 1 \in Nat
  <2>1. IsFiniteSet(T \ {t}) /\ Cardinality(T \ {t}) = n - 1
    BY <1>5, FS_RemoveElement
  <2>2. QED
    BY <2>1, FS_CardinalityType
<1>8. n - 1 \notin bad
  <2>1. ~(n <= n - 1)
    BY <1>4
  <2> HIDE DEF bad
  <2>2. QED
    BY <1>3, <2>1
<1>9. CASE T \ {t} = {}
  <2>1. \A y \in T : y <= t
    BY <1>9
  <2>2. QED
    BY <1>5, <2>1
<1>10. CASE T \ {t} # {}
  <2>1. PICK x \in T \ {t} : \A y \in T \ {t} : y <= x
    BY <1>7, <1>8, <1>10
  <2>2. CASE x <= t
    BY <1>5, <2>1, <2>2
  <2>3. CASE t <= x
    BY <1>5, <2>1, <2>3
  <2>4. QED
    BY <2>2, <2>3
<1>11. QED
  BY <1>9, <1>10

\* The images of the members of a finite set are finitely many.
LEMMA Image ==
    ASSUME NEW f, IsFiniteSet(DOMAIN f), f = [x \in DOMAIN f |-> f[x]]
    PROVE  IsFiniteSet({f[x] : x \in DOMAIN f})
<1> DEFINE T == {f[x] : x \in DOMAIN f}
<1>1. f \in Surjection(DOMAIN f, T)
  BY DEF Surjection
<1>2. QED
  BY <1>1, FS_Surjection

-----------------------------------------------------------------------------
(* Checkpoints and what a start makes of them.                             *)

\* The rows of a checkpoint are the versions of memory.
LEMMA ScanAllIs ==
    ASSUME NEW m \in Mems
    PROVE  /\ ScanAll(m.data) \in SUBSET [row_id : RowIds, seq : Nat, row : Row]
           /\ IsFiniteSet(ScanAll(m.data))
           /\ \A p \in ScanAll(m.data) : \E v \in m.data[p.row_id] : p.seq = v.seq /\ p.row = v.row
           /\ \A k \in RowIds : \A v \in m.data[k] :
                [row_id |-> k, seq |-> v.seq, row |-> v.row] \in ScanAll(m.data)
<1> DEFINE Entries(k) == {[row_id |-> k, seq |-> v.seq, row |-> v.row] : v \in m.data[k]}
           all == [k \in RowIds |-> Entries(k)]
<1>1. /\ m.data \in [RowIds -> SUBSET Version]
      /\ \A k \in RowIds : IsFiniteSet(m.data[k])
  BY DEF Mems
<1>2. ASSUME NEW k \in RowIds
      PROVE  IsFiniteSet(Entries(k)) /\ Entries(k) \in SUBSET [row_id : RowIds, seq : Nat, row : Row]
  <2> DEFINE f == [v \in m.data[k] |-> [row_id |-> k, seq |-> v.seq, row |-> v.row]]
  <2>1. IsFiniteSet({f[v] : v \in DOMAIN f})
    <3>1. DOMAIN f = m.data[k] /\ f = [v \in DOMAIN f |-> f[v]]
      OBVIOUS
    <3> HIDE DEF f
    <3>2. QED
      BY <1>1, <3>1, Image
  <2>2. {f[v] : v \in DOMAIN f} = Entries(k)
    OBVIOUS
  <2>3. ASSUME NEW v \in m.data[k]
        PROVE  [row_id |-> k, seq |-> v.seq, row |-> v.row] \in [row_id : RowIds, seq : Nat, row : Row]
    BY <1>1 DEF Version
  <2>4. QED
    BY <2>1, <2>2, <2>3
<1>3. IsFiniteSet({all[k] : k \in RowIds})
  <2>1. DOMAIN all = RowIds /\ all = [k \in DOMAIN all |-> all[k]]
    OBVIOUS
  <2>2. IsFiniteSet(RowIds)
    BY RecoveryAssumption, FS_Interval DEF RowIds
  <2> HIDE DEF all
  <2>3. QED
    BY <2>1, <2>2, Image
<1>4. IsFiniteSet(UNION {all[k] : k \in RowIds})
  <2>1. \A T \in {all[k] : k \in RowIds} : IsFiniteSet(T)
    BY <1>2
  <2>2. QED
    BY <1>3, <2>1, FS_UNION
<1>5. ScanAll(m.data) = UNION {all[k] : k \in RowIds}
  BY DEF ScanAll
<1>6. ScanAll(m.data) = UNION {Entries(k) : k \in RowIds}
  BY DEF ScanAll
<1>7. ScanAll(m.data) \in SUBSET [row_id : RowIds, seq : Nat, row : Row]
  BY <1>2, <1>6
<1>8. QED
  BY <1>4, <1>5, <1>6, <1>7

LEMMA CheckpointOfIs ==
    ASSUME NEW m \in Mems
    PROVE  LET c == CheckpointOf(m)
           IN  /\ c \in Ckps
               /\ c.table = m.table /\ c.last_seq = m.wal_seq /\ c.rows = ScanAll(m.data)
               /\ c.row_ids = m.row_ids /\ c.next_xid = m.next_xid /\ c.clog = m.clog
<1> DEFINE rows == ScanAll(m.data)
<1>1. rows \in SUBSET [row_id : RowIds, seq : Nat, row : Row] /\ IsFiniteSet(rows)
  BY ScanAllIs
<1>2. CheckpointOf(m) = [table |-> m.table, last_seq |-> m.wal_seq, rows |-> rows,
                         row_ids |-> m.row_ids, next_xid |-> m.next_xid, clog |-> m.clog]
  BY DEF CheckpointOf
<1> HIDE DEF rows
<1>3. CheckpointOf(m) \in Ckps
  BY <1>1, <1>2 DEF Mems, Ckps
<1>4. QED
  BY <1>2, <1>3 DEF rows

LEMMA NoCheckpointType == NoCheckpoint \in Ckps
<1>1. <<>> \in CLogs
  <2>1. <<>> \in [{} -> Statuses]
    OBVIOUS
  <2>2. QED
    BY <2>1, CLogFacts
<1> DEFINE log == <<>>
<1>2. NoCheckpoint = [table |-> FALSE, last_seq |-> 0, rows |-> {}, row_ids |-> 0,
                      next_xid |-> 3, clog |-> log]
  BY DEF NoCheckpoint
<1>3. log \in CLogs
  BY <1>1
<1> HIDE DEF log
<1>4. 0 \in 0 .. MaxRowId
  BY RecoveryAssumption
<1>5. QED
  BY <1>2, <1>3, <1>4, FS_EmptySet DEF Ckps

\* rebuild_active_from_clog leaves nothing in progress and changes nothing else.
LEMMA RebuiltIs ==
    ASSUME NEW log \in CLogs
    PROVE  /\ Rebuilt(log) \in CLogs
           /\ DOMAIN Rebuilt(log) = DOMAIN log
           /\ \A x \in DOMAIN log :
                Rebuilt(log)[x] = IF log[x] = "IN_PROGRESS" THEN "ABORTED" ELSE log[x]
           /\ \A x : StatusIn(Rebuilt(log), x) = "COMMITTED" <=> StatusIn(log, x) = "COMMITTED"
<1>1. DOMAIN log \in SUBSET Xid /\ \A x \in DOMAIN log : log[x] \in Statuses
  BY CLogFacts
<1>2. Rebuilt(log) \in [DOMAIN log -> Statuses]
  BY <1>1 DEF Rebuilt, Statuses
<1>3. Rebuilt(log) \in CLogs
  BY <1>1, <1>2, CLogFacts
<1>4. QED
  BY <1>3 DEF Rebuilt, StatusIn

LEMMA FromCheckpointIs ==
    ASSUME NEW c \in Ckps
    PROVE  LET m == FromCheckpoint(c)
           IN  /\ m \in Mems
               /\ m.table = c.table /\ m.next_xid = c.next_xid /\ m.clog = Rebuilt(c.clog)
               /\ m.xid = NoXid /\ m.undo = <<>> /\ m.row_ids = c.row_ids
               /\ m.data = [k \in RowIds |->
                              {[seq |-> c.last_seq + Place(c.rows, p), row |-> p.row] :
                                 p \in {q \in c.rows : q.row_id = k}}]
<1>1. c.rows \in SUBSET [row_id : RowIds, seq : Nat, row : Row] /\ IsFiniteSet(c.rows)
      /\ c.last_seq \in Nat
  BY DEF Ckps
<1>2. \A p \in c.rows : Place(c.rows, p) \in Nat
  <2>1. ASSUME NEW p \in c.rows
        PROVE  Place(c.rows, p) \in Nat
    <3> DEFINE before == {q \in c.rows : \/ q.row_id < p.row_id
                                         \/ q.row_id = p.row_id /\ q.seq >= p.seq}
    <3>1. IsFiniteSet(before)
      BY <1>1, FS_Subset
    <3>2. QED
      BY <3>1, FS_CardinalityType DEF Place
  <2>2. QED
    BY <2>1
<1> DEFINE Versions(k) == {[seq |-> c.last_seq + Place(c.rows, p), row |-> p.row] :
                             p \in {q \in c.rows : q.row_id = k}}
           data == [k \in RowIds |-> Versions(k)]
           n == c.last_seq + Cardinality(c.rows)
<1>3. ASSUME NEW k \in RowIds
      PROVE  Versions(k) \in SUBSET Version /\ IsFiniteSet(Versions(k))
  <2> DEFINE P == {q \in c.rows : q.row_id = k}
             f == [p \in P |-> [seq |-> c.last_seq + Place(c.rows, p), row |-> p.row]]
  <2>1. IsFiniteSet({f[p] : p \in DOMAIN f})
    <3>1. DOMAIN f = P /\ f = [p \in DOMAIN f |-> f[p]]
      OBVIOUS
    <3>2. IsFiniteSet(P)
      BY <1>1, FS_Subset
    <3> HIDE DEF f, P
    <3>3. QED
      BY <3>1, <3>2, Image
  <2>2. {f[p] : p \in DOMAIN f} = Versions(k)
    OBVIOUS
  <2>3. Versions(k) \in SUBSET Version
    <3>1. ASSUME NEW p \in c.rows
          PROVE  [seq |-> c.last_seq + Place(c.rows, p), row |-> p.row] \in Version
      BY <1>1, <1>2 DEF Version
    <3>2. QED
      BY <3>1
  <2>4. QED
    BY <2>1, <2>2, <2>3
<1>4. data \in [RowIds -> SUBSET Version] /\ \A k \in RowIds : IsFiniteSet(data[k])
  BY <1>3
<1>5. n \in Nat
  BY <1>1, FS_CardinalityType
<1>6. FromCheckpoint(c) =
        [table |-> c.table, next_xid |-> c.next_xid, clog |-> Rebuilt(c.clog),
         xid |-> NoXid, undo |-> <<>>, data |-> data, row_ids |-> c.row_ids, wal_seq |-> n]
  BY DEF FromCheckpoint
<1> HIDE DEF data, n
<1>7. Rebuilt(c.clog) \in CLogs /\ <<>> \in Seq(Undo)
  BY RebuiltIs, EmptySeq DEF Ckps
<1>8. FromCheckpoint(c) \in Mems
  BY <1>4, <1>5, <1>6, <1>7 DEF Mems, Ckps
<1>9. QED
  BY <1>6, <1>8 DEF data

-----------------------------------------------------------------------------
(* Replay.                                                                 *)

\* Every record names a transaction, and one of a change its row.
LEMMA RecordFacts ==
    ASSUME NEW rec \in Record
    PROVE  /\ rec.seq \in Nat /\ rec.xid \in Xid
           /\ rec.op \in {"INSERT", "UPDATE", "DELETE", "XACT_COMMIT", "XACT_ABORT"}
           /\ rec.op \in {"INSERT", "UPDATE", "DELETE"} => rec.row_id \in RowIds /\ rec.row \in Row
  BY DEF Record

LEMMA GetLatestIn ==
    ASSUME NEW versions \in SUBSET Version, IsFiniteSet(versions), versions # {}
    PROVE  GetLatest(versions) \in versions
<1> DEFINE f == [v \in versions |-> v.seq]
           seqs == {f[v] : v \in DOMAIN f}
<1>1. IsFiniteSet(seqs)
  <2>1. DOMAIN f = versions /\ f = [v \in DOMAIN f |-> f[v]]
    OBVIOUS
  <2> HIDE DEF f
  <2>2. QED
    BY <2>1, Image
<1>2. seqs \in SUBSET Nat /\ seqs # {}
  BY DEF Version
<1>3. PICK n \in seqs : \A l \in seqs : l <= n
  <2> HIDE DEF seqs
  <2>1. QED
    BY <1>1, <1>2, Greatest
<1>4. PICK v \in versions : v.seq = n
  OBVIOUS
<1>5. \A w \in versions : w.seq <= v.seq
  BY <1>3, <1>4
<1>6. QED
  BY <1>5 DEF GetLatest

\* What no replay changes.
SameTxn(m, n) ==
    n.table = m.table /\ n.next_xid = m.next_xid /\ n.xid = m.xid /\ n.undo = m.undo

LEMMA ReplayRowType ==
    ASSUME NEW m \in Mems, NEW rec \in Record, rec.op \in {"INSERT", "UPDATE", "DELETE"}
    PROVE  ReplayRow(m, rec) \in Mems /\ SameTxn(m, ReplayRow(m, rec))
<1>1. rec.xid \in Xid /\ rec.row_id \in RowIds /\ rec.row \in Row
  BY RecordFacts
<1> DEFINE n == Put(m, rec.row_id, rec.row)
<1>2. n \in Mems /\ SameTxn(m, n)
  BY <1>1, PutIs DEF SameXact, SameTxn
<1>3. CASE rec.op = "INSERT"
  <2> DEFINE ids == IF rec.row_id > n.row_ids THEN rec.row_id ELSE n.row_ids
  <2>1. ids \in 0 .. MaxRowId
    BY <1>1, <1>2, RecoveryAssumption DEF RowIds, Mems
  <2>2. ReplayRow(m, rec) = [n EXCEPT !.row_ids = ids]
    BY <1>2, <1>3 DEF ReplayRow, Mems
  <2> HIDE DEF ids, n
  <2>3. QED
    BY <1>2, <2>1, <2>2 DEF Mems, SameTxn
<1>4. CASE rec.op = "UPDATE"
  BY <1>2, <1>4 DEF ReplayRow
<1>5. CASE rec.op = "DELETE"
  <2>1. CASE m.data[rec.row_id] = {}
    BY <1>5, <2>1 DEF ReplayRow, SameTxn
  <2>2. CASE m.data[rec.row_id] # {}
    <3> DEFINE v == GetLatest(m.data[rec.row_id])
    <3>1. v \in m.data[rec.row_id] /\ v \in Version
      BY <1>1, <2>2, GetLatestIn DEF Mems
    <3> HIDE DEF v
    <3>2. [v.row EXCEPT !.xmax = rec.xid] \in Row
      BY <1>1, <3>1 DEF Version, Row
    <3>3. ReplayRow(m, rec) = Put(m, rec.row_id, [v.row EXCEPT !.xmax = rec.xid])
      BY <1>5, <2>2 DEF ReplayRow, v
    <3>4. QED
      BY <1>1, <3>2, <3>3, PutIs DEF SameXact, SameTxn
  <2>3. QED
    BY <2>1, <2>2
<1>6. QED
  BY <1>3, <1>4, <1>5, RecordFacts

\* The record of the end of a transaction changes the commit log only.
LEMMA ReplayEnd ==
    ASSUME NEW m \in Mems, NEW rec \in Record, rec.op \in {"XACT_COMMIT", "XACT_ABORT"}
    PROVE  LET n == ReplayRecord(m, rec)
               verdict == IF rec.op = "XACT_COMMIT" THEN "COMMITTED" ELSE "ABORTED"
           IN  /\ n \in Mems
               /\ n.clog = SetStatus(m.clog, rec.xid, verdict)
               /\ n.data = m.data
               /\ SameTxn(m, n)
<1> DEFINE verdict == IF rec.op = "XACT_COMMIT" THEN "COMMITTED" ELSE "ABORTED"
           log == SetStatus(m.clog, rec.xid, verdict)
<1>1. log \in CLogs
  <2>1. m.clog \in CLogs /\ rec.xid \in Xid /\ verdict \in Statuses
    BY RecordFacts DEF Mems, Statuses
  <2> HIDE DEF verdict
  <2>2. QED
    BY <2>1, SetStatusIs
<1>2. ReplayRecord(m, rec) = [m EXCEPT !.clog = log]
  BY DEF ReplayRecord, Mems
<1> HIDE DEF log
<1>3. ReplayRecord(m, rec) \in Mems
  BY <1>1, <1>2 DEF Mems
<1>4. QED
  BY <1>2, <1>3 DEF log, Mems, SameTxn

LEMMA ReplayType ==
    ASSUME NEW m \in Mems, NEW rec \in Record
    PROVE  ReplayRecord(m, rec) \in Mems /\ SameTxn(m, ReplayRecord(m, rec))
<1>1. CASE rec.op \in {"XACT_COMMIT", "XACT_ABORT"}
  BY <1>1, ReplayEnd
<1>2. CASE rec.op \in {"INSERT", "UPDATE", "DELETE"}
  BY <1>2, ReplayRowType DEF ReplayRecord, SameTxn
<1>3. QED
  BY <1>1, <1>2, RecordFacts

\* The states of memory replay goes through.
Stages(m, file, from_seq, g) ==
    /\ g[0] = m
    /\ \A i \in 1 .. Len(file) : g[i] = ReplayAbove(g[i - 1], file[i], from_seq)

LEMMA ReplayedStages ==
    ASSUME NEW m, NEW file, NEW from_seq, Len(file) \in Nat
    PROVE  \E g : Stages(m, file, from_seq, g) /\ Replayed(m, file, from_seq) = g[Len(file)]
<1> DEFINE Is(n, g) == g = [i \in 0 .. n |->
                              IF i = 0 THEN m
                              ELSE ReplayAbove(g[i - 1], file[i], from_seq)]
           bad == {n \in Nat : \A g : ~Is(n, g)}
<1>1. bad = {}
  <2>1. SUFFICES ASSUME bad # {}
                 PROVE  FALSE
    OBVIOUS
  <2>2. PICK n \in bad : \A k \in bad : n <= k
    <3>1. bad \in SUBSET Nat
      OBVIOUS
    <3> HIDE DEF bad
    <3>2. QED
      BY <2>1, <3>1, Least
  <2>3. n \in Nat /\ \A g : ~Is(n, g)
    OBVIOUS
  <2>4. n # 0
    <3>1. \E f : Is(0, f)
      <4>1. Is(0, [i \in 0 .. 0 |-> m])
        OBVIOUS
      <4> HIDE DEF Is
      <4>2. QED
        BY <4>1
    <3> HIDE DEF Is
    <3>2. QED
      BY <2>3, <3>1
  <2>5. n - 1 \in Nat /\ n - 1 \notin bad
    <3>1. n \in Int /\ n - 1 \in Nat
      BY <2>3, <2>4
    <3> HIDE DEF bad
    <3>2. ~(n <= n - 1)
      BY <3>1
    <3>3. QED
      BY <2>2, <3>1, <3>2
  <2>6. PICK h : Is(n - 1, h)
    BY <2>5
  <2> DEFINE g == [i \in 0 .. n |-> IF i = n THEN ReplayAbove(h[n - 1], file[n], from_seq) ELSE h[i]]
  <2>7. Is(n, g)
    <3>1. ASSUME NEW i \in 0 .. n
          PROVE  g[i] = IF i = 0 THEN m
                        ELSE ReplayAbove(g[i - 1], file[i], from_seq)
      <4>1. CASE i = n
        <5>1. g[i - 1] = h[n - 1]
          BY <2>3, <2>4, <4>1
        <5>2. QED
          BY <2>3, <2>4, <4>1, <5>1
      <4>2. CASE i # n
        <5>1. i \in 0 .. n - 1 /\ g[i] = h[i]
          BY <2>3, <4>2
        <5>2. i # 0 => g[i - 1] = h[i - 1]
          BY <2>3, <4>2
        <5>3. h[i] = IF i = 0 THEN m
                     ELSE ReplayAbove(h[i - 1], file[i], from_seq)
          BY <2>6, <5>1
        <5>4. QED
          BY <5>1, <5>2, <5>3
      <4>3. QED
        BY <4>1, <4>2
    <3>2. g = [i \in 0 .. n |-> g[i]]
      OBVIOUS
    <3> HIDE DEF g
    <3>3. QED
      BY <3>1, <3>2
  <2>8. QED
    BY <2>3, <2>7
<1> DEFINE L == Len(file)
           g == CHOOSE f : Is(L, f)
<1>2. Replayed(m, file, from_seq) = g[L]
  BY DEF Replayed
<1>3. \E f : Is(L, f)
  BY <1>1
<1> HIDE DEF Is, bad
<1>4. Is(L, g)
  BY <1>3
<1> HIDE DEF g
<1>5. \A i \in 0 .. L : g[i] = IF i = 0 THEN m
                               ELSE ReplayAbove(g[i - 1], file[i], from_seq)
  BY <1>4 DEF Is
<1>6. Stages(m, file, from_seq, g)
  BY <1>5 DEF Stages
<1>7. QED
  BY <1>2, <1>6

\* Those of apply_undo.
UndoStages(m, undo, g) ==
    /\ g[0] = m
    /\ \A i \in 1 .. Len(undo) : g[i] = Undone(g[i - 1], undo[Len(undo) + 1 - i])

LEMMA UndoneStages ==
    ASSUME NEW m, NEW undo, Len(undo) \in Nat
    PROVE  \E g : UndoStages(m, undo, g) /\ ApplyUndo(m, undo) = g[Len(undo)]
<1> DEFINE Is(n, g) == g = [i \in 0 .. n |->
                              IF i = 0 THEN m
                              ELSE Undone(g[i - 1], undo[Len(undo) + 1 - i])]
           bad == {n \in Nat : \A g : ~Is(n, g)}
<1>1. bad = {}
  <2>1. SUFFICES ASSUME bad # {}
                 PROVE  FALSE
    OBVIOUS
  <2>2. PICK n \in bad : \A k \in bad : n <= k
    <3>1. bad \in SUBSET Nat
      OBVIOUS
    <3> HIDE DEF bad
    <3>2. QED
      BY <2>1, <3>1, Least
  <2>3. n \in Nat /\ \A g : ~Is(n, g)
    OBVIOUS
  <2>4. n # 0
    <3>1. \E f : Is(0, f)
      <4>1. Is(0, [i \in 0 .. 0 |-> m])
        OBVIOUS
      <4> HIDE DEF Is
      <4>2. QED
        BY <4>1
    <3> HIDE DEF Is
    <3>2. QED
      BY <2>3, <3>1
  <2>5. n - 1 \in Nat /\ n - 1 \notin bad
    <3>1. n \in Int /\ n - 1 \in Nat
      BY <2>3, <2>4
    <3> HIDE DEF bad
    <3>2. ~(n <= n - 1)
      BY <3>1
    <3>3. QED
      BY <2>2, <3>1, <3>2
  <2>6. PICK h : Is(n - 1, h)
    BY <2>5
  <2> DEFINE g == [i \in 0 .. n |-> IF i = n THEN Undone(h[n - 1], undo[Len(undo) + 1 - n]) ELSE h[i]]
  <2>7. Is(n, g)
    <3>1. ASSUME NEW i \in 0 .. n
          PROVE  g[i] = IF i = 0 THEN m
                        ELSE Undone(g[i - 1], undo[Len(undo) + 1 - i])
      <4>1. CASE i = n
        <5>1. g[i - 1] = h[n - 1]
          BY <2>3, <2>4, <4>1
        <5>2. QED
          BY <2>3, <2>4, <4>1, <5>1
      <4>2. CASE i # n
        <5>1. i \in 0 .. n - 1 /\ g[i] = h[i]
          BY <2>3, <4>2
        <5>2. i # 0 => g[i - 1] = h[i - 1]
          BY <2>3, <4>2
        <5>3. h[i] = IF i = 0 THEN m
                     ELSE Undone(h[i - 1], undo[Len(undo) + 1 - i])
          BY <2>6, <5>1
        <5>4. QED
          BY <5>1, <5>2, <5>3
      <4>3. QED
        BY <4>1, <4>2
    <3>2. g = [i \in 0 .. n |-> g[i]]
      OBVIOUS
    <3> HIDE DEF g
    <3>3. QED
      BY <3>1, <3>2
  <2>8. QED
    BY <2>3, <2>7
<1> DEFINE L == Len(undo)
           g == CHOOSE f : Is(L, f)
<1>2. ApplyUndo(m, undo) = g[L]
  BY DEF ApplyUndo
<1>3. \E f : Is(L, f)
  BY <1>1
<1> HIDE DEF Is, bad
<1>4. Is(L, g)
  BY <1>3
<1> HIDE DEF g
<1>5. \A i \in 0 .. L : g[i] = IF i = 0 THEN m
                               ELSE Undone(g[i - 1], undo[Len(undo) + 1 - i])
  BY <1>4 DEF Is
<1>6. UndoStages(m, undo, g)
  BY <1>5 DEF UndoStages
<1>7. QED
  BY <1>2, <1>6

LEMMA ReplayedType ==
    ASSUME NEW m \in Mems, NEW file \in Seq(Record), NEW from_seq
    PROVE  Replayed(m, file, from_seq) \in Mems /\ SameTxn(m, Replayed(m, file, from_seq))
<1>1. Len(file) \in Nat /\ \A i \in 1 .. Len(file) : file[i] \in Record
  BY ElementOfSeq, LenProperties
<1>2. PICK g : Stages(m, file, from_seq, g) /\ Replayed(m, file, from_seq) = g[Len(file)]
  BY <1>1, ReplayedStages
<1> DEFINE Right(n) == n \in Mems /\ SameTxn(m, n)
           bad == {i \in 0 .. Len(file) : ~Right(g[i])}
<1>3. bad = {}
  <2>1. SUFFICES ASSUME bad # {}
                 PROVE  FALSE
    OBVIOUS
  <2>2. PICK n \in bad : \A k \in bad : n <= k
    <3>1. bad \in SUBSET Nat
      OBVIOUS
    <3> HIDE DEF bad
    <3>2. QED
      BY <2>1, <3>1, Least
  <2>3. n \in 1 .. Len(file)
    BY <1>1, <1>2 DEF Stages, SameTxn
  <2>4. n - 1 \in 0 .. Len(file) /\ n - 1 \notin bad
    <3>1. n - 1 \in 0 .. Len(file) /\ ~(n <= n - 1)
      BY <1>1, <2>3
    <3> HIDE DEF bad
    <3>2. QED
      BY <2>2, <3>1
  <2>5. Right(g[n - 1])
    BY <2>4
  <2>6. /\ g[n] = ReplayAbove(g[n - 1], file[n], from_seq)
        /\ file[n] \in Record
    BY <1>1, <1>2, <2>3 DEF Stages
  <2>7. g[n] \in Mems /\ SameTxn(g[n - 1], g[n])
    <3>1. g[n] = g[n - 1] \/ g[n] = ReplayRecord(g[n - 1], file[n])
      BY <2>6 DEF ReplayAbove
    <3>2. SameTxn(g[n - 1], g[n - 1])
      BY DEF SameTxn
    <3>3. QED
      BY <2>5, <2>6, <3>1, <3>2, ReplayType
  <2>8. Right(g[n])
    BY <2>5, <2>7 DEF SameTxn
  <2>9. QED
    BY <2>8
<1>4. QED
  BY <1>1, <1>2, <1>3

\* The contents of a row in memory, and what an undo record makes of it.
RowsOf(m, k) == {v.row : v \in m.data[k]}
Before(rec) == IF rec.op = "INSERT" THEN {} ELSE {rec.old}

LEMMA UndoneType ==
    ASSUME NEW m \in Mems, NEW rec \in Undo
    PROVE  /\ Undone(m, rec) \in Mems
           /\ SameXact(m, Undone(m, rec))
           /\ Undone(m, rec).wal_seq >= m.wal_seq
           /\ \A l \in RowIds \ {rec.row_id} : Undone(m, rec).data[l] = m.data[l]
           /\ RowsOf(Undone(m, rec), rec.row_id) = Before(rec)
           /\ \A v, w \in Undone(m, rec).data[rec.row_id] : v = w
<1>1. rec.row_id \in RowIds
  BY DEF Undo
<1>2. CASE rec.op = "INSERT"
  BY <1>1, <1>2, EraseIs DEF Undone, RowsOf, Before, Mems
<1>3. CASE rec.op # "INSERT"
  <2>1. Undone(m, rec) = Put(Erase(m, rec.row_id), rec.row_id, rec.old)
    BY <1>3 DEF Undone
  <2>2. rec.old \in Row
    BY <1>3 DEF Undo
  <2> DEFINE n == Undone(m, rec)
  <2>3. /\ n \in Mems /\ SameXact(m, n) /\ n.wal_seq = m.wal_seq + 1
        /\ \A l \in RowIds \ {rec.row_id} : n.data[l] = m.data[l]
        /\ n.data[rec.row_id] = {[seq |-> m.wal_seq + 1, row |-> rec.old]}
    BY <1>1, <2>1, <2>2, ReplaceIs
  <2> HIDE DEF n
  <2>4. RowsOf(n, rec.row_id) = {rec.old}
    BY <2>3 DEF RowsOf
  <2>5. n.wal_seq >= m.wal_seq
    BY <2>3 DEF Mems
  <2>6. QED
    BY <1>3, <2>3, <2>4, <2>5 DEF n, Before
<1>4. QED
  BY <1>2, <1>3

-----------------------------------------------------------------------------
(* The log file.                                                           *)

LEMMA KeptType ==
    ASSUME NEW file \in Seq(Record), NEW cutoff
    PROVE  /\ Kept(file, cutoff) \in Seq(Record)
           /\ (\A i \in 1 .. Len(file) : ~(file[i].seq > cutoff)) => Kept(file, cutoff) = <<>>
<1> DEFINE S == {i \in 1 .. Len(file) : file[i].seq > cutoff}
           kept == Frames(file, S)
<1>1. Len(file) \in Nat /\ \A i \in 1 .. Len(file) : file[i] \in Record
  BY ElementOfSeq, LenProperties
<1>2. Kept(file, cutoff) = kept
  BY DEF Kept
<1>3. /\ Cardinality(S) \in Nat
      /\ kept = [n \in 1 .. Cardinality(S) |-> kept[n]]
      /\ \A n \in 1 .. Cardinality(S) : \E i \in S : kept[n] = file[i]
  <2>1. S \in SUBSET (1 .. Len(file))
    OBVIOUS
  <2> HIDE DEF S
  <2>2. QED
    BY <1>1, <2>1, FramesFrom
<1>4. kept \in Seq(Record)
  <2>1. \A n \in 1 .. Cardinality(S) : kept[n] \in Record
    BY <1>1, <1>3
  <2> DEFINE c == Cardinality(S)
  <2> HIDE DEF kept, c
  <2>2. kept \in [1 .. c -> Record] /\ c \in Nat
    BY <1>3, <2>1 DEF c
  <2>3. QED
    BY <2>2, SeqDef
<1>5. ASSUME S = {}
      PROVE  kept = <<>>
  <2>1. Cardinality(S) = 0
    BY <1>5, FS_EmptySet
  <2> HIDE DEF S
  <2>2. QED
    BY <2>1 DEF Frames
<1>6. QED
  BY <1>2, <1>4, <1>5

LEMMA SeqOfType ==
    ASSUME NEW file \in Seq(Record)
    PROVE  SeqOf(file) \in Nat
<1> DEFINE f == [i \in 1 .. Len(file) |-> file[i].seq]
           seqs == {0} \cup {f[i] : i \in 1 .. Len(file)}
<1>1. Len(file) \in Nat /\ \A i \in 1 .. Len(file) : file[i].seq \in Nat
  BY ElementOfSeq, LenProperties, RecordFacts
<1>2. IsFiniteSet({f[i] : i \in 1 .. Len(file)})
  <2>1. DOMAIN f = 1 .. Len(file) /\ f = [x \in DOMAIN f |-> f[x]]
    OBVIOUS
  <2>2. IsFiniteSet(1 .. Len(file))
    BY <1>1, FS_Interval
  <2> HIDE DEF f
  <2>3. QED
    BY <2>1, <2>2, Image
<1>3. IsFiniteSet(seqs)
  <2>1. seqs = {f[i] : i \in 1 .. Len(file)} \cup {0}
    OBVIOUS
  <2>2. QED
    BY <1>2, <2>1, FS_AddElement
<1>4. seqs \in SUBSET Nat /\ seqs # {}
  BY <1>1
<1>5. seqs = {0} \cup {file[i].seq : i \in 1 .. Len(file)}
  OBVIOUS
<1> HIDE DEF seqs
<1>6. \E x \in seqs : \A y \in seqs : y <= x
  BY <1>3, <1>4, Greatest
<1>7. SeqOf(file) \in seqs
  BY <1>5, <1>6 DEF SeqOf
<1>8. QED
  BY <1>4, <1>7

LEMMA AppendedIs ==
    ASSUME NEW w \in Wals, NEW rec \in Record
    PROVE  /\ Appended(w, rec) \in Wals
           /\ Appended(w, rec).file = Append(w.file, rec)
           /\ Appended(w, rec).seq = rec.seq
<1>1. /\ Append(w.file, rec) \in Seq(Record) /\ Len(w.file) \in Nat
      /\ Len(Append(w.file, rec)) = Len(w.file) + 1
  BY AppendProperties, LenProperties DEF Wals
<1> DEFINE file == Append(w.file, rec)
           n == IF rec.op \in {"XACT_COMMIT", "XACT_ABORT"} THEN Len(w.file) + 1 ELSE w.synced
<1>2. n \in Nat /\ n <= Len(w.file) + 1
  BY <1>1 DEF Wals
<1>3. Appended(w, rec) = [file |-> file, seq |-> rec.seq, synced |-> n]
  BY DEF Appended
<1> HIDE DEF file, n
<1>4. QED
  BY <1>1, <1>2, <1>3, RecordFacts DEF Wals, file

-----------------------------------------------------------------------------
(* apply_undo: of each row the first record of the list wins, as it is     *)
(* applied last.                                                           *)

\* Position j is the first one from i on that is about its row.
FirstFrom(undo, i, j) == \A l \in i .. j - 1 : undo[l].row_id # undo[j].row_id

LEMMA ApplyUndoIs ==
    ASSUME NEW m \in Mems, NEW undo \in Seq(Undo)
    PROVE  LET n == ApplyUndo(m, undo)
           IN  /\ n \in Mems
               /\ SameXact(m, n)
               /\ n.wal_seq >= m.wal_seq
               /\ \A k \in RowIds : (\A i \in 1 .. Len(undo) : undo[i].row_id # k)
                                      => n.data[k] = m.data[k]
               /\ \A i \in 1 .. Len(undo) : FirstFrom(undo, 1, i) =>
                    /\ RowsOf(n, undo[i].row_id) = Before(undo[i])
                    /\ \A v, w \in n.data[undo[i].row_id] : v = w
<1>1. Len(undo) \in Nat /\ \A i \in 1 .. Len(undo) : undo[i] \in Undo
  BY ElementOfSeq, LenProperties
<1>2. PICK g : UndoStages(m, undo, g) /\ ApplyUndo(m, undo) = g[Len(undo)]
  BY <1>1, UndoneStages
<1> DEFINE L == Len(undo)
           Right(n, i) ==
             /\ n \in Mems
             /\ SameXact(m, n)
             /\ n.wal_seq >= m.wal_seq
             /\ \A k \in RowIds : (\A j \in i .. L : undo[j].row_id # k) => n.data[k] = m.data[k]
             /\ \A j \in i .. L : FirstFrom(undo, i, j) =>
                  /\ RowsOf(n, undo[j].row_id) = Before(undo[j])
                  /\ \A v, w \in n.data[undo[j].row_id] : v = w
           bad == {i \in 0 .. L : ~Right(g[i], L + 1 - i)}
<1>3. ASSUME NEW n, NEW i \in 1 .. L, Right(n, i + 1)
      PROVE  Right(Undone(n, undo[i]), i)
  <2> DEFINE r == undo[i]
             u == Undone(n, r)
  <2>1. r \in Undo /\ r.row_id \in RowIds /\ n \in Mems
    BY <1>1, <1>3 DEF Undo
  <2>2. /\ u \in Mems /\ SameXact(n, u) /\ u.wal_seq >= n.wal_seq
        /\ \A l \in RowIds \ {r.row_id} : u.data[l] = n.data[l]
        /\ RowsOf(u, r.row_id) = Before(r)
        /\ \A v, w \in u.data[r.row_id] : v = w
    BY <2>1, UndoneType
  <2>3. \A l \in RowIds \ {r.row_id} : RowsOf(u, l) = RowsOf(n, l)
    BY <2>2 DEF RowsOf
  <2>4. SameXact(m, u) /\ u.wal_seq >= m.wal_seq
    BY <1>3, <2>1, <2>2 DEF SameXact, Mems
  <2> HIDE DEF u
  <2>5. ASSUME NEW k \in RowIds, \A j \in i .. L : undo[j].row_id # k
        PROVE  u.data[k] = m.data[k]
    <3>1. i \in i .. L /\ \A j \in i + 1 .. L : undo[j].row_id # k
      BY <1>1, <2>5
    <3>2. n.data[k] = m.data[k] /\ r.row_id # k
      BY <1>3, <2>5, <3>1
    <3>3. QED
      BY <2>2, <3>2
  <2>6. ASSUME NEW j \in i .. L, FirstFrom(undo, i, j)
        PROVE  /\ RowsOf(u, undo[j].row_id) = Before(undo[j])
               /\ \A v, w \in u.data[undo[j].row_id] : v = w
    <3>1. CASE j = i
      BY <2>2, <3>1
    <3>2. CASE j # i
      <4>1. j \in i + 1 .. L /\ undo[j].row_id # r.row_id
        BY <1>1, <2>6, <3>2 DEF FirstFrom
      <4>2. FirstFrom(undo, i + 1, j)
        BY <1>1, <2>6, <4>1 DEF FirstFrom
      <4>3. undo[j].row_id \in RowIds
        BY <1>1, <4>1 DEF Undo
      <4>4. QED
        BY <1>3, <2>2, <2>3, <4>1, <4>2, <4>3
    <3>3. QED
      BY <3>1, <3>2
  <2>7. QED
    BY <2>2, <2>4, <2>5, <2>6 DEF u
<1> HIDE DEF Right
<1>4. bad = {}
  <2>1. SUFFICES ASSUME bad # {}
                 PROVE  FALSE
    OBVIOUS
  <2>2. PICK i \in bad : \A k \in bad : i <= k
    <3>1. bad \in SUBSET Nat
      OBVIOUS
    <3> HIDE DEF bad
    <3>2. QED
      BY <2>1, <3>1, Least
  <2>3. i \in 0 .. L /\ ~Right(g[i], L + 1 - i)
    OBVIOUS
  <2>4. Right(g[0], L + 1)
    <3>1. g[0] = m
      BY <1>2 DEF UndoStages
    <3>2. \A j \in L + 1 .. L : FALSE
      BY <1>1
    <3>3. m.wal_seq >= m.wal_seq
      BY DEF Mems
    <3>4. QED
      BY <3>1, <3>2, <3>3 DEF Right, SameXact
  <2>5. i \in 1 .. L /\ L + 1 - i \in 1 .. L /\ i - 1 \in 0 .. L
        /\ L + 1 - (i - 1) = (L + 1 - i) + 1
    BY <1>1, <2>3, <2>4
  <2>6. i - 1 \notin bad
    <3>1. ~(i <= i - 1)
      BY <2>5
    <3> HIDE DEF bad
    <3>2. QED
      BY <2>2, <3>1
  <2>7. Right(g[i - 1], (L + 1 - i) + 1)
    BY <2>5, <2>6
  <2>8. g[i] = Undone(g[i - 1], undo[L + 1 - i])
    BY <1>2, <2>5 DEF UndoStages
  <2>9. QED
    BY <1>3, <2>3, <2>5, <2>7, <2>8
<1>5. Right(g[L], L + 1 - L)
  BY <1>1, <1>4
<1>6. Right(g[L], 1)
  BY <1>1, <1>5
<1>7. QED
  BY <1>2, <1>6 DEF Right

-----------------------------------------------------------------------------
(* The steps and their types.                                              *)

LEMMA InitType ==
    ASSUME Init
    PROVE  TypeInv
<1>1. <<>> \in CLogs
  <2>1. <<>> \in [{} -> Statuses]
    OBVIOUS
  <2>2. QED
    BY <2>1, CLogFacts
<1>2. ckp \in Ckps
  <2>1. ckp = [NoCheckpoint EXCEPT !.table = TRUE, !.last_seq = 1]
    BY DEF Init
  <2>2. QED
    BY <2>1, NoCheckpointType DEF Ckps
<1>3. wal \in Wals
  <2>1. <<>> \in Seq(Record) /\ Len(<<>>) = 0
    BY EmptySeq
  <2> DEFINE file == <<>>
  <2>2. wal = [file |-> file, synced |-> 0, seq |-> 0]
    BY DEF Init
  <2>3. file \in Seq(Record) /\ Len(file) = 0
    BY <2>1
  <2> HIDE DEF file
  <2>4. QED
    BY <2>2, <2>3 DEF Wals
<1>4. mem \in Mems
  <2> DEFINE log == <<>>
             undo == <<>>
  <2>1. mem = [table |-> TRUE, next_xid |-> 3, clog |-> log, xid |-> NoXid,
               undo |-> undo, data |-> EmptyTable, row_ids |-> 0, wal_seq |-> 1]
    BY DEF Init
  <2>2. log \in CLogs /\ undo \in Seq(Undo)
    BY <1>1, EmptySeq
  <2>3. EmptyTable \in [RowIds -> SUBSET Version] /\ \A k \in RowIds : IsFiniteSet(EmptyTable[k])
    BY FS_EmptySet DEF EmptyTable
  <2>4. 0 \in 0 .. MaxRowId
    BY RecoveryAssumption
  <2> HIDE DEF log, undo
  <2>5. QED
    BY <2>1, <2>2, <2>3, <2>4 DEF Mems
<1>5. QED
  BY <1>2, <1>3, <1>4 DEF Init, TypeInv

\* What checkpoint() leaves.
Saved(m, w) ==
    /\ ckp' = CheckpointOf(m)
    /\ wal'.file = Kept(w.file, m.wal_seq)
    /\ wal'.seq = mem'.wal_seq
    /\ SameXact(m, mem')
    /\ mem'.data = m.data

LEMMA CheckpointStep ==
    ASSUME NEW m \in Mems, NEW w \in Wals, Checkpoint(m, w)
    PROVE  /\ mem' \in Mems /\ wal' \in Wals /\ ckp' \in Ckps
           /\ Saved(m, w)
<1> DEFINE kept == Kept(w.file, m.wal_seq)
           n == SeqAfter(w, kept)
<1>1. kept \in Seq(Record)
  BY KeptType DEF Wals
<1>2. n \in Nat
  <2>1. CASE kept = <<>>
    BY <2>1 DEF SeqAfter, Wals
  <2>2. CASE kept # <<>>
    <3> HIDE DEF kept
    <3>1. Len(kept) \in 1 .. Len(kept)
      BY <1>1, <2>2, EmptySeq, LenProperties
    <3>2. kept[Len(kept)] \in Record
      BY <1>1, <3>1, ElementOfSeq
    <3>3. QED
      BY <2>2, <3>2, RecordFacts DEF SeqAfter
  <2>3. QED
    BY <2>1, <2>2
<1>3. /\ ckp' = CheckpointOf(m)
      /\ wal' = [file |-> kept, synced |-> Len(kept), seq |-> n]
      /\ mem' = [m EXCEPT !.wal_seq = n]
  BY DEF Checkpoint
<1> HIDE DEF kept, n
<1>4. mem' \in Mems
  BY <1>2, <1>3 DEF Mems
<1>5. wal' \in Wals
  BY <1>1, <1>2, <1>3, LenProperties DEF Wals
<1>6. ckp' \in Ckps
  BY <1>3, CheckpointOfIs
<1>7. Saved(m, w)
  BY <1>3 DEF Saved, SameXact, kept, Mems
<1>8. QED
  BY <1>4, <1>5, <1>6, <1>7

LEMMA MaybeCheckpointStep ==
    ASSUME NEW m \in Mems, NEW w \in Wals, ckp \in Ckps, MaybeCheckpoint(m, w)
    PROVE  /\ mem' \in Mems /\ wal' \in Wals /\ ckp' \in Ckps
           /\ \/ Saved(m, w)
              \/ mem' = m /\ wal' = w /\ ckp' = ckp
<1>1. \/ Checkpoint(m, w)
      \/ mem' = m /\ wal' = w /\ ckp' = ckp
  BY DEF MaybeCheckpoint
<1>2. QED
  BY <1>1, CheckpointStep

\* What a statement does: the memory m and the record rec it ends with, before
\* the automatic checkpoint.
Wrote(m, rec, k, op, old, row) ==
    LET a == Assigned(mem)
    IN  /\ m \in Mems /\ rec \in Record
        /\ rec.xid = a.xid /\ rec.op = op
        /\ rec.seq \in mem.wal_seq + 1 .. m.wal_seq
        /\ m.next_xid = a.next_xid /\ m.clog = a.clog /\ m.xid = a.xid
        /\ m.undo = Append(mem.undo, [row_id |-> k, op |-> op, old |-> old])
        /\ \A l \in RowIds \ {k} : m.data[l] = mem.data[l]
        /\ op # "INSERT" \/ mem.data[k] = {} => \E s : m.data[k] = {[seq |-> s, row |-> row]}
        /\ m.row_ids = IF op = "INSERT" THEN k ELSE mem.row_ids
        /\ MaybeCheckpoint(m, Appended(wal, rec))

LEMMA InsertWrote ==
    ASSUME TypeInv, NEW val \in Values, Insert(val)
    PROVE  LET k == mem.row_ids + 1
               row == [xmin |-> Assigned(mem).xid, xmax |-> NoXid, cid |-> 0, val |-> val]
           IN  /\ k \in RowIds /\ row \in Row
               /\ \E m, rec : Wrote(m, rec, k, "INSERT", NoRow, row)
<1> DEFINE k == mem.row_ids + 1
           a == Assigned(mem)
           m == AddUndo(a, k, "INSERT", NoRow)
           row == [xmin |-> m.xid, xmax |-> NoXid, cid |-> 0, val |-> val]
           rec == [seq |-> m.wal_seq + 1, xid |-> m.xid, op |-> "INSERT",
                   row_id |-> k, row |-> row]
           p == Put(NextSeq(m), k, row)
           n == [p EXCEPT !.row_ids = k]
<1>1. k \in RowIds /\ mem \in Mems /\ (mem.xid # NoXid \/ mem.next_xid <= MaxXid)
  BY DEF Insert, Bounded, TypeInv
<1>2. /\ a \in Mems /\ a.xid \in Xid /\ a.undo = mem.undo /\ a.row_ids = mem.row_ids
      /\ a.data = mem.data /\ a.wal_seq = mem.wal_seq
  BY <1>1, AssignedIs
<1>3. /\ m \in Mems /\ m.undo = Append(mem.undo, [row_id |-> k, op |-> "INSERT", old |-> NoRow])
      /\ m.next_xid = a.next_xid /\ m.clog = a.clog /\ m.xid = a.xid
      /\ m.row_ids = mem.row_ids /\ m.data = mem.data /\ m.wal_seq = mem.wal_seq
  <2> HIDE DEF a, k
  <2>1. QED
    BY <1>1, <1>2, AddUndoIs
<1>4. row \in Row /\ rec \in Record
  <2>1. m.wal_seq + 1 \in Nat /\ m.xid \in Xid
    BY <1>2, <1>3 DEF Mems
  <2>2. row \in Row
    BY <2>1 DEF Row
  <2>3. QED
    BY <1>1, <2>1, <2>2 DEF Record
<1>5. /\ p \in Mems /\ SameXact(m, p) /\ p.wal_seq = mem.wal_seq + 2
      /\ \A l \in RowIds \ {k} : p.data[l] = mem.data[l]
      /\ mem.data[k] = {} => p.data[k] = {[seq |-> mem.wal_seq + 2, row |-> row]}
  <2> HIDE DEF m, k, row
  <2>1. /\ NextSeq(m) \in Mems /\ SameXact(m, NextSeq(m))
        /\ NextSeq(m).data = mem.data /\ NextSeq(m).wal_seq = mem.wal_seq + 1
    BY <1>3, NextSeqIs
  <2>2. mem.wal_seq \in Nat
    BY <1>1 DEF Mems
  <2>3. QED
    BY <1>1, <1>4, <2>1, <2>2, PutIs DEF SameXact
<1>6. /\ n \in Mems /\ n.row_ids = k /\ n.data = p.data /\ n.wal_seq = p.wal_seq
      /\ n.next_xid = a.next_xid /\ n.clog = a.clog /\ n.xid = a.xid /\ n.undo = m.undo
  <2>1. k \in 0 .. MaxRowId
    BY <1>1, RecoveryAssumption DEF RowIds
  <2> HIDE DEF p, k, m, a
  <2>2. n \in Mems
    BY <1>5, <2>1 DEF Mems
  <2>3. QED
    BY <1>3, <1>5, <2>2 DEF Mems, SameXact
<1>7. MaybeCheckpoint(n, Appended(wal, rec))
  BY DEF Insert
<1>8. rec.seq \in mem.wal_seq + 1 .. n.wal_seq /\ rec.xid = a.xid
  <2>1. rec.seq = m.wal_seq + 1 /\ mem.wal_seq \in Nat
    BY <1>1 DEF Mems
  <2> HIDE DEF n, rec
  <2>2. QED
    BY <1>3, <1>5, <1>6, <2>1 DEF rec
<1>9. rec.op = "INSERT"
  OBVIOUS
<1>10. Wrote(n, rec, k, "INSERT", NoRow, row)
  <2> HIDE DEF n, p, rec, m, k, a, row
  <2>1. QED
    BY <1>3, <1>4, <1>5, <1>6, <1>7, <1>8, <1>9 DEF Wrote, a
<1>11. row = [xmin |-> a.xid, xmax |-> NoXid, cid |-> 0, val |-> val]
  <2> HIDE DEF a, m
  <2>1. QED
    BY <1>3
<1>12. QED
  <2> HIDE DEF n, rec, m, p
  <2>1. QED
    BY <1>1, <1>4, <1>10, <1>11
LEMMA UpdateWrote ==
    ASSUME TypeInv, NEW k \in RowIds, NEW v \in mem.data[k], NEW val \in Values, Update(k, v, val)
    PROVE  LET row == [xmin |-> Assigned(mem).xid, xmax |-> NoXid, cid |-> 0, val |-> val]
           IN  /\ row \in Row /\ v.row \in Row
               /\ \E m, rec : Wrote(m, rec, k, "UPDATE", v.row, row)
<1> DEFINE a == Assigned(mem)
           old == v.row
           m == AddUndo(a, k, "UPDATE", old)
           row == [xmin |-> m.xid, xmax |-> NoXid, cid |-> 0, val |-> val]
           rec == [seq |-> m.wal_seq + 1, xid |-> m.xid, op |-> "UPDATE",
                   row_id |-> k, row |-> row]
           n == Put(Erase(NextSeq(m), k), k, row)
<1>1. mem \in Mems /\ (mem.xid # NoXid \/ mem.next_xid <= MaxXid)
  BY DEF Update, Bounded, TypeInv
<1>2. /\ a \in Mems /\ a.xid \in Xid /\ a.undo = mem.undo /\ a.row_ids = mem.row_ids
      /\ a.data = mem.data /\ a.wal_seq = mem.wal_seq
  BY <1>1, AssignedIs
<1>3. old \in Row
  BY <1>1 DEF Mems, Version
<1>4. /\ m \in Mems /\ m.undo = Append(mem.undo, [row_id |-> k, op |-> "UPDATE", old |-> old])
      /\ m.next_xid = a.next_xid /\ m.clog = a.clog /\ m.xid = a.xid
      /\ m.row_ids = mem.row_ids /\ m.data = mem.data /\ m.wal_seq = mem.wal_seq
  <2> HIDE DEF a, old
  <2>1. QED
    BY <1>2, <1>3, AddUndoIs
<1>5. row \in Row /\ rec \in Record
  <2>1. m.wal_seq + 1 \in Nat /\ m.xid \in Xid
    BY <1>2, <1>4 DEF Mems
  <2>2. row \in Row
    BY <2>1 DEF Row
  <2>3. QED
    BY <2>1, <2>2 DEF Record
<1>6. /\ n \in Mems /\ SameXact(m, n) /\ n.wal_seq = mem.wal_seq + 2
      /\ \A l \in RowIds \ {k} : n.data[l] = mem.data[l]
      /\ n.data[k] = {[seq |-> mem.wal_seq + 2, row |-> row]}
  <2> HIDE DEF m, row
  <2>1. /\ NextSeq(m) \in Mems /\ SameXact(m, NextSeq(m))
        /\ NextSeq(m).data = mem.data /\ NextSeq(m).wal_seq = mem.wal_seq + 1
    BY <1>4, NextSeqIs
  <2>2. mem.wal_seq \in Nat
    BY <1>1 DEF Mems
  <2>3. QED
    BY <1>5, <2>1, <2>2, ReplaceIs DEF SameXact
<1>7. MaybeCheckpoint(n, Appended(wal, rec))
  BY DEF Update
<1>8. rec.seq \in mem.wal_seq + 1 .. n.wal_seq /\ rec.xid = a.xid
  <2>1. rec.seq = m.wal_seq + 1 /\ rec.xid = m.xid /\ mem.wal_seq \in Nat
    BY <1>1 DEF Mems
  <2> HIDE DEF n, rec
  <2>2. QED
    BY <1>4, <1>6, <2>1
<1>9. rec.op = "UPDATE"
  OBVIOUS
<1>10. Wrote(n, rec, k, "UPDATE", old, row)
  <2> HIDE DEF n, rec, m, a, row, old
  <2>1. QED
    BY <1>4, <1>5, <1>6, <1>7, <1>8, <1>9 DEF Wrote, a, SameXact
<1>11. row = [xmin |-> a.xid, xmax |-> NoXid, cid |-> 0, val |-> val]
  <2> HIDE DEF a, m
  <2>1. QED
    BY <1>4
<1>12. QED
  <2> HIDE DEF n, rec, m
  <2>1. QED
    BY <1>3, <1>5, <1>10, <1>11

LEMMA DeleteWrote ==
    ASSUME TypeInv, NEW k \in RowIds, NEW v \in mem.data[k], Delete(k, v)
    PROVE  LET row == [v.row EXCEPT !.xmax = Assigned(mem).xid]
           IN  /\ row \in Row /\ v.row \in Row
               /\ \E m, rec : Wrote(m, rec, k, "DELETE", v.row, row)
<1> DEFINE a == Assigned(mem)
           old == v.row
           m == AddUndo(a, k, "DELETE", old)
           row == [old EXCEPT !.xmax = m.xid]
           rec == [seq |-> m.wal_seq + 2, xid |-> m.xid, op |-> "DELETE",
                   row_id |-> k, row |-> row]
           n == NextSeq(Put(Erase(m, k), k, row))
<1>1. mem \in Mems /\ (mem.xid # NoXid \/ mem.next_xid <= MaxXid)
  BY DEF Delete, Bounded, TypeInv
<1>2. /\ a \in Mems /\ a.xid \in Xid /\ a.undo = mem.undo /\ a.row_ids = mem.row_ids
      /\ a.data = mem.data /\ a.wal_seq = mem.wal_seq
  BY <1>1, AssignedIs
<1>3. old \in Row
  BY <1>1 DEF Mems, Version
<1>4. /\ m \in Mems /\ m.undo = Append(mem.undo, [row_id |-> k, op |-> "DELETE", old |-> old])
      /\ m.next_xid = a.next_xid /\ m.clog = a.clog /\ m.xid = a.xid
      /\ m.row_ids = mem.row_ids /\ m.data = mem.data /\ m.wal_seq = mem.wal_seq
  <2> HIDE DEF a, old
  <2>1. QED
    BY <1>2, <1>3, AddUndoIs
<1>5. row \in Row /\ rec \in Record
  <2>1. m.wal_seq + 2 \in Nat /\ m.xid \in Xid
    BY <1>2, <1>4 DEF Mems
  <2>2. row \in Row
    <3> HIDE DEF m, old
    <3>1. QED
      BY <1>3, <2>1 DEF Row
  <2> HIDE DEF row
  <2>3. QED
    BY <2>1, <2>2 DEF Record
<1>6. /\ n \in Mems /\ SameXact(m, n) /\ n.wal_seq = mem.wal_seq + 2
      /\ \A l \in RowIds \ {k} : n.data[l] = mem.data[l]
      /\ n.data[k] = {[seq |-> mem.wal_seq + 1, row |-> row]}
  <2> DEFINE p == Put(Erase(m, k), k, row)
  <2> HIDE DEF m, row
  <2>1. /\ p \in Mems /\ SameXact(m, p) /\ p.wal_seq = mem.wal_seq + 1
        /\ \A l \in RowIds \ {k} : p.data[l] = mem.data[l]
        /\ p.data[k] = {[seq |-> mem.wal_seq + 1, row |-> row]}
    BY <1>4, <1>5, ReplaceIs
  <2>2. mem.wal_seq \in Nat
    BY <1>1 DEF Mems
  <2> HIDE DEF p
  <2>3. QED
    BY <2>1, <2>2, NextSeqIs DEF SameXact, p
<1>7. MaybeCheckpoint(n, Appended(wal, rec))
  BY DEF Delete
<1>8. rec.seq \in mem.wal_seq + 1 .. n.wal_seq /\ rec.xid = a.xid
  <2>1. rec.seq = m.wal_seq + 2 /\ rec.xid = m.xid /\ mem.wal_seq \in Nat
    BY <1>1 DEF Mems
  <2> HIDE DEF n, rec
  <2>2. QED
    BY <1>4, <1>6, <2>1
<1>9. rec.op = "DELETE"
  OBVIOUS
<1>10. Wrote(n, rec, k, "DELETE", old, row)
  <2> HIDE DEF n, rec, m, a, row, old
  <2>1. QED
    BY <1>4, <1>5, <1>6, <1>7, <1>8, <1>9 DEF Wrote, a, SameXact
<1>11. row = [old EXCEPT !.xmax = a.xid]
  <2> HIDE DEF a, m
  <2>1. QED
    BY <1>4
<1>12. QED
  <2> HIDE DEF n, rec, m
  <2>1. QED
    BY <1>3, <1>5, <1>10, <1>11

\* The three statements.
Statement == \E m, rec, op, old, row : \E k \in RowIds :
    /\ Wrote(m, rec, k, op, old, row)
    /\ row \in Row
    /\ \/ /\ op = "INSERT" /\ old = NoRow /\ k = mem.row_ids + 1
       \/ /\ op \in {"UPDATE", "DELETE"} /\ old \in Row
          /\ \E v \in mem.data[k] : old = v.row /\ Sees(mem, v)
    /\ op # "DELETE" => row.xmin = Assigned(mem).xid /\ row.xmax = NoXid
    /\ op = "DELETE" => row = [old EXCEPT !.xmax = Assigned(mem).xid]
    /\ mem.xid # NoXid \/ mem.next_xid <= MaxXid
    /\ acked' = acked /\ crashes' = crashes

LEMMA InsertStatement ==
    ASSUME TypeInv, NEW val \in Values, Insert(val)
    PROVE  Statement
<1> DEFINE k == mem.row_ids + 1
           row == [xmin |-> Assigned(mem).xid, xmax |-> NoXid, cid |-> 0, val |-> val]
<1>1. k \in RowIds /\ row \in Row
  BY InsertWrote
<1>2. PICK m, rec : Wrote(m, rec, k, "INSERT", NoRow, row)
  BY InsertWrote
<1>3. /\ mem.xid # NoXid \/ mem.next_xid <= MaxXid
      /\ acked' = acked /\ crashes' = crashes
  BY DEF Insert, Bounded
<1>4. row.xmin = Assigned(mem).xid /\ row.xmax = NoXid
  OBVIOUS
<1>5. QED
  <2> HIDE DEF row
  <2>1. QED
    BY <1>1, <1>2, <1>3, <1>4 DEF Statement

LEMMA UpdateStatement ==
    ASSUME TypeInv, NEW k \in RowIds, NEW v \in mem.data[k], NEW val \in Values, Update(k, v, val)
    PROVE  Statement
<1> DEFINE row == [xmin |-> Assigned(mem).xid, xmax |-> NoXid, cid |-> 0, val |-> val]
<1>1. v.row \in Row /\ row \in Row
  BY UpdateWrote
<1>2. PICK m, rec : Wrote(m, rec, k, "UPDATE", v.row, row)
  BY UpdateWrote
<1>3. /\ mem.xid # NoXid \/ mem.next_xid <= MaxXid
      /\ Sees(mem, v)
      /\ acked' = acked /\ crashes' = crashes
  BY DEF Update, Bounded
<1>4. row.xmin = Assigned(mem).xid /\ row.xmax = NoXid
  OBVIOUS
<1>5. QED
  <2> HIDE DEF row
  <2>1. QED
    BY <1>1, <1>2, <1>3, <1>4 DEF Statement

LEMMA DeleteStatement ==
    ASSUME TypeInv, NEW k \in RowIds, NEW v \in mem.data[k], Delete(k, v)
    PROVE  Statement
<1> DEFINE row == [v.row EXCEPT !.xmax = Assigned(mem).xid]
<1>1. v.row \in Row /\ row \in Row
  BY DeleteWrote
<1>2. PICK m, rec : Wrote(m, rec, k, "DELETE", v.row, row)
  BY DeleteWrote
<1>3. /\ mem.xid # NoXid \/ mem.next_xid <= MaxXid
      /\ Sees(mem, v)
      /\ acked' = acked /\ crashes' = crashes
  BY DEF Delete, Bounded
<1>4. QED
  <2>1. row = [v.row EXCEPT !.xmax = Assigned(mem).xid]
    OBVIOUS
  <2> HIDE DEF row
  <2>2. QED
    BY <1>1, <1>2, <1>3, <2>1 DEF Statement
LEMMA LoadType ==
    ASSUME NEW c \in Ckps, NEW file \in Seq(Record), Load(c, file)
    PROVE  /\ mem' \in Mems /\ wal' \in Wals /\ ckp' \in Ckps
           /\ mem'.table = c.table /\ mem'.next_xid = c.next_xid
           /\ mem'.xid = NoXid /\ mem'.undo = <<>>
<1>1. /\ mem' \in Mems
      /\ mem'.table = c.table /\ mem'.next_xid = c.next_xid
      /\ mem'.xid = NoXid /\ mem'.undo = <<>>
  <2> DEFINE m == FromCheckpoint(c)
  <2>1. /\ m \in Mems /\ m.table = c.table /\ m.next_xid = c.next_xid
        /\ m.xid = NoXid /\ m.undo = <<>>
    BY FromCheckpointIs
  <2>2. mem' = Replayed(m, file, c.last_seq)
    BY DEF Load
  <2> HIDE DEF m
  <2>3. QED
    BY <2>1, <2>2, ReplayedType DEF SameTxn
<1>2. wal' \in Wals
  <2> DEFINE n == SeqOf(file)
  <2>1. n \in Nat /\ wal' = [file |-> file, synced |-> Len(file), seq |-> n]
    BY SeqOfType DEF Load
  <2> HIDE DEF n
  <2>2. QED
    BY <2>1, LenProperties DEF Wals
<1>3. QED
  BY <1>1, <1>2 DEF Load

\* A crash loads one of three checkpoints with the first records of the log or
\* of what truncate keeps of it.
LEMMA CrashLoads ==
    ASSUME TypeInv, Crash
    PROVE  /\ crashes' = crashes + 1
           /\ \E c \in Ckps, file \in Seq(Record) :
                /\ Load(c, file)
                /\ c \in {ckp, NoCheckpoint, CheckpointOf(mem)}
                /\ \/ \E n \in 0 .. Len(wal.file) : file = SubSeq(wal.file, 1, n)
                   \/ \E n \in 0 .. Len(Kept(wal.file, mem.wal_seq)) :
                        file = SubSeq(Kept(wal.file, mem.wal_seq), 1, n)
<1> DEFINE kept == Kept(wal.file, mem.wal_seq)
           saved == CheckpointOf(mem)
<1>1. /\ wal.file \in Seq(Record) /\ Len(wal.file) \in Nat
      /\ wal.synced \in Nat /\ wal.synced <= Len(wal.file)
  BY LenProperties DEF TypeInv, Wals
<1>2. kept \in Seq(Record) /\ Len(kept) \in Nat
  BY <1>1, KeptType, LenProperties
<1>3. saved \in Ckps /\ NoCheckpoint \in Ckps /\ ckp \in Ckps
  BY CheckpointOfIs, NoCheckpointType DEF TypeInv
<1>4. /\ wal.file = SubSeq(wal.file, 1, Len(wal.file))
      /\ \A n \in 0 .. Len(wal.file) : SubSeq(wal.file, 1, n) \in Seq(Record)
  <2>1. \A n \in 0 .. Len(wal.file) : SubSeq(wal.file, 1, n) \in Seq(Record)
    BY <1>1, SubSeqProperties
  <2>2. wal.file = SubSeq(wal.file, 1, Len(wal.file))
    BY <1>1, SubSeqFull
  <2>3. QED
    BY <2>1, <2>2
<1>5. \A n \in 0 .. Len(kept) : SubSeq(kept, 1, n) \in Seq(Record)
  <2> HIDE DEF kept
  <2>1. QED
    BY <1>2, SubSeqProperties
<1>6. /\ crashes' = crashes + 1
      /\ \/ \E n \in wal.synced .. Len(wal.file) : Load(ckp, SubSeq(wal.file, 1, n))
         \/ Load(NoCheckpoint, wal.file)
         \/ Load(saved, wal.file)
         \/ \E n \in 0 .. Len(kept) : Load(saved, SubSeq(kept, 1, n))
  BY DEF Crash
<1> HIDE DEF kept, saved
<1>7. CASE \E n \in wal.synced .. Len(wal.file) : Load(ckp, SubSeq(wal.file, 1, n))
  <2>1. PICK n \in wal.synced .. Len(wal.file) : Load(ckp, SubSeq(wal.file, 1, n))
    BY <1>7
  <2>2. n \in 0 .. Len(wal.file)
    BY <1>1
  <2>3. QED
    BY <1>3, <1>4, <1>6, <2>1, <2>2
<1>8. CASE Load(NoCheckpoint, wal.file) \/ Load(saved, wal.file)
  <2>1. Len(wal.file) \in 0 .. Len(wal.file)
    BY <1>1
  <2>2. QED
    BY <1>1, <1>3, <1>4, <1>6, <1>8, <2>1 DEF saved
<1>9. CASE \E n \in 0 .. Len(kept) : Load(saved, SubSeq(kept, 1, n))
  BY <1>3, <1>5, <1>6, <1>9 DEF saved, kept
<1>10. QED
  BY <1>6, <1>7, <1>8, <1>9

LEMMA TypeStep ==
    ASSUME TypeInv, [Next]_vars
    PROVE  TypeInv'
<1>1. /\ mem \in Mems /\ wal \in Wals /\ ckp \in Ckps /\ crashes \in Nat
      /\ mem.xid = NoXid => mem.undo = <<>>
  BY DEF TypeInv
<1>2. SUFFICES /\ mem' \in Mems /\ wal' \in Wals /\ ckp' \in Ckps /\ crashes' \in Nat
               /\ mem'.xid = NoXid => mem'.undo = <<>>
  BY DEF TypeInv
<1>3. CASE Statement
  <2>1. PICK m, rec, op, old, row : \E k \in RowIds : Wrote(m, rec, k, op, old, row)
    BY <1>3, Zenon DEF Statement
  <2>2. /\ m \in Mems /\ rec \in Record /\ MaybeCheckpoint(m, Appended(wal, rec))
        /\ m.xid = rec.xid
    BY <2>1 DEF Wrote
  <2>3. Appended(wal, rec) \in Wals
    BY <1>1, <2>2, AppendedIs
  <2>4. mem' \in Mems /\ wal' \in Wals /\ ckp' \in Ckps
    BY <1>1, <2>2, <2>3, MaybeCheckpointStep
  <2>5. crashes' = crashes
    BY <1>3, Zenon DEF Statement
  <2>6. mem'.xid # NoXid
    <3>1. rec.xid \in Xid
      BY <2>2, RecordFacts
    <3>2. mem'.xid = m.xid
      BY <1>1, <2>2, <2>3, MaybeCheckpointStep DEF Saved, SameXact
    <3>3. QED
      BY <2>2, <3>1, <3>2 DEF Xid, NoXid
  <2>7. QED
    BY <1>1, <2>4, <2>5, <2>6
<1>4. ASSUME NEW val \in Values, Insert(val)
      PROVE  Statement
  BY <1>4, InsertStatement
<1>5. ASSUME NEW k \in RowIds, NEW v \in mem.data[k], Delete(k, v) \/ \E val \in Values : Update(k, v, val)
      PROVE  Statement
  BY <1>5, DeleteStatement, UpdateStatement
<1>6. CASE Commit
  <2> DEFINE rec == XactRecord("XACT_COMMIT")
  <2>1. mem.xid \in Xid /\ mem.xid # NoXid /\ NextSeq(mem) \in Mems /\ NextSeq(mem).xid = mem.xid
    BY <1>1, <1>6, NextSeqIs DEF Commit, Mems, SameXact
  <2>2. rec \in Record
    BY <1>1, <2>1 DEF XactRecord, Record, Mems
  <2> HIDE DEF rec
  <2>3. mem' = Ended(NextSeq(mem), "COMMITTED") /\ wal' = Appended(wal, rec)
        /\ ckp' = ckp /\ crashes' = crashes
    BY <1>6 DEF Commit, rec
  <2>4. QED
    BY <1>1, <2>1, <2>2, <2>3, EndedIs, AppendedIs
<1>7. CASE AutoCommit
  <2>1. mem' = Ended(mem, "COMMITTED") /\ wal' = wal /\ ckp' = ckp /\ crashes' = crashes
    BY <1>7 DEF AutoCommit
  <2>2. mem.xid # NoXid
    <3>1. mem.undo # <<>>
      BY <1>7, EmptySeq DEF AutoCommit
    <3>2. QED
      BY <1>1, <3>1
  <2>3. QED
    BY <1>1, <2>1, <2>2, EndedIs
<1>8. CASE Rollback
  <2> DEFINE rec == XactRecord("XACT_ABORT")
             n == ApplyUndo(NextSeq(mem), mem.undo)
  <2>1. mem.xid \in Xid /\ mem.xid # NoXid /\ NextSeq(mem) \in Mems /\ NextSeq(mem).xid = mem.xid
    BY <1>1, <1>8, NextSeqIs DEF Rollback, Mems, SameXact
  <2>2. rec \in Record
    BY <1>1, <2>1 DEF XactRecord, Record, Mems
  <2>3. n \in Mems /\ n.xid = mem.xid
    BY <1>1, <2>1, ApplyUndoIs DEF Mems, SameXact
  <2> HIDE DEF rec, n
  <2>4. mem' = Ended(n, "ABORTED") /\ wal' = Appended(wal, rec)
        /\ ckp' = ckp /\ crashes' = crashes
    BY <1>8 DEF Rollback, rec, n
  <2>5. QED
    BY <1>1, <2>1, <2>2, <2>3, <2>4, EndedIs, AppendedIs
<1>9. CASE Save
  BY <1>1, <1>9, CheckpointStep DEF Save, Saved, SameXact
<1>10. CASE Restart
  <2>1. Load(CheckpointOf(mem), Kept(wal.file, mem.wal_seq)) /\ crashes' = crashes
    BY <1>10 DEF Restart
  <2>2. CheckpointOf(mem) \in Ckps /\ Kept(wal.file, mem.wal_seq) \in Seq(Record)
    BY <1>1, CheckpointOfIs, KeptType DEF Wals
  <2>3. QED
    BY <1>1, <2>1, <2>2, LoadType
<1>11. CASE Crash
  BY <1>1, <1>11, CrashLoads, LoadType
<1>12. CASE UNCHANGED vars
  BY <1>1, <1>12 DEF vars
<1>13. QED
  BY <1>3, <1>4, <1>5, <1>6, <1>7, <1>8, <1>9, <1>10, <1>11, <1>12 DEF Next
-----------------------------------------------------------------------------
(* Before the first crash: the commit log, the log file, the checkpoint.   *)

\* Only the transaction of the session is in progress, and it is.
XidInv(m) ==
    /\ \A x \in DOMAIN m.clog : x < m.next_xid /\ (m.clog[x] = "IN_PROGRESS" => x = m.xid)
    /\ m.xid # NoXid => m.xid \in DOMAIN m.clog /\ m.clog[m.xid] = "IN_PROGRESS"

\* The checkpoint c has no transaction as committed that the log file would
\* abort or change rows for; the record of a commit is the last one of its
\* transaction, which has ended.
RecordInv(m, file, c, i) ==
    LET r == file[i]
    IN  /\ r.seq <= m.wal_seq
        /\ r.xid < m.next_xid
        /\ r.op # "XACT_COMMIT" => StatusIn(c.clog, r.xid) # "COMMITTED"
        /\ r.op \in {"XACT_COMMIT", "XACT_ABORT"} => r.xid # m.xid
        /\ r.op \notin {"XACT_COMMIT", "XACT_ABORT"} =>
             \A j \in 1 .. i - 1 : ~(file[j].op = "XACT_COMMIT" /\ file[j].xid = r.xid)

LogInv(m, file, c) ==
    /\ XidInv(m)
    /\ \A i \in 1 .. Len(file) : RecordInv(m, file, c, i)
    /\ \A x \in Xid : StatusIn(c.clog, x) = "COMMITTED" => StatusIn(m.clog, x) = "COMMITTED"

\* A checkpoint leaves an empty log file.
LEMMA NothingKept ==
    ASSUME NEW m \in Mems, NEW w \in Wals, NEW c, LogInv(m, w.file, c)
    PROVE  Kept(w.file, m.wal_seq) = <<>>
<1>1. /\ w.file \in Seq(Record) /\ m.wal_seq \in Nat
      /\ \A i \in 1 .. Len(w.file) : w.file[i].seq \in Nat
  BY ElementOfSeq, RecordFacts DEF Wals, Mems
<1>2. \A i \in 1 .. Len(w.file) : ~(w.file[i].seq > m.wal_seq)
  BY <1>1 DEF LogInv, RecordInv
<1>3. QED
  BY <1>1, <1>2, KeptType

LEMMA SavedLog ==
    ASSUME NEW m \in Mems, NEW w \in Wals, NEW c, LogInv(m, w.file, c), Saved(m, w)
    PROVE  LogInv(mem', wal'.file, ckp')
<1>1. wal'.file = <<>> /\ Len(wal'.file) = 0
  BY NothingKept, EmptySeq DEF Saved
<1>2. XidInv(mem')
  BY DEF LogInv, XidInv, Saved, SameXact
<1>3. ckp'.clog = m.clog /\ mem'.clog = m.clog
  BY CheckpointOfIs DEF Saved, SameXact
<1>4. QED
  BY <1>1, <1>2, <1>3 DEF LogInv

\* assign_xid does not change what is committed, or in progress, or ended.
LEMMA AssignedLog ==
    ASSUME NEW m \in Mems, XidInv(m), m.xid # NoXid \/ m.next_xid <= MaxXid
    PROVE  LET n == Assigned(m)
           IN  /\ XidInv(n)
               /\ n.xid < n.next_xid /\ m.next_xid <= n.next_xid
               /\ n.xid = m.xid \/ n.xid = m.next_xid
               /\ StatusIn(m.clog, n.xid) = "IN_PROGRESS"
               /\ \A x : StatusIn(n.clog, x) = StatusIn(m.clog, x)
               /\ \A x \in DOMAIN m.clog : x \in DOMAIN n.clog /\ n.clog[x] = m.clog[x]
<1> DEFINE n == Assigned(m)
<1>1. /\ n \in Mems /\ n.xid \in Xid
      /\ m.xid # NoXid => n = m
      /\ m.xid = NoXid => /\ n.xid = m.next_xid
                          /\ n.next_xid = m.next_xid + 1
                          /\ n.clog = SetStatus(m.clog, m.next_xid, "IN_PROGRESS")
  BY AssignedIs
<1>2. /\ m.clog \in CLogs /\ m.next_xid \in Nat /\ DOMAIN m.clog \in SUBSET Xid
      /\ Xid \in SUBSET Int
  BY CLogFacts DEF Mems, Xid
<1> HIDE DEF n
<1>3. CASE m.xid # NoXid
  BY <1>1, <1>2, <1>3 DEF XidInv, StatusIn, n
<1>4. CASE m.xid = NoXid
  <2> DEFINE log == SetStatus(m.clog, m.next_xid, "IN_PROGRESS")
  <2>1. m.next_xid \in Xid /\ "IN_PROGRESS" \in Statuses
    BY <1>1, <1>4 DEF Statuses
  <2>2. /\ DOMAIN log = DOMAIN m.clog \cup {m.next_xid}
        /\ log[m.next_xid] = "IN_PROGRESS"
        /\ \A y \in DOMAIN m.clog : y # m.next_xid => log[y] = m.clog[y]
        /\ StatusIn(log, m.next_xid) = "IN_PROGRESS"
        /\ \A y : y # m.next_xid => StatusIn(log, y) = StatusIn(m.clog, y)
    <3> DEFINE l == m.clog
               x == m.next_xid
    <3>1. l \in CLogs /\ x \in Xid
      BY <1>2, <2>1
    <3> HIDE DEF l, x
    <3>2. /\ DOMAIN SetStatus(l, x, "IN_PROGRESS") = DOMAIN l \cup {x}
          /\ SetStatus(l, x, "IN_PROGRESS")[x] = "IN_PROGRESS"
          /\ StatusIn(SetStatus(l, x, "IN_PROGRESS"), x) = "IN_PROGRESS"
      BY DEF SetStatus, StatusIn
    <3>3. \A y \in DOMAIN l : y # x => SetStatus(l, x, "IN_PROGRESS")[y] = l[y]
      BY DEF SetStatus
    <3>4. \A y : y # x => StatusIn(SetStatus(l, x, "IN_PROGRESS"), y) = StatusIn(l, y)
      BY DEF SetStatus, StatusIn
    <3>5. QED
      BY <3>2, <3>3, <3>4 DEF l, x
  <2>3. n.clog = log /\ n.xid = m.next_xid /\ n.next_xid = m.next_xid + 1
    BY <1>1, <1>4
  <2> HIDE DEF log
  <2>4. m.next_xid \notin DOMAIN m.clog
    BY <1>2 DEF XidInv
  <2>5. StatusIn(m.clog, m.next_xid) = "IN_PROGRESS"
    BY <2>4 DEF StatusIn
  <2>6. \A x \in DOMAIN m.clog : x \in DOMAIN n.clog /\ n.clog[x] = m.clog[x]
    BY <2>2, <2>3, <2>4
  <2>7. \A x : StatusIn(n.clog, x) = StatusIn(m.clog, x)
    BY <2>2, <2>3, <2>5
  <2>8. XidInv(n)
    <3>1. ASSUME NEW x \in DOMAIN n.clog
          PROVE  x < n.next_xid /\ (n.clog[x] = "IN_PROGRESS" => x = n.xid)
      <4>1. CASE x = m.next_xid
        BY <1>2, <2>3, <4>1
      <4>2. CASE x # m.next_xid
        <5>1. x \in DOMAIN m.clog /\ n.clog[x] = m.clog[x]
          BY <2>2, <2>3, <4>2
        <5>2. x < m.next_xid /\ (m.clog[x] = "IN_PROGRESS" => x = NoXid)
          BY <1>4, <5>1 DEF XidInv
        <5>3. x \in Xid /\ x # NoXid
          BY <1>2, <5>1 DEF Xid, NoXid
        <5>4. x < n.next_xid
          <6>1. x \in Int /\ m.next_xid \in Int
            BY <1>2, <5>3 DEF Xid
          <6>2. QED
            BY <2>3, <5>2, <6>1
        <5>5. n.clog[x] # "IN_PROGRESS"
          BY <5>1, <5>2, <5>3
        <5>6. QED
          BY <5>4, <5>5
      <4>3. QED
        BY <4>1, <4>2
    <3>2. n.xid \in DOMAIN n.clog /\ n.clog[n.xid] = "IN_PROGRESS"
      BY <2>2, <2>3
    <3>3. QED
      BY <3>1, <3>2 DEF XidInv
  <2>9. QED
    BY <1>2, <2>3, <2>5, <2>6, <2>7, <2>8 DEF n
<1>5. QED
  BY <1>3, <1>4

\* What an appended file holds.
LEMMA AppendedFile ==
    ASSUME NEW w \in Wals, NEW rec \in Record
    PROVE  LET file == Appended(w, rec).file
           IN  /\ Len(file) = Len(w.file) + 1 /\ Len(w.file) \in Nat
               /\ \A i \in 1 .. Len(w.file) : file[i] = w.file[i] /\ w.file[i] \in Record
               /\ file[Len(w.file) + 1] = rec
<1>1. w.file \in Seq(Record) /\ Len(w.file) \in Nat
  BY LenProperties DEF Wals
<1>2. Appended(w, rec).file = Append(w.file, rec)
  BY AppendedIs
<1>3. QED
  BY <1>1, <1>2, AppendProperties, ElementOfSeq

\* A record of a transaction that was not committed extends the log file.
LEMMA ExtendedLog ==
    ASSUME NEW m \in Mems, NEW n \in Mems, NEW w \in Wals, NEW c, NEW rec \in Record,
           LogInv(m, w.file, c), XidInv(n),
           m.wal_seq <= n.wal_seq, m.next_xid <= n.next_xid,
           rec.seq <= n.wal_seq, rec.xid < n.next_xid,
           rec.xid = m.xid \/ rec.xid = m.next_xid,
           StatusIn(m.clog, rec.xid) = "IN_PROGRESS",
           rec.op \in {"XACT_COMMIT", "XACT_ABORT"} => n.xid = NoXid,
           rec.op \notin {"XACT_COMMIT", "XACT_ABORT"} => n.xid = rec.xid,
           \A x \in Xid : StatusIn(m.clog, x) = "COMMITTED" => StatusIn(n.clog, x) = "COMMITTED"
    PROVE  LogInv(n, Appended(w, rec).file, c)
<1> DEFINE file == Appended(w, rec).file
<1>1. /\ Len(file) = Len(w.file) + 1 /\ Len(w.file) \in Nat
      /\ \A i \in 1 .. Len(w.file) : file[i] = w.file[i] /\ w.file[i] \in Record
      /\ file[Len(w.file) + 1] = rec
  BY AppendedFile
<1>2. /\ m.wal_seq \in Nat /\ n.wal_seq \in Nat /\ m.next_xid \in Nat /\ n.next_xid \in Nat
      /\ Xid \in SUBSET Int /\ NoXid \notin Xid /\ rec.xid \in Xid
  BY RecordFacts DEF Mems, Xid, NoXid
<1>3. \A i \in 1 .. Len(w.file) : RecordInv(m, w.file, c, i)
  BY DEF LogInv
<1>4. StatusIn(c.clog, rec.xid) # "COMMITTED"
  BY <1>2 DEF LogInv
<1> HIDE DEF file
<1>5. ASSUME NEW i \in 1 .. Len(w.file)
      PROVE  RecordInv(n, file, c, i)
  <2> DEFINE r == w.file[i]
  <2>1. file[i] = r /\ \A j \in 1 .. i - 1 : file[j] = w.file[j]
    BY <1>1
  <2>2. r.seq \in Nat /\ r.xid \in Xid
    BY <1>1, RecordFacts
  <2>3. /\ r.seq <= m.wal_seq
        /\ r.xid < m.next_xid
        /\ r.op # "XACT_COMMIT" => StatusIn(c.clog, r.xid) # "COMMITTED"
        /\ r.op \in {"XACT_COMMIT", "XACT_ABORT"} => r.xid # m.xid
        /\ r.op \notin {"XACT_COMMIT", "XACT_ABORT"} =>
             \A j \in 1 .. i - 1 : ~(w.file[j].op = "XACT_COMMIT" /\ w.file[j].xid = r.xid)
    BY <1>3 DEF RecordInv
  <2>4. r.op \in {"XACT_COMMIT", "XACT_ABORT"} => r.xid # n.xid
    BY <1>2, <2>2, <2>3
  <2>5. r.seq <= n.wal_seq
    BY <1>2, <2>2, <2>3
  <2>6. r.xid < n.next_xid
    <3>1. r.xid \in Int
      BY <1>2, <2>2
    <3>2. QED
      BY <1>2, <2>3, <3>1
  <2> HIDE DEF r
  <2>7. QED
    BY <2>1, <2>3, <2>4, <2>5, <2>6 DEF RecordInv
<1>6. RecordInv(n, file, c, Len(w.file) + 1)
  <2>1. ASSUME NEW j \in 1 .. Len(w.file), file[j].op = "XACT_COMMIT"
        PROVE  file[j].xid # rec.xid
    <3>1. file[j] = w.file[j] /\ w.file[j].xid \in Xid
      BY <1>1, RecordFacts
    <3>2. w.file[j].xid < m.next_xid /\ w.file[j].xid # m.xid
      BY <1>3, <2>1, <3>1 DEF RecordInv
    <3>3. QED
      BY <1>2, <3>1, <3>2
  <2>2. (Len(w.file) + 1) - 1 = Len(w.file)
    BY <1>1
  <2>3. rec.op \in {"XACT_COMMIT", "XACT_ABORT"} => rec.xid # n.xid
    BY <1>2
  <2>4. QED
    BY <1>1, <1>4, <2>1, <2>2, <2>3 DEF RecordInv
<1>7. \A i \in 1 .. Len(file) : RecordInv(n, file, c, i)
  <2>1. \A i \in 1 .. Len(file) : i \in 1 .. Len(w.file) \/ i = Len(w.file) + 1
    BY <1>1
  <2>2. QED
    BY <1>5, <1>6, <2>1
<1>8. QED
  BY <1>7 DEF LogInv, file
\* The end of a transaction: nothing is in progress, and what was committed is.
LEMMA EndedLog ==
    ASSUME NEW m \in Mems, XidInv(m), m.xid # NoXid, NEW verdict \in {"COMMITTED", "ABORTED"}
    PROVE  LET n == Ended(m, verdict)
           IN  /\ XidInv(n)
               /\ StatusIn(n.clog, m.xid) = verdict
               /\ \A x : x # m.xid => StatusIn(n.clog, x) = StatusIn(m.clog, x)
               /\ DOMAIN n.clog = DOMAIN m.clog
               /\ \A x \in DOMAIN n.clog : n.clog[x] # "IN_PROGRESS"
               /\ StatusIn(m.clog, m.xid) = "IN_PROGRESS"
<1> DEFINE n == Ended(m, verdict)
<1>1. /\ n.clog = SetStatus(m.clog, m.xid, verdict)
      /\ n.xid = NoXid /\ n.next_xid = m.next_xid
  BY EndedIs
<1>2. m.clog \in CLogs /\ m.xid \in Xid /\ verdict \in Statuses
  BY DEF Mems, Statuses
<1>3. /\ DOMAIN n.clog = DOMAIN m.clog \cup {m.xid}
      /\ n.clog[m.xid] = verdict
      /\ \A y \in DOMAIN m.clog : y # m.xid => n.clog[y] = m.clog[y]
      /\ StatusIn(n.clog, m.xid) = verdict
      /\ \A y : y # m.xid => StatusIn(n.clog, y) = StatusIn(m.clog, y)
  <2> DEFINE l == m.clog
             x == m.xid
  <2>1. l \in CLogs /\ x \in Xid
    BY <1>2
  <2> HIDE DEF l, x
  <2>2. /\ DOMAIN SetStatus(l, x, verdict) = DOMAIN l \cup {x}
        /\ SetStatus(l, x, verdict)[x] = verdict
        /\ StatusIn(SetStatus(l, x, verdict), x) = verdict
    BY DEF SetStatus, StatusIn
  <2>3. \A y \in DOMAIN l : y # x => SetStatus(l, x, verdict)[y] = l[y]
    BY DEF SetStatus
  <2>4. \A y : y # x => StatusIn(SetStatus(l, x, verdict), y) = StatusIn(l, y)
    BY DEF SetStatus, StatusIn
  <2>5. n.clog = SetStatus(l, x, verdict)
    BY <1>1 DEF l, x
  <2> HIDE DEF n
  <2>6. QED
    BY <2>2, <2>3, <2>4, <2>5 DEF l, x
<1>4. m.xid \in DOMAIN m.clog /\ m.clog[m.xid] = "IN_PROGRESS"
  BY DEF XidInv
<1> HIDE DEF n
<1>5. DOMAIN n.clog = DOMAIN m.clog
  BY <1>3, <1>4
<1>6. \A x \in DOMAIN n.clog : n.clog[x] # "IN_PROGRESS"
  BY <1>3, <1>5 DEF XidInv
<1>7. XidInv(n)
  BY <1>1, <1>5, <1>6 DEF XidInv
<1>8. StatusIn(m.clog, m.xid) = "IN_PROGRESS"
  BY <1>4 DEF StatusIn
<1>9. QED
  BY <1>3, <1>5, <1>6, <1>7, <1>8 DEF n

\* A statement as far as the log is concerned.
LEMMA StatementLog ==
    ASSUME TypeInv, LogInv(mem, wal.file, ckp), Statement
    PROVE  LogInv(mem', wal'.file, ckp')
<1>1. PICK m, rec, op, old, row : \E k \in RowIds :
        /\ Wrote(m, rec, k, op, old, row)
        /\ op = "INSERT" \/ op \in {"UPDATE", "DELETE"}
        /\ mem.xid # NoXid \/ mem.next_xid <= MaxXid
  BY DEF Statement
<1> DEFINE a == Assigned(mem)
<1>2. /\ m \in Mems /\ rec \in Record /\ rec.xid = a.xid /\ rec.op = op
      /\ rec.seq \in mem.wal_seq + 1 .. m.wal_seq
      /\ m.next_xid = a.next_xid /\ m.clog = a.clog /\ m.xid = a.xid
      /\ MaybeCheckpoint(m, Appended(wal, rec))
      /\ op \in {"INSERT", "UPDATE", "DELETE"}
  BY <1>1 DEF Wrote
<1>3. mem \in Mems /\ wal \in Wals /\ ckp \in Ckps /\ XidInv(mem)
  BY DEF TypeInv, LogInv
<1>4. /\ XidInv(a)
      /\ a.xid < a.next_xid /\ mem.next_xid <= a.next_xid
      /\ a.xid = mem.xid \/ a.xid = mem.next_xid
      /\ StatusIn(mem.clog, a.xid) = "IN_PROGRESS"
      /\ \A x : StatusIn(a.clog, x) = StatusIn(mem.clog, x)
  BY <1>1, <1>3, AssignedLog
<1> HIDE DEF a
<1>5. XidInv(m)
  BY <1>2, <1>4 DEF XidInv
<1>6. mem.wal_seq <= m.wal_seq /\ rec.seq <= m.wal_seq
  BY <1>2, <1>3 DEF Mems
<1>7. Appended(wal, rec) \in Wals
  BY <1>2, <1>3, AppendedIs
<1>8. LogInv(m, Appended(wal, rec).file, ckp)
  BY <1>2, <1>3, <1>4, <1>5, <1>6, ExtendedLog
<1>9. CASE Saved(m, Appended(wal, rec))
  BY <1>2, <1>7, <1>8, <1>9, SavedLog
<1>10. CASE mem' = m /\ wal' = Appended(wal, rec) /\ ckp' = ckp
  BY <1>8, <1>10
<1>11. QED
  BY <1>2, <1>3, <1>7, <1>9, <1>10, MaybeCheckpointStep

\* The end of a transaction that writes its record.
LEMMA EndLog ==
    ASSUME TypeInv, LogInv(mem, wal.file, ckp), mem.xid # NoXid,
           NEW n \in Mems, SameXact(mem, n), n.wal_seq > mem.wal_seq,
           NEW op \in {"XACT_COMMIT", "XACT_ABORT"},
           NEW verdict \in {"COMMITTED", "ABORTED"},
           mem' = Ended(n, verdict), wal' = Appended(wal, XactRecord(op)), ckp' = ckp
    PROVE  LogInv(mem', wal'.file, ckp')
<1> DEFINE rec == XactRecord(op)
<1>1. mem \in Mems /\ wal \in Wals /\ ckp \in Ckps /\ XidInv(mem)
  BY DEF TypeInv, LogInv
<1>2. mem.xid \in Xid /\ mem.wal_seq \in Nat /\ n.wal_seq \in Nat
  BY <1>1 DEF Mems
<1>3. /\ rec \in Record /\ rec.op = op /\ rec.xid = mem.xid /\ rec.seq = mem.wal_seq + 1
  BY <1>2 DEF XactRecord, Record
<1> HIDE DEF rec
<1>4. XidInv(n) /\ n.xid = mem.xid /\ n.clog = mem.clog /\ n.next_xid = mem.next_xid
  BY <1>1 DEF XidInv, SameXact
<1>5. /\ mem' \in Mems /\ mem'.xid = NoXid /\ mem'.next_xid = mem.next_xid
      /\ mem'.wal_seq = n.wal_seq
  BY <1>4, EndedIs
<1>6. /\ XidInv(mem')
      /\ \A x : x # mem.xid => StatusIn(mem'.clog, x) = StatusIn(mem.clog, x)
      /\ StatusIn(mem.clog, mem.xid) = "IN_PROGRESS"
  BY <1>4, EndedLog
<1>7. mem.wal_seq <= mem'.wal_seq /\ rec.seq <= mem'.wal_seq
  BY <1>2, <1>3, <1>5
<1>8. mem.xid < mem.next_xid /\ mem.next_xid <= mem'.next_xid
  BY <1>1, <1>5 DEF XidInv, Mems
<1>9. \A x \in Xid : StatusIn(mem.clog, x) = "COMMITTED" => StatusIn(mem'.clog, x) = "COMMITTED"
  BY <1>6
<1>10. rec.op \in {"XACT_COMMIT", "XACT_ABORT"} /\ rec.xid < mem'.next_xid
       /\ StatusIn(mem.clog, rec.xid) = "IN_PROGRESS"
  BY <1>3, <1>5, <1>6, <1>8
<1>11. LogInv(mem', Appended(wal, rec).file, ckp)
  BY <1>1, <1>3, <1>5, <1>6, <1>7, <1>8, <1>9, <1>10, ExtendedLog
<1>12. QED
  BY <1>11 DEF rec

\* A start without log records.
LEMMA LoadsCheckpoint ==
    ASSUME NEW c \in Ckps, Load(c, <<>>)
    PROVE  /\ mem' = FromCheckpoint(c) /\ wal'.file = <<>> /\ ckp' = c
           /\ acked' = View(mem')
<1>1. Replayed(FromCheckpoint(c), <<>>, c.last_seq) = FromCheckpoint(c)
  <2>1. Len(<<>>) = 0
    BY EmptySeq
  <2>2. PICK g : /\ Stages(FromCheckpoint(c), <<>>, c.last_seq, g)
                 /\ Replayed(FromCheckpoint(c), <<>>, c.last_seq) = g[Len(<<>>)]
    BY <2>1, ReplayedStages
  <2>3. QED
    BY <2>1, <2>2 DEF Stages
<1>2. QED
  BY <1>1 DEF Load

LEMMA LogStep ==
    ASSUME TypeInv, LogInv(mem, wal.file, ckp), [Next]_vars, crashes' = 0
    PROVE  LogInv(mem', wal'.file, ckp')
<1>1. mem \in Mems /\ wal \in Wals /\ ckp \in Ckps /\ crashes \in Nat /\ XidInv(mem)
  BY DEF TypeInv, LogInv
<1>2. CASE Statement
  BY <1>2, StatementLog
<1>3. ASSUME NEW val \in Values, Insert(val)
      PROVE  Statement
  BY <1>3, InsertStatement
<1>4. ASSUME NEW k \in RowIds, NEW v \in mem.data[k], Delete(k, v) \/ \E val \in Values : Update(k, v, val)
      PROVE  Statement
  BY <1>4, DeleteStatement, UpdateStatement
<1>5. CASE Commit
  <2> DEFINE n == NextSeq(mem)
  <2>1. n \in Mems /\ SameXact(mem, n) /\ n.wal_seq > mem.wal_seq
    BY <1>1, NextSeqIs DEF Mems
  <2>2. /\ mem.xid # NoXid /\ mem' = Ended(n, "COMMITTED")
        /\ wal' = Appended(wal, XactRecord("XACT_COMMIT")) /\ ckp' = ckp
    BY <1>5 DEF Commit
  <2> HIDE DEF n
  <2>3. QED
    BY <2>1, <2>2, EndLog
<1>6. CASE AutoCommit
  <2>1. mem.xid # NoXid
    <3>1. Len(mem.undo) = 1 /\ Len(<<>>) = 0
      BY <1>6, EmptySeq DEF AutoCommit
    <3>2. mem.undo # <<>>
      BY <3>1
    <3>3. QED
      BY <3>2 DEF TypeInv
  <2>2. mem' = Ended(mem, "COMMITTED") /\ wal' = wal /\ ckp' = ckp
    BY <1>6 DEF AutoCommit
  <2>3. /\ mem' \in Mems /\ mem'.xid = NoXid /\ mem'.next_xid = mem.next_xid
        /\ mem'.wal_seq = mem.wal_seq
    BY <1>1, <2>1, <2>2, EndedIs
  <2>4. /\ XidInv(mem')
        /\ StatusIn(mem.clog, mem.xid) = "IN_PROGRESS"
        /\ \A x : x # mem.xid => StatusIn(mem'.clog, x) = StatusIn(mem.clog, x)
    BY <1>1, <2>1, <2>2, EndedLog
  <2>5. ASSUME NEW i \in 1 .. Len(wal.file)
        PROVE  RecordInv(mem', wal.file, ckp, i)
    <3>1. wal.file[i].xid \in Xid
      BY <1>1, RecordFacts, ElementOfSeq DEF Wals
    <3>2. wal.file[i].xid # NoXid
      BY <3>1 DEF Xid, NoXid
    <3>3. RecordInv(mem, wal.file, ckp, i)
      BY DEF LogInv
    <3>4. QED
      BY <2>3, <3>2, <3>3 DEF RecordInv
  <2>6. QED
    BY <2>2, <2>4, <2>5 DEF LogInv
<1>7. CASE Rollback
  <2> DEFINE n == ApplyUndo(NextSeq(mem), mem.undo)
  <2>1. n \in Mems /\ SameXact(mem, n) /\ n.wal_seq > mem.wal_seq
    <3>1. NextSeq(mem) \in Mems /\ SameXact(mem, NextSeq(mem))
          /\ NextSeq(mem).wal_seq = mem.wal_seq + 1
      BY <1>1, NextSeqIs
    <3>2. mem.undo \in Seq(Undo)
      BY <1>1 DEF Mems
    <3>3. n \in Mems /\ SameXact(NextSeq(mem), n) /\ n.wal_seq >= NextSeq(mem).wal_seq
      BY <3>1, <3>2, ApplyUndoIs
    <3>4. QED
      BY <1>1, <3>1, <3>3 DEF SameXact, Mems
  <2>2. /\ mem.xid # NoXid /\ mem' = Ended(n, "ABORTED")
        /\ wal' = Appended(wal, XactRecord("XACT_ABORT")) /\ ckp' = ckp
    BY <1>7 DEF Rollback
  <2> HIDE DEF n
  <2>3. QED
    BY <2>1, <2>2, EndLog
<1>8. CASE Save
  BY <1>1, <1>8, CheckpointStep, SavedLog DEF Save
<1>9. CASE Restart
  <2> DEFINE c == CheckpointOf(mem)
  <2>1. c \in Ckps /\ c.clog = mem.clog /\ c.next_xid = mem.next_xid
    BY <1>1, CheckpointOfIs
  <2>2. Kept(wal.file, mem.wal_seq) = <<>>
    BY <1>1, NothingKept
  <2>3. Load(c, <<>>)
    BY <1>9, <2>2 DEF Restart
  <2> HIDE DEF c
  <2>4. mem' = FromCheckpoint(c) /\ wal'.file = <<>> /\ ckp' = c
    BY <2>1, <2>3, LoadsCheckpoint
  <2>5. mem'.next_xid = mem.next_xid /\ mem'.clog = Rebuilt(mem.clog) /\ mem'.xid = NoXid
    BY <2>1, <2>4, FromCheckpointIs
  <2>6. /\ DOMAIN mem'.clog = DOMAIN mem.clog
        /\ \A x \in DOMAIN mem.clog :
             mem'.clog[x] = IF mem.clog[x] = "IN_PROGRESS" THEN "ABORTED" ELSE mem.clog[x]
        /\ \A x : StatusIn(mem'.clog, x) = "COMMITTED" <=> StatusIn(mem.clog, x) = "COMMITTED"
    BY <1>1, <2>5, RebuiltIs DEF Mems
  <2>7. XidInv(mem')
    BY <1>1, <2>5, <2>6 DEF XidInv
  <2>8. Len(wal'.file) = 0
    BY <2>4, EmptySeq
  <2>9. QED
    BY <2>1, <2>4, <2>6, <2>7, <2>8 DEF LogInv
<1>10. CASE Crash
  <2>1. crashes' = crashes + 1
    BY <1>10 DEF Crash
  <2>2. QED
    BY <1>1, <2>1
<1>11. CASE UNCHANGED vars
  BY <1>11 DEF vars
<1>12. QED
  BY <1>2, <1>3, <1>4, <1>5, <1>6, <1>7, <1>8, <1>9, <1>10, <1>11 DEF Next
-----------------------------------------------------------------------------
(* The first crash.                                                        *)

\* A record that can do no harm to what is committed in the log old.
Harmless(file, old, i) ==
    LET r == file[i]
    IN  /\ r.op # "XACT_COMMIT" => StatusIn(old, r.xid) # "COMMITTED"
        /\ r.op \notin {"XACT_COMMIT", "XACT_ABORT"} =>
             \A j \in 1 .. i - 1 : ~(file[j].op = "XACT_COMMIT" /\ file[j].xid = r.xid)

CommittedBy(file, i, x) == \E j \in 1 .. i : file[j].op = "XACT_COMMIT" /\ file[j].xid = x

AllHarmless(file, old, from_seq) ==
    \A i \in 1 .. Len(file) : file[i].seq > from_seq => Harmless(file, old, i)

\* Replay of harmless records changes no row and takes back no commit.
LEMMA ReplayKeeps ==
    ASSUME NEW m \in Mems, NEW file \in Seq(Record), NEW from_seq, NEW old,
           \A x \in Xid : StatusIn(m.clog, x) = "COMMITTED" <=> StatusIn(old, x) = "COMMITTED",
           m.table => AllHarmless(file, old, from_seq)
    PROVE  LET n == Replayed(m, file, from_seq)
           IN  /\ n.data = m.data
               /\ AllHarmless(file, old, from_seq) =>
                    \A x \in Xid : StatusIn(old, x) = "COMMITTED" => StatusIn(n.clog, x) = "COMMITTED"
<1>1. Len(file) \in Nat /\ \A i \in 1 .. Len(file) : file[i] \in Record
  BY ElementOfSeq, LenProperties
<1>2. PICK g : Stages(m, file, from_seq, g) /\ Replayed(m, file, from_seq) = g[Len(file)]
  BY <1>1, ReplayedStages
<1> DEFINE Right(n, i) ==
             /\ n \in Mems /\ SameTxn(m, n) /\ n.data = m.data
             /\ AllHarmless(file, old, from_seq) => \A x \in Xid :
                  /\ StatusIn(n.clog, x) = "COMMITTED"
                       => StatusIn(old, x) = "COMMITTED" \/ CommittedBy(file, i, x)
                  /\ StatusIn(old, x) = "COMMITTED" => StatusIn(n.clog, x) = "COMMITTED"
           bad == {i \in 0 .. Len(file) : ~Right(g[i], i)}
<1>3. ASSUME NEW i \in 1 .. Len(file), NEW n, Right(n, i - 1)
      PROVE  Right(ReplayAbove(n, file[i], from_seq), i)
  <2> DEFINE r == file[i]
             o == ReplayAbove(n, r, from_seq)
  <2>1. /\ r \in Record /\ r.xid \in Xid
        /\ r.op \in {"INSERT", "UPDATE", "DELETE", "XACT_COMMIT", "XACT_ABORT"}
        /\ n \in Mems /\ SameTxn(m, n) /\ n.data = m.data
    BY <1>1, <1>3, RecordFacts
  <2>2. /\ \A x : CommittedBy(file, i - 1, x) => CommittedBy(file, i, x)
        /\ r.op = "XACT_COMMIT" => CommittedBy(file, i, r.xid)
    BY <1>1 DEF CommittedBy
  <2>3. CASE o = n
    BY <1>3, <2>2, <2>3
  <2>4. ASSUME r.seq > from_seq, r.op \in {"XACT_COMMIT", "XACT_ABORT"}
        PROVE  Right(o, i)
    <3> DEFINE verdict == IF r.op = "XACT_COMMIT" THEN "COMMITTED" ELSE "ABORTED"
    <3>1. o = ReplayRecord(n, r)
      BY <2>4 DEF ReplayAbove
    <3>2. /\ o \in Mems /\ SameTxn(n, o) /\ o.data = n.data
          /\ o.clog = SetStatus(n.clog, r.xid, verdict)
      BY <2>1, <2>4, <3>1, ReplayEnd
    <3>3. SameTxn(m, o) /\ o.data = m.data
      BY <2>1, <3>2 DEF SameTxn
    <3>4. /\ StatusIn(o.clog, r.xid) = verdict
          /\ \A x : x # r.xid => StatusIn(o.clog, x) = StatusIn(n.clog, x)
      <4> HIDE DEF o, r, verdict
      <4>1. QED
        BY <3>2 DEF SetStatus, StatusIn
    <3>5. /\ AllHarmless(file, old, from_seq)
          /\ r.op = "XACT_ABORT"
          => StatusIn(old, r.xid) # "COMMITTED"
      BY <2>4 DEF AllHarmless, Harmless
    <3>6. verdict = "COMMITTED" <=> r.op = "XACT_COMMIT"
      OBVIOUS
    <3>7. ASSUME AllHarmless(file, old, from_seq), NEW x \in Xid
          PROVE  /\ StatusIn(o.clog, x) = "COMMITTED"
                      => StatusIn(old, x) = "COMMITTED" \/ CommittedBy(file, i, x)
                 /\ StatusIn(old, x) = "COMMITTED" => StatusIn(o.clog, x) = "COMMITTED"
      <4> HIDE DEF o, r, verdict
      <4>1. CASE x = r.xid
        BY <2>2, <2>4, <3>4, <3>5, <3>6, <3>7, <4>1
      <4>2. CASE x # r.xid
        BY <1>3, <2>2, <3>4, <3>7, <4>2
      <4>3. QED
        BY <4>1, <4>2
    <3>8. QED
      BY <3>2, <3>3, <3>7
  <2>5. ASSUME r.seq > from_seq, r.op \notin {"XACT_COMMIT", "XACT_ABORT"}
        PROVE  o = n
    <3>1. o = ReplayRecord(n, r)
      BY <2>5 DEF ReplayAbove
    <3>2. ~(n.table /\ StatusIn(n.clog, r.xid) = "COMMITTED")
      <4>1. SUFFICES ASSUME m.table, StatusIn(n.clog, r.xid) = "COMMITTED"
                     PROVE  FALSE
        BY <2>1 DEF SameTxn
      <4>2. Harmless(file, old, i)
        BY <2>5, <4>1 DEF AllHarmless
      <4>3. StatusIn(old, r.xid) = "COMMITTED" \/ CommittedBy(file, i - 1, r.xid)
        BY <1>3, <2>1, <4>1 DEF SameTxn
      <4>4. QED
        BY <2>5, <4>2, <4>3 DEF Harmless, CommittedBy
    <3>3. r.op # "XACT_COMMIT" /\ r.op # "XACT_ABORT"
      BY <2>5
    <3> HIDE DEF o, r
    <3>4. QED
      BY <3>1, <3>2, <3>3 DEF ReplayRecord
  <2>6. ~(r.seq > from_seq) => o = n
    BY DEF ReplayAbove
  <2>7. QED
    BY <2>3, <2>4, <2>5, <2>6
<1>4. Right(m, 0)
  BY DEF SameTxn
<1> HIDE DEF Right
<1>5. bad = {}
  <2>1. SUFFICES ASSUME bad # {}
                 PROVE  FALSE
    OBVIOUS
  <2>2. PICK n \in bad : \A k \in bad : n <= k
    <3>1. bad \in SUBSET Nat
      OBVIOUS
    <3> HIDE DEF bad
    <3>2. QED
      BY <2>1, <3>1, Least
  <2>3. n \in 1 .. Len(file)
    BY <1>1, <1>2, <1>4 DEF Stages
  <2>4. n - 1 \in 0 .. Len(file) /\ n - 1 \notin bad
    <3>1. n - 1 \in 0 .. Len(file) /\ ~(n <= n - 1)
      BY <1>1, <2>3
    <3> HIDE DEF bad
    <3>2. QED
      BY <2>2, <3>1
  <2>5. Right(g[n - 1], n - 1)
    BY <2>4
  <2>6. g[n] = ReplayAbove(g[n - 1], file[n], from_seq)
    BY <1>2, <2>3 DEF Stages
  <2>7. Right(g[n], n)
    BY <1>3, <2>3, <2>5, <2>6
  <2>8. QED
    BY <2>7
<1>6. Right(g[Len(file)], Len(file))
  BY <1>1, <1>5
<1>7. QED
  BY <1>2, <1>6 DEF Right

\* At the first crash the rows stay as the checkpoint has them, and so do the
\* commits.
LEMMA FirstCrash ==
    ASSUME TypeInv, LogInv(mem, wal.file, ckp), Crash
    PROVE  /\ mem' \in Mems /\ ckp' \in Ckps /\ mem'.xid = NoXid
           /\ mem'.data = FromCheckpoint(ckp').data
           /\ ckp' # NoCheckpoint =>
                \A x \in Xid : StatusIn(ckp'.clog, x) = "COMMITTED"
                                 => StatusIn(mem'.clog, x) = "COMMITTED"
<1>1. mem \in Mems /\ wal \in Wals /\ ckp \in Ckps
  BY DEF TypeInv
<1>2. PICK c \in Ckps, file \in Seq(Record) :
        /\ Load(c, file)
        /\ c \in {ckp, NoCheckpoint, CheckpointOf(mem)}
        /\ \/ \E n \in 0 .. Len(wal.file) : file = SubSeq(wal.file, 1, n)
           \/ \E n \in 0 .. Len(Kept(wal.file, mem.wal_seq)) :
                file = SubSeq(Kept(wal.file, mem.wal_seq), 1, n)
  BY CrashLoads
<1>3. Kept(wal.file, mem.wal_seq) = <<>> /\ Len(<<>>) = 0
  BY <1>1, NothingKept, EmptySeq
<1>4. wal.file \in Seq(Record) /\ Len(wal.file) \in Nat
  BY <1>1, LenProperties DEF Wals
<1>5. PICK n \in 0 .. Len(wal.file) :
        /\ Len(file) = n
        /\ \A i \in 1 .. n : file[i] = wal.file[i]
  <2>1. CASE \E n \in 0 .. Len(wal.file) : file = SubSeq(wal.file, 1, n)
    <3>1. PICK n \in 0 .. Len(wal.file) : file = SubSeq(wal.file, 1, n)
      BY <2>1
    <3>2. \A i \in 1 .. n : wal.file[i] \in Record
      BY <1>4, ElementOfSeq
    <3>3. Len(SubSeq(wal.file, 1, n)) = n /\ \A i \in 1 .. n : SubSeq(wal.file, 1, n)[i] = wal.file[i]
      BY <1>4, <3>2, SubSeqProperties
    <3>4. QED
      BY <3>1, <3>3
  <2>2. CASE \E n \in 0 .. Len(Kept(wal.file, mem.wal_seq)) :
               file = SubSeq(Kept(wal.file, mem.wal_seq), 1, n)
    <3>1. file = SubSeq(<<>>, 1, 0)
      BY <1>3, <2>2
    <3>2. file = <<>>
      BY <3>1, SubSeqEmpty
    <3>3. Len(file) = 0
      BY <1>3, <3>2
    <3>4. QED
      BY <1>4, <3>3
  <2>3. QED
    BY <1>2, <2>1, <2>2
<1> DEFINE m == FromCheckpoint(c)
<1>6. m \in Mems /\ m.table = c.table /\ m.clog = Rebuilt(c.clog)
  BY FromCheckpointIs
<1>7. \A x \in Xid : StatusIn(m.clog, x) = "COMMITTED" <=> StatusIn(c.clog, x) = "COMMITTED"
  BY <1>6, RebuiltIs DEF Ckps
<1> HIDE DEF m
<1>8. c # NoCheckpoint => AllHarmless(file, c.clog, c.last_seq)
  <2>1. ASSUME NEW i \in 1 .. Len(file)
        PROVE  RecordInv(mem, wal.file, ckp, i)
    BY <1>4, <1>5 DEF LogInv
  <2>2. CASE c = ckp
    <3>1. ASSUME NEW i \in 1 .. Len(file)
          PROVE  Harmless(file, c.clog, i)
      <4>1. file[i] = wal.file[i] /\ \A j \in 1 .. i - 1 : file[j] = wal.file[j]
        BY <1>4, <1>5
      <4>2. QED
        BY <2>1, <2>2, <4>1 DEF RecordInv, Harmless
    <3>2. QED
      BY <3>1 DEF AllHarmless
  <2>3. CASE c = CheckpointOf(mem)
    <3>1. c.last_seq = mem.wal_seq /\ mem.wal_seq \in Nat
      BY <1>1, <2>3, CheckpointOfIs DEF Mems
    <3>2. ASSUME NEW i \in 1 .. Len(file)
          PROVE  ~(file[i].seq > c.last_seq)
      <4>1. file[i] = wal.file[i] /\ file[i].seq \in Nat
        BY <1>5, RecordFacts, ElementOfSeq
      <4>2. wal.file[i].seq <= mem.wal_seq
        BY <2>1 DEF RecordInv
      <4>3. QED
        BY <3>1, <4>1, <4>2
    <3>3. QED
      BY <3>2 DEF AllHarmless
  <2>4. QED
    BY <1>2, <2>2, <2>3
<1>9. mem' = Replayed(m, file, c.last_seq) /\ ckp' = c
  BY <1>2 DEF Load, m
<1>10. /\ mem'.data = m.data
       /\ AllHarmless(file, c.clog, c.last_seq) =>
            \A x \in Xid : StatusIn(c.clog, x) = "COMMITTED"
                             => StatusIn(mem'.clog, x) = "COMMITTED"
  <2>1. m.table => c # NoCheckpoint
    <3>1. NoCheckpoint.table = FALSE
      BY DEF NoCheckpoint
    <3>2. QED
      BY <1>6, <3>1, Zenon
  <2>2. m.table => AllHarmless(file, c.clog, c.last_seq)
    BY <1>8, <2>1
  <2> DEFINE log == c.clog
             from_seq == c.last_seq
  <2>3. /\ \A x \in Xid : StatusIn(m.clog, x) = "COMMITTED" <=> StatusIn(log, x) = "COMMITTED"
        /\ m.table => AllHarmless(file, log, from_seq)
    BY <1>7, <2>2
  <2>4. mem' = Replayed(m, file, from_seq)
    BY <1>9
  <2> HIDE DEF log, from_seq
  <2>5. /\ Replayed(m, file, from_seq).data = m.data
        /\ AllHarmless(file, log, from_seq) =>
             \A x \in Xid : StatusIn(log, x) = "COMMITTED"
                              => StatusIn(Replayed(m, file, from_seq).clog, x) = "COMMITTED"
    BY <1>6, <2>3, ReplayKeeps
  <2>6. QED
    BY <2>4, <2>5 DEF log, from_seq
<1>11. mem' \in Mems /\ mem'.xid = NoXid
  BY <1>2, LoadType
<1>12. QED
  BY <1>8, <1>9, <1>10, <1>11 DEF m
\* What a session outside a transaction sees of a row.
Live(m, row) ==
    StatusIn(m.clog, row.xmin) = "COMMITTED" /\ ~DeletedFor(row, NoXid, m.clog)

LEMMA RowFacts ==
    ASSUME NEW row \in Row
    PROVE  /\ row.xmin \in Xid /\ row.xmin # NoXid /\ row.xmin # FrozenRow
           /\ row.xmax \in Xid \cup {NoXid} /\ row.cid = 0 /\ row.val \in Values
  BY DEF Row, Xid, NoXid, FrozenRow

LEMMA SeesOutside ==
    ASSUME NEW m, m.xid = NoXid, NEW v, v.row \in Row
    PROVE  Sees(m, v) <=> Live(m, v.row)
<1>1. Snapshot(m).xip = {}
  BY DEF Snapshot
<1>2. v.row.xmin # NoXid /\ v.row.xmin # FrozenRow
  BY RowFacts
<1>3. ~ActiveIn(Snapshot(m), v.row.xmin) /\ ~Own(v.row, m.xid)
  BY <1>1 DEF ActiveIn, Own
<1>4. QED
  BY <1>2, <1>3 DEF Sees, Visible, Live

LEMMA ViewIs ==
    ASSUME NEW m
    PROVE  \A e : e \in View(m) <=>
             \E k \in RowIds : \E v \in m.data[k] : Sees(m, v) /\ e = <<k, v.row.val>>
  BY DEF View

LEMMA CrashKeeps ==
    ASSUME TypeInv, LogInv(mem, wal.file, ckp), Crash
    PROVE  CommittedIn(ckp', mem'.clog) \subseteq View(mem')
<1> DEFINE c == ckp'
           m == mem'
<1>1. /\ m \in Mems /\ c \in Ckps /\ m.xid = NoXid
      /\ m.data = FromCheckpoint(c).data
      /\ c # NoCheckpoint => \A x \in Xid : StatusIn(c.clog, x) = "COMMITTED"
                                              => StatusIn(m.clog, x) = "COMMITTED"
  BY FirstCrash
<1>2. FromCheckpoint(c).data = [k \in RowIds |->
        {[seq |-> c.last_seq + Place(c.rows, p), row |-> p.row] :
           p \in {q \in c.rows : q.row_id = k}}]
  BY <1>1, FromCheckpointIs
<1> HIDE DEF c, m
<1>3. SUFFICES ASSUME NEW p \in c.rows,
                      StatusIn(c.clog, p.row.xmin) = "COMMITTED",
                      ~DeletedFor(p.row, NoXid, m.clog)
               PROVE  <<p.row_id, p.row.val>> \in View(m)
  BY DEF CommittedIn, c, m
<1>4. c # NoCheckpoint
  BY <1>3 DEF NoCheckpoint
<1>5. p.row_id \in RowIds /\ p.row \in Row
  BY <1>1 DEF Ckps
<1> DEFINE v == [seq |-> c.last_seq + Place(c.rows, p), row |-> p.row]
<1>6. v \in m.data[p.row_id] /\ v.row = p.row
  BY <1>1, <1>2, <1>5
<1> HIDE DEF v
<1>7. Live(m, v.row)
  BY <1>1, <1>3, <1>4, <1>5, <1>6, RowFacts DEF Live
<1>8. Sees(m, v)
  BY <1>1, <1>5, <1>6, <1>7, SeesOutside
<1>9. QED
  BY <1>5, <1>6, <1>8, ViewIs

-----------------------------------------------------------------------------
(* Before the first crash: rows, undo list, and what clients were told.    *)

Untouched(m, k) == \A i \in 1 .. Len(m.undo) : m.undo[i].row_id # k
IsFirst(m, i) == FirstFrom(m.undo, 1, i)

\* A row whose transactions have ended.
HasEnded(m, x) == x \in DOMAIN m.clog /\ m.clog[x] # "IN_PROGRESS"
Settled(m, row) == HasEnded(m, row.xmin) /\ (row.xmax = NoXid \/ HasEnded(m, row.xmax))

\* There is one version of a row at most, that of an ended transaction unless
\* the undo list names the row.
VersionInv(m, k) ==
    /\ \A v, w \in m.data[k] : v = w
    /\ k > m.row_ids => m.data[k] = {} /\ Untouched(m, k)
    /\ Untouched(m, k) => \A row \in RowsOf(m, k) : Settled(m, row)

\* The first undo record of a row has its last committed version, and tells
\* what the session's own transaction made of it.
UndoInv(m, i) ==
    LET r == m.undo[i]
    IN  /\ r.op # "INSERT" => Settled(m, r.old) /\ Live(m, r.old)
        /\ r.op # "DELETE" => \A row \in RowsOf(m, r.row_id) :
                                 row.xmin = m.xid /\ row.xmax \in {NoXid, m.xid}
        /\ r.op = "DELETE" => RowsOf(m, r.row_id) = {[r.old EXCEPT !.xmax = m.xid]}

\* What a row was before the session's transaction, and the rows clients were
\* told are committed.
IsPast(m, k, row) ==
    \/ Untouched(m, k) /\ row \in RowsOf(m, k)
    \/ \E i \in 1 .. Len(m.undo) :
         m.undo[i].row_id = k /\ IsFirst(m, i) /\ row \in Before(m.undo[i])

AckInv(m, told) ==
    \A e : e \in told <=>
      \E k \in RowIds, row \in Row : IsPast(m, k, row) /\ Live(m, row) /\ e = <<k, row.val>>

RowInv(m, told) ==
    /\ \A k \in RowIds : VersionInv(m, k)
    /\ \A i \in 1 .. Len(m.undo) : IsFirst(m, i) => UndoInv(m, i)
    /\ AckInv(m, told)

\* RowInv is about neither the sequence number nor the next xid.
LEMMA SameRows ==
    ASSUME NEW m, NEW n, NEW told, RowInv(m, told), SameXact(m, n), n.data = m.data
    PROVE  RowInv(n, told)
<1>1. \A k : Untouched(m, k) <=> Untouched(n, k)
  BY DEF SameXact, Untouched
<1>2. \A i : IsFirst(m, i) <=> IsFirst(n, i)
  BY DEF SameXact, IsFirst
<1>3. \A k : RowsOf(m, k) = RowsOf(n, k)
  BY DEF RowsOf
<1>4. \A row : (Settled(m, row) <=> Settled(n, row)) /\ (Live(m, row) <=> Live(n, row))
  BY DEF SameXact, Settled, HasEnded, Live
<1>5. \A k \in RowIds : VersionInv(n, k)
  BY <1>1, <1>3, <1>4 DEF RowInv, VersionInv, SameXact
<1>6. n.undo = m.undo /\ n.xid = m.xid
  BY DEF SameXact
<1>7. ASSUME NEW i \in 1 .. Len(n.undo), IsFirst(n, i)
      PROVE  UndoInv(n, i)
  <2>1. UndoInv(m, i)
    BY <1>2, <1>6, <1>7 DEF RowInv
  <2>2. QED
    BY <1>3, <1>4, <1>6, <2>1 DEF UndoInv
<1>8. \A k, row : IsPast(m, k, row) <=> IsPast(n, k, row)
  BY <1>1, <1>2, <1>3, <1>6 DEF IsPast
<1>9. AckInv(n, told)
  BY <1>4, <1>8 DEF RowInv, AckInv
<1>10. QED
  BY <1>5, <1>7, <1>9 DEF RowInv
\* What an open transaction may have made of a row.
OwnOrSettled(m, row) ==
    /\ row.xmin = m.xid => row.xmax \in {NoXid, m.xid}
    /\ row.xmin # m.xid => HasEnded(m, row.xmin)
    /\ row.xmax \notin {NoXid, m.xid} => HasEnded(m, row.xmax)

\* The first record of a row is one of the list.
LEMMA FirstExists ==
    ASSUME NEW m \in Mems, NEW k, ~Untouched(m, k)
    PROVE  \E i \in 1 .. Len(m.undo) : m.undo[i].row_id = k /\ IsFirst(m, i)
<1> DEFINE S == {i \in 1 .. Len(m.undo) : m.undo[i].row_id = k}
<1>1. Len(m.undo) \in Nat
  BY LenProperties DEF Mems
<1>2. PICK i \in S : \A j \in S : i <= j
  <2>1. S # {} /\ S \in SUBSET Nat
    BY DEF Untouched
  <2> HIDE DEF S
  <2>2. QED
    BY <2>1, Least
<1>3. ASSUME NEW l \in 1 .. i - 1
      PROVE  m.undo[l].row_id # m.undo[i].row_id
  <2>1. l \in 1 .. Len(m.undo) /\ ~(i <= l)
    BY <1>1
  <2>2. QED
    BY <1>2, <2>1
<1>4. QED
  BY <1>2, <1>3 DEF IsFirst, FirstFrom

\* There is one first record of a row.
LEMMA FirstUnique ==
    ASSUME NEW m \in Mems, NEW i \in 1 .. Len(m.undo), NEW j \in 1 .. Len(m.undo),
           IsFirst(m, i), IsFirst(m, j), m.undo[i].row_id = m.undo[j].row_id
    PROVE  i = j
<1>1. Len(m.undo) \in Nat
  BY LenProperties DEF Mems
<1>2. ~(i < j) /\ ~(j < i)
  BY <1>1 DEF IsFirst, FirstFrom
<1>3. QED
  BY <1>1, <1>2

\* The rows there are are settled or of the session's own making.
LEMMA RowsOwnOrSettled ==
    ASSUME NEW m \in Mems, XidInv(m), NEW told, RowInv(m, told), NEW k \in RowIds, NEW row \in RowsOf(m, k)
    PROVE  row \in Row /\ OwnOrSettled(m, row)
<1>1. row \in Row
  BY DEF RowsOf, Mems, Version
<1>2. ASSUME NEW r, Settled(m, r), r.xmin # NoXid
      PROVE  r.xmin # m.xid /\ (r.xmax = NoXid \/ r.xmax # m.xid)
  BY <1>2 DEF Settled, HasEnded, XidInv
<1>3. CASE Untouched(m, k)
  <2>1. Settled(m, row)
    BY <1>3 DEF RowInv, VersionInv
  <2>2. row.xmin # m.xid
    BY <1>1, <1>2, <2>1, RowFacts
  <2>3. QED
    BY <1>1, <2>1, <2>2 DEF OwnOrSettled, Settled
<1>4. CASE ~Untouched(m, k)
  <2>1. PICK i \in 1 .. Len(m.undo) : m.undo[i].row_id = k /\ IsFirst(m, i)
    BY <1>4, FirstExists
  <2>2. UndoInv(m, i)
    BY <2>1 DEF RowInv
  <2>3. CASE m.undo[i].op # "DELETE"
    <3>1. row.xmin = m.xid /\ row.xmax \in {NoXid, m.xid}
      BY <2>1, <2>2, <2>3 DEF UndoInv
    <3>2. QED
      BY <1>1, <3>1 DEF OwnOrSettled
  <2>4. CASE m.undo[i].op = "DELETE"
    <3> DEFINE old == m.undo[i].old
    <3>1. old \in Row
      <4>1. m.undo[i] \in Undo
        BY ElementOfSeq DEF Mems
      <4>2. QED
        BY <2>4, <4>1 DEF Undo
    <3>2. Settled(m, old) /\ row = [old EXCEPT !.xmax = m.xid]
      BY <2>1, <2>2, <2>4 DEF UndoInv
    <3> HIDE DEF old
    <3>3. row.xmin = old.xmin /\ row.xmax = m.xid
      BY <3>1, <3>2 DEF Row
    <3>4. HasEnded(m, row.xmin)
      BY <3>2, <3>3 DEF Settled
    <3>5. QED
      BY <1>1, <3>3, <3>4 DEF OwnOrSettled
  <2>5. QED
    BY <2>3, <2>4
<1>5. QED
  BY <1>1, <1>3, <1>4

\* A statement adds its undo record and replaces its row.
LEMMA WroteRows ==
    ASSUME NEW m, NEW rec, NEW k \in RowIds, NEW op, NEW old, NEW row,
           mem \in Mems, Wrote(m, rec, k, op, old, row),
           op = "INSERT" => mem.data[k] = {}
    PROVE  LET n == Len(mem.undo) + 1
           IN  /\ n \in Nat \ {0} /\ Len(m.undo) = n
               /\ \A i \in 1 .. n - 1 : m.undo[i] = mem.undo[i]
               /\ m.undo[n].row_id = k /\ m.undo[n].op = op /\ m.undo[n].old = old
               /\ \A l \in RowIds \ {k} : m.data[l] = mem.data[l] /\ RowsOf(m, l) = RowsOf(mem, l)
               /\ RowsOf(m, k) = {row}
               /\ \A v, w \in m.data[k] : v = w
               /\ \A l : Untouched(m, l) <=> Untouched(mem, l) /\ l # k
               /\ \A i \in 1 .. n - 1 : IsFirst(m, i) <=> IsFirst(mem, i)
               /\ IsFirst(m, n) <=> Untouched(mem, k)
<1> DEFINE n == Len(mem.undo) + 1
           r == [row_id |-> k, op |-> op, old |-> old]
<1>1. mem.undo \in Seq(Undo) /\ Len(mem.undo) \in Nat
  BY LenProperties DEF Mems
<1>2. m.undo = Append(mem.undo, r)
  BY DEF Wrote
<1>3. /\ n \in Nat \ {0} /\ n - 1 = Len(mem.undo) /\ Len(m.undo) = n
      /\ \A i \in 1 .. n - 1 : m.undo[i] = mem.undo[i]
      /\ m.undo[n] = r
  <2> HIDE DEF r
  <2>1. QED
    BY <1>1, <1>2, AppendProperties
<1>4. /\ r.row_id = k /\ r.op = op /\ r.old = old
  OBVIOUS
<1>5. PICK s : m.data[k] = {[seq |-> s, row |-> row]}
  BY DEF Wrote
<1>6. RowsOf(m, k) = {row} /\ \A v, w \in m.data[k] : v = w
  BY <1>5 DEF RowsOf
<1>7. \A l \in RowIds \ {k} : m.data[l] = mem.data[l] /\ RowsOf(m, l) = RowsOf(mem, l)
  BY DEF Wrote, RowsOf
<1> HIDE DEF r, n
<1>8. \A l : Untouched(m, l) <=> Untouched(mem, l) /\ l # k
  BY <1>3, <1>4 DEF Untouched
<1>9. \A i \in 1 .. n - 1 : IsFirst(m, i) <=> IsFirst(mem, i)
  BY <1>3 DEF IsFirst, FirstFrom
<1>10. IsFirst(m, n) <=> Untouched(mem, k)
  BY <1>3, <1>4 DEF IsFirst, FirstFrom, Untouched
<1>11. QED
  BY <1>3, <1>4, <1>6, <1>7, <1>8, <1>9, <1>10 DEF n
\* A statement keeps the invariant, and with it what clients were told.
LEMMA StatementRows ==
    ASSUME TypeInv, LogInv(mem, wal.file, ckp), RowInv(mem, acked), Statement
    PROVE  RowInv(mem', acked')
<1>1. PICK m, rec, op, old, row : \E k \in RowIds :
        /\ Wrote(m, rec, k, op, old, row)
        /\ row \in Row
        /\ \/ /\ op = "INSERT" /\ old = NoRow /\ k = mem.row_ids + 1
           \/ /\ op \in {"UPDATE", "DELETE"} /\ old \in Row
              /\ \E v \in mem.data[k] : old = v.row /\ Sees(mem, v)
        /\ op # "DELETE" => row.xmin = Assigned(mem).xid /\ row.xmax = NoXid
        /\ op = "DELETE" => row = [old EXCEPT !.xmax = Assigned(mem).xid]
        /\ mem.xid # NoXid \/ mem.next_xid <= MaxXid
        /\ acked' = acked /\ crashes' = crashes
  BY DEF Statement
<1>2. PICK k \in RowIds :
        /\ Wrote(m, rec, k, op, old, row)
        /\ row \in Row
        /\ \/ /\ op = "INSERT" /\ old = NoRow /\ k = mem.row_ids + 1
           \/ /\ op \in {"UPDATE", "DELETE"} /\ old \in Row
              /\ \E v \in mem.data[k] : old = v.row /\ Sees(mem, v)
        /\ op # "DELETE" => row.xmin = Assigned(mem).xid /\ row.xmax = NoXid
        /\ op = "DELETE" => row = [old EXCEPT !.xmax = Assigned(mem).xid]
        /\ mem.xid # NoXid \/ mem.next_xid <= MaxXid
        /\ acked' = acked
  BY <1>1
<1>3. mem \in Mems /\ wal \in Wals /\ ckp \in Ckps /\ XidInv(mem)
      /\ mem.row_ids \in Nat
  BY DEF TypeInv, LogInv, Mems
<1> DEFINE a == Assigned(mem)
<1>4. /\ StatusIn(mem.clog, a.xid) = "IN_PROGRESS"
      /\ \A x : StatusIn(a.clog, x) = StatusIn(mem.clog, x)
      /\ \A x \in DOMAIN mem.clog : x \in DOMAIN a.clog /\ a.clog[x] = mem.clog[x]
      /\ a.xid = mem.xid \/ a.xid = mem.next_xid
  BY <1>2, <1>3, AssignedLog
<1>5. a.xid \in Xid /\ (mem.xid # NoXid => a = mem)
  BY <1>2, <1>3, AssignedIs
<1> HIDE DEF a
<1>6. /\ m \in Mems /\ rec \in Record /\ m.clog = a.clog /\ m.xid = a.xid
      /\ m.row_ids = IF op = "INSERT" THEN k ELSE mem.row_ids
      /\ MaybeCheckpoint(m, Appended(wal, rec))
  BY <1>2 DEF Wrote, a
<1>7. op = "INSERT" => k > mem.row_ids /\ mem.data[k] = {} /\ Untouched(mem, k)
  <2>1. op = "INSERT" => k > mem.row_ids
    BY <1>2, <1>3
  <2>2. QED
    BY <1>2, <2>1 DEF RowInv, VersionInv
<1>8. /\ \A r : Live(m, r) <=> Live(mem, r)
      /\ \A r : Settled(mem, r) => Settled(m, r)
  <2>1. \A r : Live(m, r) <=> Live(mem, r)
    BY <1>4, <1>6 DEF Live, DeletedFor
  <2>2. \A x : HasEnded(mem, x) => HasEnded(m, x)
    BY <1>4, <1>6 DEF HasEnded
  <2>3. QED
    BY <1>5, <1>6, <2>1, <2>2 DEF Settled
<1> DEFINE n == Len(mem.undo) + 1
<1>9. /\ n \in Nat \ {0} /\ Len(m.undo) = n
      /\ \A i \in 1 .. n - 1 : m.undo[i] = mem.undo[i]
      /\ m.undo[n].row_id = k /\ m.undo[n].op = op /\ m.undo[n].old = old
      /\ \A l \in RowIds \ {k} : m.data[l] = mem.data[l] /\ RowsOf(m, l) = RowsOf(mem, l)
      /\ RowsOf(m, k) = {row}
      /\ \A v, w \in m.data[k] : v = w
      /\ \A l : Untouched(m, l) <=> Untouched(mem, l) /\ l # k
      /\ \A i \in 1 .. n - 1 : IsFirst(m, i) <=> IsFirst(mem, i)
      /\ IsFirst(m, n) <=> Untouched(mem, k)
  BY <1>2, <1>3, <1>7, WroteRows
<1> HIDE DEF n
<1>10. op # "INSERT" => /\ op \in {"UPDATE", "DELETE"} /\ old \in Row /\ RowsOf(mem, k) = {old}
                        /\ \E v \in mem.data[k] : old = v.row /\ Sees(mem, v)
  <2>1. SUFFICES ASSUME op # "INSERT"
                 PROVE  RowsOf(mem, k) = {old}
    BY <1>2
  <2>2. PICK v \in mem.data[k] : old = v.row
    BY <1>2, <2>1
  <2>3. \A w \in mem.data[k] : w = v
    BY <2>2 DEF RowInv, VersionInv
  <2>4. QED
    BY <2>2, <2>3 DEF RowsOf
<1>11. ASSUME NEW l \in RowIds
       PROVE  VersionInv(m, l)
  <2>1. VersionInv(mem, l)
    BY DEF RowInv
  <2>2. CASE l = k
    <3>1. ~(k > m.row_ids)
      <4>1. CASE op = "INSERT"
        BY <1>6, <4>1 DEF RowIds
      <4>2. CASE op # "INSERT"
        <5>1. mem.data[k] # {}
          BY <1>10, <4>2
        <5>2. ~(k > mem.row_ids)
          BY <2>1, <2>2, <5>1 DEF VersionInv
        <5>3. QED
          BY <1>6, <4>2, <5>2
      <4>3. QED
        BY <4>1, <4>2
    <3>2. QED
      BY <1>9, <2>2, <3>1 DEF VersionInv
  <2>3. CASE l # k
    <3>1. m.data[l] = mem.data[l] /\ RowsOf(m, l) = RowsOf(mem, l)
      BY <1>9, <2>3
    <3>2. l > m.row_ids => l > mem.row_ids
      BY <1>3, <1>6, <1>7 DEF RowIds
    <3>3. QED
      BY <1>8, <1>9, <2>1, <2>3, <3>1, <3>2 DEF VersionInv
  <2>4. QED
    BY <2>2, <2>3
<1>12. ASSUME NEW i \in 1 .. Len(m.undo), IsFirst(m, i)
       PROVE  UndoInv(m, i)
  <2>1. CASE i = n
    <3>1. Untouched(mem, k)
      BY <1>9, <1>12, <2>1
    <3>2. CASE op = "INSERT"
      BY <1>2, <1>6, <1>9, <2>1, <3>2 DEF UndoInv, a
    <3>3. CASE op # "INSERT"
      <4>1. Settled(mem, old)
        BY <1>10, <3>1, <3>3 DEF RowInv, VersionInv
      <4>2. PICK v \in mem.data[k] : old = v.row /\ Sees(mem, v)
        BY <1>10, <3>3
      <4>3. old.xmin \in Xid /\ old.xmin # NoXid /\ old.xmin # FrozenRow
        BY <1>10, <3>3, RowFacts
      <4>4. old.xmin # mem.xid
        BY <1>3, <4>1, <4>3 DEF Settled, HasEnded, XidInv
      <4>5. Live(mem, old)
        BY <4>2, <4>3, <4>4 DEF Sees, Visible, Own, Live, DeletedFor
      <4>6. Settled(m, old) /\ Live(m, old)
        BY <1>8, <4>1, <4>5
      <4>7. QED
        BY <1>2, <1>6, <1>9, <2>1, <3>3, <4>6 DEF UndoInv, a
    <3>4. QED
      BY <3>2, <3>3
  <2>2. CASE i # n
    <3>1. i \in 1 .. n - 1 /\ i \in 1 .. Len(mem.undo) /\ m.undo[i] = mem.undo[i]
      BY <1>9, <2>2 DEF n
    <3>2. IsFirst(mem, i) /\ UndoInv(mem, i)
      BY <1>9, <1>12, <3>1 DEF RowInv
    <3>3. mem.xid # NoXid /\ m.xid = mem.xid
      <4>1. mem.undo # <<>>
        BY <3>1, EmptySeq
      <4>2. QED
        BY <1>5, <1>6, <4>1 DEF TypeInv
    <3> DEFINE r == mem.undo[i]
    <3>4. r.row_id \in RowIds /\ (r.op # "INSERT" => r.old \in Row)
      <4>1. r \in Undo
        BY <1>3, <3>1, ElementOfSeq DEF Mems
      <4>2. QED
        BY <4>1 DEF Undo
    <3> HIDE DEF r
    <3>5. CASE r.row_id # k
      <4>1. RowsOf(m, r.row_id) = RowsOf(mem, r.row_id)
        BY <1>9, <3>4, <3>5
      <4>2. QED
        BY <1>8, <3>1, <3>2, <3>3, <4>1 DEF UndoInv, r
    <3>6. CASE r.row_id = k
      <4>1. ~Untouched(mem, k)
        BY <3>1, <3>6 DEF Untouched, r
      <4>2. op # "INSERT"
        BY <1>7, <4>1
      <4>3. PICK v \in mem.data[k] : old = v.row /\ Sees(mem, v)
        BY <1>10, <4>2
      <4>4. old.xmin \in Xid /\ old.xmin # NoXid /\ old.xmin # FrozenRow
        BY <1>10, <4>2, RowFacts
      <4>5. old.xmax # mem.xid
        BY <3>3, <4>3, <4>4 DEF Sees, Visible, DeletedFor
      <4>6. r.op # "DELETE"
        <5>1. SUFFICES ASSUME r.op = "DELETE"
                       PROVE  FALSE
          OBVIOUS
        <5>2. old = [r.old EXCEPT !.xmax = mem.xid]
          BY <1>10, <3>2, <3>6, <4>2, <5>1 DEF UndoInv, r
        <5>3. old.xmax = mem.xid
          BY <3>4, <5>1, <5>2 DEF Row
        <5>4. QED
          BY <4>5, <5>3
      <4>7. old.xmin = mem.xid
        BY <1>10, <3>2, <3>6, <4>2, <4>6 DEF UndoInv, r
      <4>8. row.xmin = m.xid /\ row.xmax \in {NoXid, m.xid}
        <5>1. CASE op = "DELETE"
          <6>1. row = [old EXCEPT !.xmax = m.xid]
            BY <1>2, <1>6, <5>1 DEF a
          <6>2. row.xmin = old.xmin /\ row.xmax = m.xid
            BY <1>10, <4>2, <6>1 DEF Row
          <6>3. QED
            BY <3>3, <4>7, <6>2
        <5>2. CASE op # "DELETE"
          BY <1>2, <1>6, <5>2 DEF a
        <5>3. QED
          BY <5>1, <5>2
      <4>9. r.op # "INSERT" => Settled(m, r.old) /\ Live(m, r.old)
        BY <1>8, <3>2 DEF UndoInv, r
      <4>10. RowsOf(m, r.row_id) = {row}
        BY <1>9, <3>6
      <4>11. QED
        BY <3>1, <4>6, <4>8, <4>9, <4>10 DEF UndoInv, r
    <3>7. QED
      BY <3>5, <3>6
  <2>3. QED
    BY <2>1, <2>2
<1>13. ASSUME NEW l \in RowIds, NEW r
       PROVE  IsPast(m, l, r) <=> IsPast(mem, l, r)
  <2>1. CASE l # k
    <3>1. Untouched(m, l) <=> Untouched(mem, l)
      BY <1>9, <2>1
    <3>2. RowsOf(m, l) = RowsOf(mem, l)
      BY <1>9, <2>1
    <3>3. ASSUME NEW i \in 1 .. Len(m.undo), m.undo[i].row_id = l
          PROVE  i \in 1 .. n - 1
      BY <1>9, <2>1, <3>3
    <3>4. Len(mem.undo) = n - 1
      BY <1>3, LenProperties DEF Mems, n
    <3>5. QED
      BY <1>9, <3>1, <3>2, <3>3, <3>4 DEF IsPast
  <2>2. CASE l = k /\ Untouched(mem, k)
    <3>1. ~Untouched(m, l) /\ IsFirst(m, n) /\ n \in 1 .. Len(m.undo)
      BY <1>9, <2>2
    <3>2. IsPast(m, l, r) <=> r \in Before(m.undo[n])
      <4>1. ASSUME NEW i \in 1 .. Len(m.undo), IsFirst(m, i), m.undo[i].row_id = k
            PROVE  i = n
        BY <1>6, <1>9, <3>1, <4>1, FirstUnique
      <4>2. QED
        BY <1>9, <2>2, <3>1, <4>1 DEF IsPast
    <3>3. IsPast(mem, l, r) <=> r \in RowsOf(mem, k)
      BY <2>2 DEF IsPast, Untouched
    <3>4. CASE op = "INSERT"
      BY <1>7, <1>9, <3>2, <3>3, <3>4 DEF Before, RowsOf
    <3>5. CASE op # "INSERT"
      BY <1>9, <1>10, <3>2, <3>3, <3>5 DEF Before
    <3>6. QED
      BY <3>4, <3>5
  <2>3. CASE l = k /\ ~Untouched(mem, k)
    <3>1. ~Untouched(m, l) /\ ~IsFirst(m, n)
      BY <1>9, <2>3
    <3>2. Len(mem.undo) = n - 1
      BY <1>3, LenProperties DEF Mems, n
    <3>3. \A i \in 1 .. Len(m.undo) : i = n \/ i \in 1 .. n - 1
      BY <1>9
    <3>4. \A i \in 1 .. n - 1 : i \in 1 .. Len(m.undo)
      BY <1>9
    <3>5. QED
      BY <1>9, <2>3, <3>1, <3>2, <3>3, <3>4 DEF IsPast
  <2>4. QED
    BY <2>1, <2>2, <2>3
<1>14. AckInv(m, acked)
  BY <1>8, <1>13 DEF AckInv, RowInv
<1>15. RowInv(m, acked)
  BY <1>11, <1>12, <1>14 DEF RowInv
<1>16. \/ Saved(m, Appended(wal, rec))
       \/ mem' = m
  BY <1>3, <1>6, AppendedIs, MaybeCheckpointStep
<1>17. QED
  BY <1>2, <1>15, <1>16, SameRows DEF Saved
\* The rows of a memory without an open transaction are what it tells clients,
\* if they are all settled.
LEMMA QuietRows ==
    ASSUME NEW m \in Mems, NEW told, m.undo = <<>>,
           \A k \in RowIds : \A v, w \in m.data[k] : v = w,
           \A k \in RowIds : k > m.row_ids => m.data[k] = {},
           \A k \in RowIds : \A row \in RowsOf(m, k) : Settled(m, row),
           \A e : e \in told <=>
             \E k \in RowIds, row \in Row : row \in RowsOf(m, k) /\ Live(m, row) /\ e = <<k, row.val>>
    PROVE  RowInv(m, told)
<1>1. Len(m.undo) = 0
  BY EmptySeq
<1>2. \A k : Untouched(m, k)
  BY <1>1 DEF Untouched
<1>3. \A k, row : IsPast(m, k, row) <=> row \in RowsOf(m, k)
  BY <1>1, <1>2 DEF IsPast
<1>4. AckInv(m, told)
  BY <1>3 DEF AckInv
<1>5. \A k \in RowIds : VersionInv(m, k)
  BY <1>2 DEF VersionInv
<1>6. QED
  BY <1>1, <1>4, <1>5 DEF RowInv

\* A commit tells clients what the session sees.
LEMMA CommitRows ==
    ASSUME TypeInv, XidInv(mem), RowInv(mem, acked), mem.xid # NoXid,
           NEW n \in Mems, SameXact(mem, n), n.data = mem.data,
           mem' = Ended(n, "COMMITTED"), acked' = View(mem)
    PROVE  RowInv(mem', acked')
<1>1. mem \in Mems
  BY DEF TypeInv
<1>2. n.xid = mem.xid /\ n.clog = mem.clog /\ n.row_ids = mem.row_ids /\ XidInv(n)
  BY DEF SameXact, XidInv
<1>3. /\ mem' \in Mems /\ mem'.xid = NoXid /\ mem'.undo = <<>>
      /\ mem'.data = mem.data /\ mem'.row_ids = mem.row_ids
  BY <1>2, EndedIs
<1>4. /\ StatusIn(mem'.clog, mem.xid) = "COMMITTED"
      /\ \A x : x # mem.xid => StatusIn(mem'.clog, x) = StatusIn(mem.clog, x)
      /\ DOMAIN mem'.clog = DOMAIN mem.clog
      /\ \A x \in DOMAIN mem'.clog : mem'.clog[x] # "IN_PROGRESS"
  BY <1>2, EndedLog
<1>5. \A k : RowsOf(mem', k) = RowsOf(mem, k)
  BY <1>3 DEF RowsOf
<1>6. ASSUME NEW k \in RowIds, NEW row \in RowsOf(mem, k)
      PROVE  /\ Settled(mem', row) /\ row \in Row
             /\ \A v : v.row = row => (Sees(mem, v) <=> Live(mem', row))
  <2>1. row \in Row /\ OwnOrSettled(mem, row)
    BY <1>1, RowsOwnOrSettled
  <2>2. mem.xid \in DOMAIN mem.clog
    BY DEF XidInv
  <2>3. \A x : HasEnded(mem, x) \/ x = mem.xid => HasEnded(mem', x)
    BY <1>4, <2>2 DEF HasEnded
  <2>4. Settled(mem', row)
    BY <2>1, <2>3 DEF OwnOrSettled, Settled
  <2>5. ASSUME NEW v, v.row = row
        PROVE  Sees(mem, v) <=> Live(mem', row)
    <3>1. /\ row.xmin # NoXid /\ row.xmin # FrozenRow /\ row.cid = 0
      BY <2>1, RowFacts
    <3>2. CASE row.xmin = mem.xid
      <4>1. Sees(mem, v) <=> row.xmax # mem.xid
        BY <2>5, <3>1, <3>2 DEF Sees, Visible, Own
      <4>2. row.xmax \in {NoXid, mem.xid}
        BY <2>1, <3>2 DEF OwnOrSettled
      <4>3. QED
        BY <1>4, <3>2, <4>1, <4>2 DEF Live, DeletedFor
    <3>3. CASE row.xmin # mem.xid
      <4>1. ~ActiveIn(Snapshot(mem), row.xmin)
        BY <3>3 DEF ActiveIn, Snapshot
      <4>2. Sees(mem, v) <=> StatusIn(mem.clog, row.xmin) = "COMMITTED" /\ ~DeletedFor(row, mem.xid, mem.clog)
        BY <2>5, <3>1, <3>3, <4>1 DEF Sees, Visible, Own
      <4>3. QED
        BY <1>4, <3>3, <4>2 DEF Live, DeletedFor
    <3>4. QED
      BY <3>2, <3>3
  <2>6. QED
    BY <2>1, <2>4, <2>5
<1>7. \A e : e \in acked' <=>
        \E k \in RowIds, row \in Row : row \in RowsOf(mem', k) /\ Live(mem', row) /\ e = <<k, row.val>>
  <2>1. \A e : e \in acked' <=> \E k \in RowIds : \E v \in mem.data[k] : Sees(mem, v) /\ e = <<k, v.row.val>>
    BY ViewIs
  <2>2. ASSUME NEW k \in RowIds, NEW v \in mem.data[k]
        PROVE  /\ v.row \in RowsOf(mem', k) /\ v.row \in Row
               /\ Sees(mem, v) <=> Live(mem', v.row)
    <3>1. v.row \in RowsOf(mem, k)
      BY DEF RowsOf
    <3>2. QED
      BY <1>5, <1>6, <3>1
  <2>3. \A k \in RowIds : \A row \in RowsOf(mem', k) : \E v \in mem.data[k] : row = v.row
    BY <1>5 DEF RowsOf
  <2>4. QED
    BY <2>1, <2>2, <2>3
<1>8. \A k \in RowIds : /\ \A v, w \in mem'.data[k] : v = w
                        /\ k > mem'.row_ids => mem'.data[k] = {}
  BY <1>3 DEF RowInv, VersionInv
<1>9. \A k \in RowIds : \A row \in RowsOf(mem', k) : Settled(mem', row)
  BY <1>5, <1>6
<1> DEFINE m == mem'
           told == acked'
<1>10. /\ m \in Mems /\ m.undo = <<>>
       /\ \A k \in RowIds : \A v, w \in m.data[k] : v = w
       /\ \A k \in RowIds : k > m.row_ids => m.data[k] = {}
       /\ \A k \in RowIds : \A row \in RowsOf(m, k) : Settled(m, row)
       /\ \A e : e \in told <=>
            \E k \in RowIds, row \in Row : row \in RowsOf(m, k) /\ Live(m, row) /\ e = <<k, row.val>>
  BY <1>3, <1>7, <1>8, <1>9
<1> HIDE DEF m, told
<1>11. RowInv(m, told)
  BY <1>10, QuietRows
<1>12. QED
  BY <1>11 DEF m, told

\* A rollback brings back what clients were told.
LEMMA RollbackRows ==
    ASSUME TypeInv, XidInv(mem), RowInv(mem, acked), Rollback
    PROVE  RowInv(mem', acked')
<1> DEFINE p == NextSeq(mem)
           n == ApplyUndo(p, mem.undo)
<1>1. mem \in Mems /\ mem.undo \in Seq(Undo) /\ mem.xid # NoXid /\ acked' = acked
      /\ mem' = Ended(n, "ABORTED")
  BY DEF TypeInv, Mems, Rollback
<1>2. p \in Mems /\ SameXact(mem, p) /\ p.data = mem.data
  BY <1>1, NextSeqIs
<1> HIDE DEF p
<1>3. /\ n \in Mems
      /\ SameXact(p, n)
      /\ \A k \in RowIds : Untouched(mem, k) => n.data[k] = mem.data[k]
      /\ \A i \in 1 .. Len(mem.undo) : IsFirst(mem, i) =>
           /\ RowsOf(n, mem.undo[i].row_id) = Before(mem.undo[i])
           /\ \A v, w \in n.data[mem.undo[i].row_id] : v = w
  <2> DEFINE undo == mem.undo
  <2>1. undo \in Seq(Undo)
    BY <1>1
  <2> HIDE DEF undo
  <2>2. /\ ApplyUndo(p, undo) \in Mems
        /\ SameXact(p, ApplyUndo(p, undo))
    BY <1>2, <2>1, ApplyUndoIs
  <2>3. \A k \in RowIds : (\A i \in 1 .. Len(undo) : undo[i].row_id # k)
                           => ApplyUndo(p, undo).data[k] = p.data[k]
    BY <1>2, <2>1, ApplyUndoIs
  <2>4. \A i \in 1 .. Len(undo) : FirstFrom(undo, 1, i) =>
          /\ RowsOf(ApplyUndo(p, undo), undo[i].row_id) = Before(undo[i])
          /\ \A v, w \in ApplyUndo(p, undo).data[undo[i].row_id] : v = w
    BY <1>2, <2>1, ApplyUndoIs
  <2>5. n = ApplyUndo(p, undo)
    BY DEF undo
  <2> HIDE DEF n
  <2>6. \A k \in RowIds : Untouched(mem, k) => n.data[k] = mem.data[k]
    BY <1>2, <2>3, <2>5 DEF Untouched, undo
  <2>7. \A i \in 1 .. Len(mem.undo) : IsFirst(mem, i) =>
          /\ RowsOf(n, mem.undo[i].row_id) = Before(mem.undo[i])
          /\ \A v, w \in n.data[mem.undo[i].row_id] : v = w
    BY <2>4, <2>5 DEF IsFirst, undo
  <2>8. QED
    BY <2>2, <2>5, <2>6, <2>7
<1> HIDE DEF n
<1>4. n.xid = mem.xid /\ n.clog = mem.clog /\ n.row_ids = mem.row_ids /\ XidInv(n)
  BY <1>2, <1>3 DEF SameXact, XidInv
<1>5. /\ mem' \in Mems /\ mem'.xid = NoXid /\ mem'.undo = <<>>
      /\ mem'.data = n.data /\ mem'.row_ids = mem.row_ids
  BY <1>1, <1>3, <1>4, EndedIs
<1>6. /\ StatusIn(mem'.clog, mem.xid) = "ABORTED"
      /\ \A x : x # mem.xid => StatusIn(mem'.clog, x) = StatusIn(mem.clog, x)
      /\ DOMAIN mem'.clog = DOMAIN mem.clog
      /\ \A x \in DOMAIN mem'.clog : mem'.clog[x] # "IN_PROGRESS"
      /\ StatusIn(mem.clog, mem.xid) = "IN_PROGRESS"
  BY <1>1, <1>3, <1>4, EndedLog
<1>7. \A row : (Live(mem', row) <=> Live(mem, row)) /\ (Settled(mem, row) => Settled(mem', row))
  <2>1. \A x : StatusIn(mem'.clog, x) = "COMMITTED" <=> StatusIn(mem.clog, x) = "COMMITTED"
    BY <1>6
  <2>2. \A row : Live(mem', row) <=> Live(mem, row)
    BY <2>1 DEF Live, DeletedFor
  <2>3. \A x : HasEnded(mem, x) => HasEnded(mem', x)
    BY <1>6 DEF HasEnded
  <2>4. QED
    BY <2>2, <2>3 DEF Settled
<1>8. ASSUME NEW k \in RowIds
      PROVE  /\ \A row : row \in RowsOf(mem', k) <=> IsPast(mem, k, row)
             /\ \A row \in RowsOf(mem', k) : Settled(mem, row)
             /\ \A v, w \in mem'.data[k] : v = w
             /\ k > mem'.row_ids => mem'.data[k] = {}
  <2>1. CASE Untouched(mem, k)
    <3>1. RowsOf(mem', k) = RowsOf(mem, k) /\ mem'.data[k] = mem.data[k]
      BY <1>3, <1>5, <2>1 DEF RowsOf
    <3>2. VersionInv(mem, k)
      BY DEF RowInv
    <3>3. \A row : IsPast(mem, k, row) <=> row \in RowsOf(mem, k)
      BY <2>1 DEF IsPast, Untouched
    <3>4. QED
      BY <1>5, <2>1, <3>1, <3>2, <3>3 DEF VersionInv
  <2>2. CASE ~Untouched(mem, k)
    <3>1. PICK i \in 1 .. Len(mem.undo) : mem.undo[i].row_id = k /\ IsFirst(mem, i)
      BY <1>1, <2>2, FirstExists
    <3>2. RowsOf(mem', k) = Before(mem.undo[i]) /\ \A v, w \in mem'.data[k] : v = w
      BY <1>3, <1>5, <3>1 DEF RowsOf
    <3>3. \A j \in 1 .. Len(mem.undo) : mem.undo[j].row_id = k /\ IsFirst(mem, j) => j = i
      BY <1>1, <3>1, FirstUnique
    <3>4. \A row : IsPast(mem, k, row) <=> row \in Before(mem.undo[i])
      BY <2>2, <3>1, <3>3 DEF IsPast
    <3>5. ~(k > mem.row_ids)
      BY <2>2 DEF RowInv, VersionInv
    <3>6. UndoInv(mem, i)
      BY <3>1 DEF RowInv
    <3>7. \A row \in Before(mem.undo[i]) : Settled(mem, row)
      BY <3>6 DEF UndoInv, Before
    <3>8. QED
      BY <1>5, <3>2, <3>4, <3>5, <3>7
  <2>3. QED
    BY <2>1, <2>2
<1> DEFINE m == mem'
<1>9. /\ m \in Mems /\ m.undo = <<>>
      /\ \A k \in RowIds : \A v, w \in m.data[k] : v = w
      /\ \A k \in RowIds : k > m.row_ids => m.data[k] = {}
      /\ \A k \in RowIds : \A row \in RowsOf(m, k) : Settled(m, row)
      /\ \A e : e \in acked <=>
           \E k \in RowIds, row \in Row : row \in RowsOf(m, k) /\ Live(m, row) /\ e = <<k, row.val>>
  <2>1. \A e : e \in acked <=>
          \E k \in RowIds, row \in Row : IsPast(mem, k, row) /\ Live(mem, row) /\ e = <<k, row.val>>
    BY DEF RowInv, AckInv
  <2>2. QED
    BY <1>5, <1>7, <1>8, <2>1
<1> HIDE DEF m
<1>10. RowInv(m, acked)
  BY <1>9, QuietRows
<1>11. QED
  BY <1>1, <1>10 DEF m
\* A clean restart loads the rows as they were, with the session's own
\* transaction aborted.
LEMMA RestartLoads ==
    ASSUME TypeInv, LogInv(mem, wal.file, ckp), RowInv(mem, acked), Restart
    PROVE  /\ mem' \in Mems /\ mem'.undo = <<>> /\ mem'.row_ids = mem.row_ids
           /\ acked' = View(mem')
           /\ \A k \in RowIds : /\ RowsOf(mem', k) = RowsOf(mem, k)
                                /\ \A v, w \in mem'.data[k] : v = w
                                /\ mem.data[k] = {} => mem'.data[k] = {}
                                /\ \A row \in RowsOf(mem', k) : Settled(mem', row)
           /\ \A e : e \in View(mem') <=>
                \E k \in RowIds, row \in Row :
                   row \in RowsOf(mem', k) /\ Live(mem', row) /\ e = <<k, row.val>>
           /\ \A row : Live(mem', row) <=> Live(mem, row)
<1>1. mem \in Mems /\ wal \in Wals /\ XidInv(mem)
  BY DEF TypeInv, LogInv
<1> DEFINE c == CheckpointOf(mem)
<1>2. c \in Ckps /\ c.clog = mem.clog /\ c.rows = ScanAll(mem.data) /\ c.row_ids = mem.row_ids
  BY <1>1, CheckpointOfIs
<1>3. Load(c, <<>>)
  BY <1>1, NothingKept DEF Restart
<1> HIDE DEF c
<1>4. mem' = FromCheckpoint(c) /\ acked' = View(mem')
  BY <1>2, <1>3, LoadsCheckpoint
<1> DEFINE V(p) == [seq |-> c.last_seq + Place(c.rows, p), row |-> p.row]
           m == mem'
<1>5. /\ m \in Mems /\ m.clog = Rebuilt(mem.clog) /\ m.xid = NoXid /\ m.undo = <<>>
      /\ m.row_ids = mem.row_ids
      /\ m.data = [k \in RowIds |-> {V(p) : p \in {q \in c.rows : q.row_id = k}}]
  BY <1>2, <1>4, FromCheckpointIs
<1> HIDE DEF m
<1>6. /\ DOMAIN m.clog = DOMAIN mem.clog
      /\ \A x \in DOMAIN m.clog : m.clog[x] # "IN_PROGRESS"
      /\ \A x : StatusIn(m.clog, x) = "COMMITTED" <=> StatusIn(mem.clog, x) = "COMMITTED"
  <2>1. mem.clog \in CLogs
    BY <1>1 DEF Mems
  <2>2. QED
    BY <1>5, <2>1, RebuiltIs
<1>7. /\ \A p \in c.rows : \E v \in mem.data[p.row_id] : p.seq = v.seq /\ p.row = v.row
      /\ \A k \in RowIds : \A v \in mem.data[k] :
           [row_id |-> k, seq |-> v.seq, row |-> v.row] \in c.rows
  BY <1>1, <1>2, ScanAllIs
<1>8. c.rows \in SUBSET [row_id : RowIds, seq : Nat, row : Row]
  BY <1>2 DEF Ckps
<1>9. ASSUME NEW k \in RowIds
      PROVE  /\ RowsOf(m, k) = RowsOf(mem, k)
             /\ \A v, w \in m.data[k] : v = w
             /\ mem.data[k] = {} => m.data[k] = {}
  <2>1. m.data[k] = {V(p) : p \in {q \in c.rows : q.row_id = k}}
    BY <1>5
  <2>2. \A p \in c.rows : V(p).row = p.row
    OBVIOUS
  <2>3. ASSUME NEW p \in c.rows, NEW q \in c.rows, p.row_id = k, q.row_id = k
        PROVE  p = q
    <3>1. PICK v \in mem.data[k] : p.seq = v.seq /\ p.row = v.row
      BY <1>7, <2>3
    <3>2. PICK w \in mem.data[k] : q.seq = w.seq /\ q.row = w.row
      BY <1>7, <2>3
    <3>3. v = w
      BY DEF RowInv, VersionInv
    <3>4. p.seq = q.seq /\ p.row = q.row /\ p.row_id = q.row_id
      BY <2>3, <3>1, <3>2, <3>3
    <3>5. QED
      BY <1>8, <3>4
  <2> HIDE DEF V
  <2>4. \A v, w \in m.data[k] : v = w
    BY <2>1, <2>3
  <2>5. mem.data[k] = {} => m.data[k] = {}
    BY <1>7, <2>1
  <2>6. ASSUME NEW row \in RowsOf(m, k)
        PROVE  row \in RowsOf(mem, k)
    <3>1. PICK p \in c.rows : p.row_id = k /\ row = V(p).row
      BY <2>1, <2>6 DEF RowsOf
    <3>2. QED
      BY <1>7, <2>2, <3>1 DEF RowsOf
  <2>7. ASSUME NEW row \in RowsOf(mem, k)
        PROVE  row \in RowsOf(m, k)
    <3>1. PICK v \in mem.data[k] : row = v.row
      BY <2>7 DEF RowsOf
    <3> DEFINE p == [row_id |-> k, seq |-> v.seq, row |-> v.row]
    <3>2. p \in c.rows /\ p.row_id = k /\ p.row = row
      BY <1>7, <3>1
    <3> HIDE DEF p
    <3>3. V(p) \in m.data[k] /\ V(p).row = row
      BY <2>1, <2>2, <3>2
    <3>4. QED
      BY <3>3 DEF RowsOf
  <2>8. QED
    BY <2>4, <2>5, <2>6, <2>7
<1> HIDE DEF V
<1>10. \A row : Live(m, row) <=> Live(mem, row)
  BY <1>6 DEF Live, DeletedFor
<1>11. ASSUME NEW k \in RowIds, NEW row \in RowsOf(m, k)
       PROVE  Settled(m, row) /\ row \in Row
  <2>1. row \in RowsOf(mem, k)
    BY <1>9
  <2>2. row \in Row /\ OwnOrSettled(mem, row)
    BY <1>1, <2>1, RowsOwnOrSettled
  <2>3. \A x : HasEnded(mem, x) => HasEnded(m, x)
    BY <1>6 DEF HasEnded
  <2>4. mem.xid # NoXid => HasEnded(m, mem.xid)
    BY <1>6 DEF XidInv, HasEnded, LogInv
  <2>5. row.xmin # NoXid
    BY <2>2, RowFacts
  <2>6. QED
    BY <2>2, <2>3, <2>4, <2>5 DEF OwnOrSettled, Settled
<1>12. \A e : e \in View(m) <=>
         \E k \in RowIds, row \in Row : row \in RowsOf(m, k) /\ Live(m, row) /\ e = <<k, row.val>>
  <2>1. \A e : e \in View(m) <=> \E k \in RowIds : \E v \in m.data[k] : Sees(m, v) /\ e = <<k, v.row.val>>
    BY ViewIs
  <2>2. ASSUME NEW k \in RowIds, NEW v \in m.data[k]
        PROVE  /\ v.row \in RowsOf(m, k) /\ v.row \in Row
               /\ Sees(m, v) <=> Live(m, v.row)
    <3>1. v.row \in RowsOf(m, k)
      BY DEF RowsOf
    <3>2. QED
      BY <1>5, <1>11, <3>1, SeesOutside
  <2>3. \A k \in RowIds : \A row \in RowsOf(m, k) : \E v \in m.data[k] : row = v.row
    BY DEF RowsOf
  <2>4. QED
    BY <2>1, <2>2, <2>3
<1>13. QED
  BY <1>4, <1>5, <1>9, <1>10, <1>11, <1>12 DEF m

LEMMA RestartRows ==
    ASSUME TypeInv, LogInv(mem, wal.file, ckp), RowInv(mem, acked), Restart
    PROVE  RowInv(mem', acked')
<1> DEFINE m == mem'
           told == acked'
<1>1. \A k \in RowIds : k > mem.row_ids => mem.data[k] = {}
  BY DEF RowInv, VersionInv
<1>2. /\ m \in Mems /\ m.undo = <<>>
      /\ \A k \in RowIds : \A v, w \in m.data[k] : v = w
      /\ \A k \in RowIds : k > m.row_ids => m.data[k] = {}
      /\ \A k \in RowIds : \A row \in RowsOf(m, k) : Settled(m, row)
      /\ \A e : e \in told <=>
           \E k \in RowIds, row \in Row : row \in RowsOf(m, k) /\ Live(m, row) /\ e = <<k, row.val>>
  BY <1>1, RestartLoads
<1> HIDE DEF m, told
<1>3. RowInv(m, told)
  BY <1>2, QuietRows
<1>4. QED
  BY <1>3 DEF m, told

\* Without an unfinished UPDATE the rows a clean restart finds are those that
\* clients were told of.
LEMMA RestartKeeps ==
    ASSUME TypeInv, LogInv(mem, wal.file, ckp), RowInv(mem, acked), Restart,
           ~Unfinished("UPDATE")
    PROVE  View(mem') = acked
<1>1. mem \in Mems /\ XidInv(mem)
  BY DEF TypeInv, LogInv
<1>2. \A e : e \in View(mem') <=>
        \E k \in RowIds, row \in Row : row \in RowsOf(mem, k) /\ Live(mem, row) /\ e = <<k, row.val>>
  BY RestartLoads
<1>3. \A e : e \in acked <=>
        \E k \in RowIds, row \in Row : IsPast(mem, k, row) /\ Live(mem, row) /\ e = <<k, row.val>>
  BY DEF RowInv, AckInv
<1>4. ASSUME NEW k \in RowIds
      PROVE  /\ \A row \in RowsOf(mem, k) : Live(mem, row) =>
                  \E r \in Row : IsPast(mem, k, r) /\ Live(mem, r) /\ r.val = row.val
             /\ \A row \in Row : IsPast(mem, k, row) /\ Live(mem, row) =>
                  \E r \in Row : r \in RowsOf(mem, k) /\ Live(mem, r) /\ r.val = row.val
  <2>1. \A row \in RowsOf(mem, k) : row \in Row
    BY <1>1, RowsOwnOrSettled
  <2>2. CASE Untouched(mem, k)
    <3>1. \A row : IsPast(mem, k, row) <=> row \in RowsOf(mem, k)
      BY <2>2 DEF IsPast, Untouched
    <3>2. QED
      BY <2>1, <3>1
  <2>3. CASE ~Untouched(mem, k)
    <3>1. PICK i \in 1 .. Len(mem.undo) : mem.undo[i].row_id = k /\ IsFirst(mem, i)
      BY <1>1, <2>3, FirstExists
    <3>2. \A j \in 1 .. Len(mem.undo) : mem.undo[j].row_id = k /\ IsFirst(mem, j) => j = i
      BY <1>1, <3>1, FirstUnique
    <3> DEFINE r == mem.undo[i]
    <3>3. r \in Undo
      BY <1>1, ElementOfSeq DEF Mems
    <3>4. r.op # "UPDATE" /\ UndoInv(mem, i)
      BY <3>1 DEF Unfinished, RowInv
    <3>5. \A row : IsPast(mem, k, row) <=> row \in Before(r)
      BY <2>3, <3>1, <3>2 DEF IsPast
    <3>6. mem.xid # NoXid /\ StatusIn(mem.clog, mem.xid) # "COMMITTED"
      <4>1. mem.undo # <<>>
        BY <3>1, EmptySeq
      <4>2. QED
        BY <1>1, <4>1 DEF TypeInv, XidInv, StatusIn
    <3>7. r.row_id = k
      BY <3>1
    <3> HIDE DEF r
    <3>8. CASE r.op = "INSERT"
      <4>1. \A row : ~IsPast(mem, k, row)
        BY <3>5, <3>8 DEF Before
      <4>2. \A row \in RowsOf(mem, k) : row.xmin = mem.xid
        BY <3>4, <3>7, <3>8 DEF UndoInv, r
      <4>3. \A row \in RowsOf(mem, k) : ~Live(mem, row)
        BY <3>6, <4>2 DEF Live
      <4>4. QED
        BY <4>1, <4>3
    <3>9. CASE r.op = "DELETE"
      <4> DEFINE new == [r.old EXCEPT !.xmax = mem.xid]
      <4>1. r.old \in Row
        BY <3>3, <3>9 DEF Undo
      <4>2. new.xmin = r.old.xmin /\ new.xmax = mem.xid /\ new.val = r.old.val
        BY <4>1 DEF Row
      <4>3. RowsOf(mem, k) = {new} /\ Live(mem, r.old)
        BY <3>4, <3>7, <3>9 DEF UndoInv, r
      <4> HIDE DEF new
      <4>4. Live(mem, new)
        BY <3>6, <4>2, <4>3 DEF Live, DeletedFor
      <4>5. \A row : IsPast(mem, k, row) <=> row = r.old
        BY <3>5, <3>9 DEF Before
      <4>6. QED
        BY <2>1, <4>1, <4>2, <4>3, <4>4, <4>5
    <3>10. QED
      BY <3>3, <3>4, <3>8, <3>9 DEF Undo
  <2>4. QED
    BY <2>2, <2>3
<1>5. \A k \in RowIds : \A row \in RowsOf(mem, k) : row \in Row
  BY <1>1, RowsOwnOrSettled
<1>6. ASSUME NEW e
      PROVE  e \in View(mem') <=> e \in acked
  <2>1. ASSUME e \in View(mem')
        PROVE  e \in acked
    <3>1. PICK k \in RowIds, row \in Row :
            row \in RowsOf(mem, k) /\ Live(mem, row) /\ e = <<k, row.val>>
      BY <1>2, <2>1
    <3>2. PICK r \in Row : IsPast(mem, k, r) /\ Live(mem, r) /\ r.val = row.val
      BY <1>4, <3>1
    <3>3. QED
      BY <1>3, <3>1, <3>2
  <2>2. ASSUME e \in acked
        PROVE  e \in View(mem')
    <3>1. PICK k \in RowIds, row \in Row :
            IsPast(mem, k, row) /\ Live(mem, row) /\ e = <<k, row.val>>
      BY <1>3, <2>2
    <3>2. PICK r \in Row : r \in RowsOf(mem, k) /\ Live(mem, r) /\ r.val = row.val
      BY <1>4, <3>1
    <3>3. QED
      BY <1>2, <3>1, <3>2
  <2>3. QED
    BY <2>1, <2>2
<1>7. QED
  BY <1>6
LEMMA RowStep ==
    ASSUME TypeInv, LogInv(mem, wal.file, ckp), RowInv(mem, acked), [Next]_vars, crashes' = 0
    PROVE  RowInv(mem', acked')
<1>1. mem \in Mems /\ wal \in Wals /\ crashes \in Nat /\ XidInv(mem)
  BY DEF TypeInv, LogInv
<1>2. CASE Statement
  BY <1>2, StatementRows
<1>3. ASSUME NEW val \in Values, Insert(val)
      PROVE  Statement
  BY <1>3, InsertStatement
<1>4. ASSUME NEW k \in RowIds, NEW v \in mem.data[k], Delete(k, v) \/ \E val \in Values : Update(k, v, val)
      PROVE  Statement
  BY <1>4, DeleteStatement, UpdateStatement
<1>5. CASE Commit
  <2> DEFINE n == NextSeq(mem)
  <2>1. n \in Mems /\ SameXact(mem, n) /\ n.data = mem.data
    BY <1>1, NextSeqIs
  <2>2. mem.xid # NoXid /\ mem' = Ended(n, "COMMITTED") /\ acked' = View(mem)
    BY <1>5 DEF Commit
  <2> HIDE DEF n
  <2>3. QED
    BY <1>1, <2>1, <2>2, CommitRows
<1>6. CASE AutoCommit
  <2>1. mem.xid # NoXid
    <3>1. Len(mem.undo) = 1 /\ Len(<<>>) = 0
      BY <1>6, EmptySeq DEF AutoCommit
    <3>2. mem.undo # <<>>
      BY <3>1
    <3>3. QED
      BY <3>2 DEF TypeInv
  <2>2. mem' = Ended(mem, "COMMITTED") /\ acked' = View(mem)
    BY <1>6 DEF AutoCommit
  <2>3. SameXact(mem, mem)
    BY DEF SameXact
  <2>4. QED
    BY <1>1, <2>1, <2>2, <2>3, CommitRows
<1>7. CASE Rollback
  BY <1>1, <1>7, RollbackRows
<1>8. CASE Save
  <2>1. acked' = acked /\ Checkpoint(mem, wal)
    BY <1>8 DEF Save
  <2>2. SameXact(mem, mem') /\ mem'.data = mem.data
    BY <1>1, <2>1, CheckpointStep DEF Saved
  <2>3. QED
    BY <2>1, <2>2, SameRows
<1>9. CASE Restart
  BY <1>9, RestartRows
<1>10. CASE Crash
  <2>1. crashes' = crashes + 1
    BY <1>10 DEF Crash
  <2>2. QED
    BY <1>1, <2>1
<1>11. CASE UNCHANGED vars
  BY <1>11 DEF vars
<1>12. QED
  BY <1>2, <1>3, <1>4, <1>5, <1>6, <1>7, <1>8, <1>9, <1>10, <1>11 DEF Next

-----------------------------------------------------------------------------
(* The theorems.                                                           *)

BeforeCrash == crashes = 0 => LogInv(mem, wal.file, ckp) /\ RowInv(mem, acked)

IInv == TypeInv /\ BeforeCrash

LEMMA InitInv ==
    ASSUME Init
    PROVE  IInv
<1>1. TypeInv
  BY InitType
<1>2. mem \in Mems /\ ckp \in Ckps
  BY <1>1 DEF TypeInv
<1>3. DOMAIN <<>> = {} /\ Len(<<>>) = 0
  BY EmptySeq
<1>4. /\ mem.clog = <<>> /\ mem.xid = NoXid /\ mem.undo = <<>> /\ mem.data = EmptyTable
      /\ wal.file = <<>> /\ ckp.clog = <<>> /\ acked = {}
  BY DEF Init, NoCheckpoint
<1>5. LogInv(mem, wal.file, ckp)
  <2>1. XidInv(mem)
    BY <1>3, <1>4 DEF XidInv
  <2>2. \A x \in Xid : StatusIn(ckp.clog, x) # "COMMITTED"
    BY <1>3, <1>4 DEF StatusIn
  <2>3. QED
    BY <1>3, <1>4, <2>1, <2>2 DEF LogInv
<1>6. \A k \in RowIds : mem.data[k] = {} /\ RowsOf(mem, k) = {}
  BY <1>4 DEF EmptyTable, RowsOf
<1>7. RowInv(mem, acked)
  BY <1>2, <1>4, <1>6, QuietRows
<1>8. QED
  BY <1>1, <1>5, <1>7 DEF IInv, BeforeCrash

LEMMA StepInv ==
    ASSUME IInv, [Next]_vars
    PROVE  IInv'
<1>1. TypeInv /\ TypeInv'
  BY TypeStep DEF IInv
<1>2. SUFFICES ASSUME crashes' = 0
               PROVE  LogInv(mem', wal'.file, ckp') /\ RowInv(mem', acked')
  BY <1>1 DEF IInv, BeforeCrash
<1>3. crashes = 0
  <2>1. crashes' = crashes \/ crashes' = crashes + 1
    <3>1. CASE Next
      <4>1. ASSUME NEW k \in RowIds, NEW v \in mem.data[k], NEW val \in Values, Update(k, v, val)
            PROVE  crashes' = crashes
        BY <4>1 DEF Update
      <4>2. ASSUME NEW k \in RowIds, NEW v \in mem.data[k], Delete(k, v)
            PROVE  crashes' = crashes
        BY <4>2 DEF Delete
      <4>3. ASSUME NEW val \in Values, Insert(val)
            PROVE  crashes' = crashes
        BY <4>3 DEF Insert
      <4>4. Commit \/ AutoCommit \/ Rollback \/ Save \/ Restart => crashes' = crashes
        BY DEF Commit, AutoCommit, Rollback, Save, Restart
      <4>5. Crash => crashes' = crashes + 1
        BY DEF Crash
      <4>6. QED
        BY <3>1, <4>1, <4>2, <4>3, <4>4, <4>5 DEF Next
    <3>2. CASE UNCHANGED vars
      BY <3>2 DEF vars
    <3>3. QED
      BY <3>1, <3>2
  <2>2. crashes \in Nat
    BY <1>1 DEF TypeInv
  <2>3. QED
    BY <1>2, <2>1, <2>2
<1>4. LogInv(mem, wal.file, ckp) /\ RowInv(mem, acked)
  BY <1>3 DEF IInv, BeforeCrash
<1>5. QED
  BY <1>1, <1>2, <1>4, LogStep, RowStep

\* The inductive invariant holds of every state.
THEOREM Inductive == Spec => []IInv
<1>1. Init => IInv
  BY InitInv
<1>2. IInv /\ [Next]_vars => IInv'
  BY StepInv
<1>3. QED
  BY <1>1, <1>2, PTL DEF Spec

\* Memory, log and checkpoint have their types, through every crash: replay of
\* any part of a log over any checkpoint leaves a memory the statements can
\* work on.
THEOREM TypeCorrect == Spec => []TypeOK
<1>1. IInv => TypeOK
  BY DEF IInv, TypeInv, TypeOK, Mems, Wals, Ckps
<1>2. QED
  BY <1>1, Inductive, PTL

\* Before the first crash a session outside a transaction sees exactly what was
\* last committed: undo, checkpoints and restarts neither lose nor bring back a
\* row.
THEOREM SeesCommitted == Spec => [](crashes = 0 /\ mem.xid = NoXid => View(mem) = acked)
<1>1. ASSUME IInv, crashes = 0, mem.xid = NoXid
      PROVE  View(mem) = acked
  <2>1. mem \in Mems /\ mem.undo = <<>> /\ XidInv(mem) /\ RowInv(mem, acked)
    BY <1>1 DEF IInv, TypeInv, BeforeCrash, LogInv
  <2>2. Len(mem.undo) = 0
    BY <2>1, EmptySeq
  <2>3. \A k, row : IsPast(mem, k, row) <=> row \in RowsOf(mem, k)
    BY <2>2 DEF IsPast, Untouched
  <2>4. \A e : e \in acked <=>
          \E k \in RowIds, row \in Row : row \in RowsOf(mem, k) /\ Live(mem, row) /\ e = <<k, row.val>>
    BY <2>1, <2>3 DEF RowInv, AckInv
  <2>5. \A e : e \in View(mem) <=>
          \E k \in RowIds : \E v \in mem.data[k] : Sees(mem, v) /\ e = <<k, v.row.val>>
    BY ViewIs
  <2>6. ASSUME NEW k \in RowIds, NEW v \in mem.data[k]
        PROVE  /\ v.row \in RowsOf(mem, k) /\ v.row \in Row
               /\ Sees(mem, v) <=> Live(mem, v.row)
    <3>1. v.row \in RowsOf(mem, k)
      BY DEF RowsOf
    <3>2. v.row \in Row
      BY <2>1, <3>1, RowsOwnOrSettled
    <3>3. QED
      BY <1>1, <3>1, <3>2, SeesOutside
  <2>7. \A k \in RowIds : \A row \in RowsOf(mem, k) : \E v \in mem.data[k] : row = v.row
    BY DEF RowsOf
  <2>8. \A e : e \in View(mem) <=> e \in acked
    BY <2>4, <2>5, <2>6, <2>7
  <2>9. QED
    BY <2>8
<1>2. IInv => (crashes = 0 /\ mem.xid = NoXid => View(mem) = acked)
  BY <1>1
<1>3. QED
  BY <1>2, Inductive, PTL

\* Before any crash, closing the database whatever transaction is open and
\* starting it again gives the rows last committed, however many checkpoints
\* and rollbacks there were, unless an UPDATE was unfinished.
THEOREM RestartCorrect == Spec => RestartKeepsCommitted
<1>1. IInv /\ [Next]_vars => [Restart /\ crashes = 0 /\ ~Unfinished("UPDATE") => View(mem') = acked]_vars
  <2>1. ASSUME IInv, Restart, crashes = 0, ~Unfinished("UPDATE")
        PROVE  View(mem') = acked
    BY <2>1, RestartKeeps DEF IInv, BeforeCrash
  <2>2. QED
    BY <2>1
<1>2. QED
  BY <1>1, Inductive, PTL DEF Spec, RestartKeepsCommitted

\* The first crash, wherever it strikes, loses no row that is committed in the
\* checkpoint that is read, unless its deleter committed.
THEOREM CrashCorrect == Spec => CrashKeepsCheckpoint
<1>1. IInv /\ [Next]_vars =>
        [Crash /\ crashes = 0 => CommittedIn(ckp', mem'.clog) \subseteq View(mem')]_vars
  <2>1. ASSUME IInv, Crash, crashes = 0
        PROVE  CommittedIn(ckp', mem'.clog) \subseteq View(mem')
    BY <2>1, CrashKeeps DEF IInv, BeforeCrash
  <2>2. QED
    BY <2>1
<1>2. QED
  BY <1>1, Inductive, PTL DEF Spec, CrashKeepsCheckpoint

\* The first recovery puts no row from the log: every change that was logged
\* comes before the XACT_COMMIT that would let replay_record apply it.
THEOREM ReplayPutsNothing ==
    Spec => [][Crash /\ crashes = 0 => mem'.data = FromCheckpoint(ckp').data]_vars
<1>1. IInv /\ [Next]_vars =>
        [Crash /\ crashes = 0 => mem'.data = FromCheckpoint(ckp').data]_vars
  <2>1. ASSUME IInv, Crash, crashes = 0
        PROVE  mem'.data = FromCheckpoint(ckp').data
    BY <2>1, FirstCrash DEF IInv, BeforeCrash
  <2>2. QED
    BY <2>1
<1>2. QED
  BY <1>1, Inductive, PTL DEF Spec
=============================================================================
