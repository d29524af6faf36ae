---------------------------- MODULE Store_proofs ----------------------------
(***************************************************************************)
(* Proofs about Store, for any number of rows, any values, savepoint names *)
(* and bounds.                                                             *)
(*                                                                         *)
(* With one session, at most one transaction is open.  Every xid on a row  *)
(* is then committed, frozen or that session's own (Settled), and what a   *)
(* session sees is simply the rows without a deleter (SeesLive).  Base and *)
(* savepoints are read off the undo list: a statement appends records that *)
(* restore exactly what it changed, and records applied by ROLLBACK TO and *)
(* left on the list are overruled by the earlier ones that are applied     *)
(* after them (PastAt, PastOfPast).                                        *)
(*                                                                         *)
(* Then Store implements RowTable.  By this invariant the three parts of   *)
(* the abstract state are the live rows of the table, of a full undo and   *)
(* of an undo to each savepoint (Mapping), so every step is a question     *)
(* about these rows.  A primary key is unique as long as an UPDATE reaches *)
(* one row of a table with a key.                                          *)
(***************************************************************************)
EXTENDS Store, FiniteSetTheorems, SequenceTheorems, WellFoundedInduction, TLAPS

-----------------------------------------------------------------------------
(* The least member of a set, and the order of a statement's rows.         *)

\* A nonempty set of naturals has a least member.
LEMMA FirstExists ==
    ASSUME NEW s \in SUBSET Nat, s # {}
    PROVE  First(s) \in s /\ \A y \in s : First(s) <= y
<1> DEFINE Less == {p \in Nat \X Nat : p[1] < p[2]}
<1>1. IsWellFoundedOn(Less, Nat)
  BY NatLessThanWellFounded, Zenon DEF OpToRel
<1>2. PICK x \in s : \A y \in s : <<y, x>> \notin Less
  <2> HIDE DEF Less
  <2>1. QED
    BY <1>1, WFMin
<1>3. ASSUME NEW y \in s
      PROVE  x <= y
  <2>1. y < x => <<y, x>> \in Less
    OBVIOUS
  <2>2. QED
    BY <1>2, <2>1
<1>4. QED
  BY <1>3 DEF First

\* The largest member of a nonempty set of rows.
LEMMA LargestExists ==
    ASSUME NEW s \in SUBSET RowIds, s # {}
    PROVE  \E x \in s : \A y \in s : y <= x
<1>1. MaxRowId \in Nat
  BY StoreAssumption DEF StoreAssumption
<1> DEFINE mirrored == {MaxRowId - x : x \in s}
<1>2. mirrored \in SUBSET Nat /\ mirrored # {}
  <2>1. \A x \in s : x \in Int /\ x <= MaxRowId
    BY <1>1 DEF RowIds
  <2>2. QED
    BY <1>1, <2>1
<1>3. PICK x \in s : First(mirrored) = MaxRowId - x
  <2> HIDE DEF mirrored
  <2>1. First(mirrored) \in mirrored
    BY <1>2, FirstExists
  <2>2. QED
    BY <2>1 DEF mirrored
<1>4. ASSUME NEW y \in s
      PROVE  y <= x
  <2>1. MaxRowId - y \in mirrored
    OBVIOUS
  <2>2. First(mirrored) <= MaxRowId - y
    <3> HIDE DEF mirrored
    <3>1. QED
      BY <1>2, <2>1, FirstExists
  <2>3. QED
    BY <1>1, <1>3, <2>2 DEF RowIds
<1>5. QED
  BY <1>4

\* A set of rows can be put in order: a smallest set that could not would be
\* one without its largest member, and then it could.
LEMMA OrderExists ==
    ASSUME NEW rows \in SUBSET RowIds
    PROVE  \E f \in [1 .. Cardinality(rows) -> rows] : InOrder(f, rows)
<1>1. MaxRowId \in Nat /\ IsFiniteSet(RowIds)
  BY StoreAssumption, FS_Interval DEF StoreAssumption, RowIds
<1> DEFINE Ordered(s) == \E f \in [1 .. Cardinality(s) -> s] : InOrder(f, s)
           bad == {n \in Nat : \E s \in SUBSET RowIds : Cardinality(s) = n /\ ~Ordered(s)}
<1>2. ASSUME NEW s \in SUBSET RowIds
      PROVE  IsFiniteSet(s) /\ Cardinality(s) \in Nat
  BY <1>1, FS_Subset, FS_CardinalityType
<1>3. SUFFICES bad = {}
  BY <1>2
<1>4. SUFFICES ASSUME bad # {}
               PROVE  FALSE
  OBVIOUS
<1>5. PICK s \in SUBSET RowIds : Cardinality(s) = First(bad) /\ ~Ordered(s)
  <2>1. bad \in SUBSET Nat
    OBVIOUS
  <2>2. First(bad) \in bad
    <3> HIDE DEF bad
    <3>1. QED
      BY <1>4, <2>1, FirstExists
  <2>3. QED
    BY <2>2
<1>6. s # {}
  <2>1. SUFFICES ASSUME s = {}
                 PROVE  Ordered(s)
    BY <1>5
  <2>2. Cardinality(s) = 0 /\ 1 .. 0 = {}
    BY <2>1, FS_EmptySet
  <2>3. [i \in 1 .. 0 |-> 0] \in [1 .. 0 -> s]
    BY <2>1
  <2>4. InOrder([i \in 1 .. 0 |-> 0], s)
    BY <2>1, <2>2 DEF InOrder
  <2>5. QED
    BY <2>2, <2>3, <2>4
<1>7. PICK last \in s : \A y \in s : y <= last
  BY <1>6, LargestExists
<1> DEFINE rest == s \ {last}
           n == Cardinality(s)
<1>8. /\ n \in Nat /\ n # 0 /\ Cardinality(rest) = n - 1
      /\ rest \in SUBSET RowIds
  <2>1. IsFiniteSet(s) /\ n \in Nat
    BY <1>2
  <2>2. n # 0
    BY <1>6, <2>1, FS_EmptySet
  <2>3. Cardinality(s \ {last}) = Cardinality(s) - 1
    BY <2>1, FS_RemoveElement
  <2>4. QED
    BY <2>1, <2>2, <2>3
<1>9. Ordered(rest)
  <2>1. SUFFICES ASSUME ~Ordered(rest)
                 PROVE  FALSE
    OBVIOUS
  <2>2. n - 1 \in bad
    <3> HIDE DEF Ordered
    <3>1. n - 1 \in Nat
      BY <1>8
    <3>2. \E t \in SUBSET RowIds : Cardinality(t) = n - 1 /\ ~Ordered(t)
      BY <1>8, <2>1
    <3>3. QED
      BY <3>1, <3>2
  <2>3. bad \in SUBSET Nat
    OBVIOUS
  <2>4. First(bad) <= n - 1
    <3> HIDE DEF bad
    <3>1. QED
      BY <1>4, <2>2, <2>3, FirstExists
  <2>5. QED
    BY <1>5, <1>8, <2>4
<1>10. PICK f \in [1 .. n - 1 -> rest] :
          /\ rest = {f[i] : i \in 1 .. n - 1}
          /\ \A i, j \in 1 .. n - 1 : i < j => f[i] < f[j]
  BY <1>8, <1>9, Zenon DEF InOrder
<1> DEFINE g == [i \in 1 .. n |-> IF i = n THEN last ELSE f[i]]
<1>11. g \in [1 .. n -> s]
  BY <1>8
<1>12. InOrder(g, s)
  <2>1. ASSUME NEW i \in 1 .. n, NEW j \in 1 .. n, i < j
        PROVE  g[i] < g[j]
    <3>1. i \in 1 .. n - 1 /\ f[i] \in rest /\ g[i] = f[i]
      BY <1>8, <2>1
    <3>2. CASE j = n
      <4>1. f[i] \in s /\ f[i] # last
        BY <3>1
      <4>2. f[i] <= last
        BY <1>7, <4>1
      <4>3. f[i] \in Int /\ last \in Int
        <5>1. \A k \in RowIds : k \in Int
          BY <1>1 DEF RowIds
        <5>2. QED
          BY <4>1, <5>1
      <4>4. g[j] = last
        BY <3>2
      <4>5. QED
        BY <3>1, <4>1, <4>2, <4>3, <4>4
    <3>3. CASE j # n
      BY <1>8, <1>10, <2>1, <3>1, <3>3
    <3>4. QED
      BY <3>2, <3>3
  <2>2. s = {g[i] : i \in 1 .. n}
    <3>1. ASSUME NEW k \in s
          PROVE  \E i \in 1 .. n : k = g[i]
      <4>1. CASE k = last
        BY <1>8, <4>1
      <4>2. CASE k # last
        <5>1. PICK i \in 1 .. n - 1 : k = f[i]
          BY <1>10, <4>2
        <5>2. QED
          BY <1>8, <5>1
      <4>3. QED
        BY <4>1, <4>2
    <3>2. QED
      BY <1>11, <3>1
  <2>3. QED
    BY <2>1, <2>2 DEF InOrder
<1>13. QED
  BY <1>5, <1>11, <1>12

\* What a statement saves: one record for each of its rows, of that row.
LEMMA SavedRecords ==
    ASSUME NEW rows \in SUBSET RowIds
    PROVE  /\ Saved(rows) \in Seq([row_id : rows, old : {data[k] : k \in rows}])
           /\ \A k \in rows : \E i \in 1 .. Len(Saved(rows)) : Saved(rows)[i].row_id = k
           /\ \A i \in 1 .. Len(Saved(rows)) :
                 Saved(rows)[i].old = data[Saved(rows)[i].row_id]
<1> DEFINE n == Cardinality(rows)
           order == CHOOSE f \in [1 .. n -> rows] : InOrder(f, rows)
<1>1. n \in Nat
  <2>1. IsFiniteSet(RowIds)
    BY StoreAssumption, FS_Interval DEF StoreAssumption, RowIds
  <2>2. QED
    BY <2>1, FS_Subset, FS_CardinalityType
<1>2. order \in [1 .. n -> rows] /\ InOrder(order, rows)
  BY OrderExists
<1>3. Saved(rows) = [i \in 1 .. n |-> [row_id |-> order[i], old |-> data[order[i]]]]
  BY DEF Saved
<1>4. rows = {order[i] : i \in 1 .. n}
  BY <1>2 DEF InOrder
<1> HIDE DEF n, order
<1>5. Saved(rows) \in Seq([row_id : rows, old : {data[k] : k \in rows}])
  BY <1>1, <1>2, <1>3
<1>6. Len(Saved(rows)) = n
  BY <1>1, <1>3
<1>7. \A k \in rows : \E i \in 1 .. n : Saved(rows)[i].row_id = k
  BY <1>3, <1>4
<1>8. \A i \in 1 .. n : Saved(rows)[i].old = data[Saved(rows)[i].row_id]
  BY <1>3
<1>9. QED
  BY <1>5, <1>6, <1>7, <1>8

-----------------------------------------------------------------------------
(* Rows and undo records.                                                  *)

\* The rows that applying the records after a position brings back.
Past(rows, recs, p) == Undone(rows, After(recs, p))

LEMMA PastFunction ==
    ASSUME NEW rows, NEW recs, NEW p
    PROVE  Past(rows, recs, p) = [k \in RowIds |-> Past(rows, recs, p)[k]]
  BY DEF Past, Undone

\* A row is as the first record of it after the position says, or unchanged.
Untouched(recs, p, k) == \A i \in p + 1 .. Len(recs) : recs[i].row_id # k
FirstOf(recs, p, k, i) ==
    /\ i \in p + 1 .. Len(recs)
    /\ recs[i].row_id = k
    /\ \A j \in p + 1 .. i - 1 : recs[j].row_id # k

LEMMA PastAt ==
    ASSUME NEW S, NEW recs \in Seq(S), NEW p \in 0 .. Len(recs),
           NEW k \in RowIds, NEW rows
    PROVE  \/ Untouched(recs, p, k) /\ Past(rows, recs, p)[k] = rows[k]
           \/ \E i \in p + 1 .. Len(recs) :
                 FirstOf(recs, p, k, i) /\ Past(rows, recs, p)[k] = recs[i].old
<1> DEFINE later == After(recs, p)
           mine == {i \in 1 .. Len(later) : later[i].row_id = k}
<1>1. Len(later) = Len(recs) - p /\ \A i \in 1 .. Len(recs) - p : later[i] = recs[p + i]
  <2>1. Len(recs) \in Nat /\ p \in Nat /\ p <= Len(recs)
    OBVIOUS
  <2>2. \A i \in 1 .. Len(recs) : recs[i] \in S
    OBVIOUS
  <2>3. \A i \in p + 1 .. Len(recs) : i \in 1 .. Len(recs)
    BY <2>1
  <2>4. \A i \in p + 1 .. Len(recs) : recs[i] \in S
    BY <2>2, <2>3
  <2>5. p + 1 \in Int /\ Len(recs) \in Int
    BY <2>1
  <2>6. /\ Len(later) = IF p + 1 <= Len(recs) THEN Len(recs) - (p + 1) + 1 ELSE 0
        /\ \A i \in 1 .. Len(recs) - (p + 1) + 1 : later[i] = recs[p + 1 + i - 1]
    BY <2>4, <2>5, SubSeqProperties DEF After
  <2> HIDE DEF later
  <2>7. Len(later) = Len(recs) - p
    BY <2>1, <2>6
  <2>8. ASSUME NEW i \in 1 .. Len(recs) - p
        PROVE  later[i] = recs[p + i]
    <3>1. i \in 1 .. Len(recs) - (p + 1) + 1 /\ p + 1 + i - 1 = p + i
      BY <2>1
    <3>2. QED
      BY <2>6, <3>1
  <2>9. QED
    BY <2>7, <2>8
<1>2. Past(rows, recs, p)[k] = IF mine = {} THEN rows[k] ELSE later[First(mine)].old
  BY DEF Past, Undone
<1> HIDE DEF later
<1>3. CASE mine = {}
  <2>1. ASSUME NEW i \in p + 1 .. Len(recs), recs[i].row_id = k
        PROVE  FALSE
    <3>1. i - p \in 1 .. Len(later) /\ later[i - p] = recs[i]
      BY <1>1
    <3>2. QED
      BY <1>3, <2>1, <3>1
  <2>2. QED
    BY <1>2, <1>3, <2>1 DEF Untouched
<1>4. CASE mine # {}
  <2>1. First(mine) \in mine /\ \A j \in mine : First(mine) <= j
    <3>1. mine \in SUBSET Nat
      BY <1>1
    <3> HIDE DEF mine
    <3>2. QED
      BY <1>4, <3>1, FirstExists
  <2> DEFINE f == First(mine)
             i == p + f
  <2>2. f \in 1 .. Len(recs) - p /\ later[f].row_id = k /\ later[f] = recs[i]
    BY <1>1, <2>1
  <2>3. ASSUME NEW j \in p + 1 .. i - 1, recs[j].row_id = k
        PROVE  FALSE
    <3>1. j - p \in 1 .. Len(recs) - p /\ later[j - p] = recs[j]
      BY <1>1, <2>2
    <3>2. j - p \in mine
      BY <1>1, <2>3, <3>1
    <3>3. f <= j - p
      BY <2>1, <3>2
    <3>4. QED
      BY <2>2, <3>3
  <2>4. i \in p + 1 .. Len(recs)
    BY <2>2
  <2>5. QED
    BY <1>2, <1>4, <2>2, <2>3, <2>4 DEF FirstOf
<1>5. QED
  BY <1>3, <1>4

\* Records applied and left on the list make no difference to those before
\* them, which are applied after them and overrule them.
LEMMA PastOfPast ==
    ASSUME NEW S, NEW recs \in Seq(S), NEW p \in 0 .. Len(recs),
           NEW q \in p .. Len(recs), NEW rows
    PROVE  Past(Past(rows, recs, q), recs, p) = Past(rows, recs, p)
<1> DEFINE once == Past(rows, recs, q)
<1>1. ASSUME NEW k \in RowIds
      PROVE  Past(once, recs, p)[k] = Past(rows, recs, p)[k]
  <2>1. CASE Untouched(recs, p, k)
    <3>1. Untouched(recs, q, k)
      BY <2>1 DEF Untouched
    <3>2. once[k] = rows[k]
      BY <3>1, PastAt DEF Untouched, FirstOf
    <3>3. Past(once, recs, p)[k] = once[k] /\ Past(rows, recs, p)[k] = rows[k]
      <4> HIDE DEF once
      <4>1. QED
        BY <2>1, PastAt DEF Untouched, FirstOf
    <3>4. QED
      BY <3>2, <3>3
  <2>2. CASE ~Untouched(recs, p, k)
    <3> HIDE DEF once
    <3>1. PICK i \in p + 1 .. Len(recs) :
             FirstOf(recs, p, k, i) /\ Past(rows, recs, p)[k] = recs[i].old
      BY <2>2, PastAt
    <3>2. PICK j \in p + 1 .. Len(recs) :
             FirstOf(recs, p, k, j) /\ Past(once, recs, p)[k] = recs[j].old
      BY <2>2, PastAt
    <3>3. i = j
      <4>1. ~(i < j) /\ ~(j < i)
        BY <3>1, <3>2 DEF FirstOf
      <4>2. QED
        BY <4>1
    <3>4. QED
      BY <3>1, <3>2, <3>3
  <2>3. QED
    BY <2>1, <2>2
<1>2. QED
  BY <1>1 DEF Past, Undone

\* Records that hold the old version of every row that is new.
Restores(recs, rows, new) ==
    /\ \A i \in 1 .. Len(recs) : recs[i].old = rows[recs[i].row_id]
    /\ \A k \in RowIds : \/ new[k] = rows[k]
                         \/ \E i \in 1 .. Len(recs) : recs[i].row_id = k

\* A statement appends records that restore what it changed, and so leaves
\* everything an undo brings back as it was.
LEMMA PastOfMore ==
    ASSUME NEW recs \in Seq(Undo), NEW more \in Seq(Undo), NEW p \in 0 .. Len(recs),
           NEW rows, NEW new,
           Restores(more, rows, new)
    PROVE  Past(new, recs \o more, p) = Past(rows, recs, p)
<1> USE DEF Restores
<1> DEFINE all == recs \o more
<1>1. /\ Len(recs) \in Nat /\ Len(more) \in Nat /\ p \in Nat /\ p <= Len(recs)
      /\ all \in Seq(Undo) /\ Len(all) = Len(recs) + Len(more)
      /\ p \in 0 .. Len(all)
      /\ \A i \in 1 .. Len(recs) : all[i] = recs[i]
      /\ \A i \in 1 .. Len(more) : all[Len(recs) + i] = more[i]
  BY ConcatProperties
<1> HIDE DEF all
<1>2. ASSUME NEW k \in RowIds
      PROVE  Past(new, all, p)[k] = Past(rows, recs, p)[k]
  <2> DEFINE then == Past(new, all, p)[k]
  <2>0. \/ Untouched(all, p, k) /\ then = new[k]
        \/ \E j \in p + 1 .. Len(all) : FirstOf(all, p, k, j) /\ then = all[j].old
    <3>1. all \in Seq(Undo) /\ p \in 0 .. Len(all)
      BY <1>1
    <3>2. QED
      BY <3>1, PastAt
  <2> HIDE DEF then
  <2>1. CASE ~Untouched(recs, p, k)
    <3>1. ~Untouched(all, p, k)
      BY <1>1, <2>1 DEF Untouched
    <3>2. PICK i \in p + 1 .. Len(recs) :
             FirstOf(recs, p, k, i) /\ Past(rows, recs, p)[k] = recs[i].old
      BY <2>1, PastAt
    <3>3. PICK j \in p + 1 .. Len(all) :
             FirstOf(all, p, k, j) /\ then = all[j].old
      BY <2>0, <3>1
    <3>4. i = j
      <4>1. ~(i < j)
        BY <1>1, <3>2, <3>3 DEF FirstOf
      <4>2. ~(j < i)
        BY <1>1, <3>2, <3>3 DEF FirstOf
      <4>3. QED
        BY <4>1, <4>2
    <3>5. QED
      BY <1>1, <3>2, <3>3, <3>4 DEF then
  <2>2. CASE Untouched(recs, p, k)
    <3>1. Past(rows, recs, p)[k] = rows[k]
      BY <2>2, PastAt DEF Untouched, FirstOf
    <3>2. CASE Untouched(all, p, k)
      <4>1. \A i \in 1 .. Len(more) : more[i].row_id # k
        <5>1. ASSUME NEW i \in 1 .. Len(more)
              PROVE  more[i].row_id # k
          <6>1. Len(recs) + i \in p + 1 .. Len(all)
            BY <1>1
          <6>2. QED
            BY <1>1, <3>2, <6>1 DEF Untouched
        <5>2. QED
          BY <5>1
      <4>2. then = new[k]
        BY <2>0, <3>2 DEF Untouched, FirstOf
      <4>3. QED
        BY <3>1, <4>1, <4>2 DEF then
    <3>3. CASE ~Untouched(all, p, k)
      <4>1. PICK j \in p + 1 .. Len(all) :
               FirstOf(all, p, k, j) /\ then = all[j].old
        BY <2>0, <3>3
      <4>2. j > Len(recs)
        BY <1>1, <2>2, <4>1 DEF Untouched, FirstOf
      <4>3. j - Len(recs) \in 1 .. Len(more) /\ all[j] = more[j - Len(recs)]
        BY <1>1, <4>2
      <4>4. QED
        BY <3>1, <4>1, <4>3 DEF FirstOf, then
    <3>4. QED
      BY <3>2, <3>3
  <2>3. QED
    BY <2>1, <2>2
<1>3. QED
  BY <1>2 DEF Past, Undone, all

-----------------------------------------------------------------------------
(* The inductive invariant.                                                *)

\* A row version nobody has deleted, and its content.
Live(row) == row # NoRow /\ row.xmax = NoXid
Shown(row) == IF Live(row) THEN row.val ELSE NoValue

Done(x) == StatusIn(clog, x) = "COMMITTED"

\* A version is committed, frozen or the session's own, and so is its end; what
\* the transaction inserted only the transaction can have deleted.
Settled(row) ==
    row # NoRow =>
        /\ row.xmin # NoXid
        /\ row.xmin \in {FrozenRow, ctx.xid} \/ Done(row.xmin)
        /\ row.xmax \in {NoXid, ctx.xid} \/ Done(row.xmax)
        /\ row.xmin = ctx.xid =>
             row.xmax \in {NoXid, ctx.xid} /\ row.cid <= ctx.command_id

\* The open transaction has not touched a version.
Foreign(row) ==
    row # NoRow /\ ctx.xid # NoXid => row.xmin # ctx.xid /\ row.xmax # ctx.xid

\* At most the session's own xid is active, it is the newest, and all others
\* that were handed out have a verdict.
XidInv ==
    /\ active_xids = {ctx.xid} \ {NoXid}
    /\ ctx.xid # NoXid => ctx.xid = next_xid - 1
    /\ \A x \in TM!Xid :
         clog[x] = "IN_PROGRESS" <=> x >= next_xid \/ x = ctx.xid

\* What goes with which block state, and where savepoints point.
BlockInv ==
    /\ ctx.block_state = "DEFAULT" => ctx.xid = NoXid
    /\ ctx.xid = NoXid => ctx.undo_records = <<>>
    /\ ctx.block_state \in {"DEFAULT", "STARTED"} => ctx.savepoints = <<>>
    /\ ctx.command_id <= MaxCommand
    /\ \A i \in 1 .. Len(ctx.savepoints) :
         /\ ctx.savepoints[i].undo_position <= Len(ctx.undo_records)
         /\ \A j \in 1 .. i : ctx.savepoints[j].undo_position
                                <= ctx.savepoints[i].undo_position

\* Versions in the table and on the undo list; what a full undo leaves is none
\* of the transaction's doing; rowids are handed out in order.
RowInv ==
    /\ \A k \in RowIds : Settled(data[k])
    /\ \A i \in 1 .. Len(ctx.undo_records) : Settled(ctx.undo_records[i].old)
    /\ \A k \in RowIds : Foreign(Past(data, ctx.undo_records, 0)[k])
    /\ \A k \in RowIds : k > row_ids => data[k] = NoRow
    /\ \A i \in 1 .. Len(ctx.undo_records) : ctx.undo_records[i].row_id <= row_ids

IInv == TypeOK /\ XidInv /\ BlockInv /\ RowInv

-----------------------------------------------------------------------------
(* What follows from the invariant.                                        *)

\* The types, one by one.
LEMMA Fields ==
    ASSUME TypeOK
    PROVE  /\ next_xid \in Nat /\ next_xid >= 3 /\ next_xid <= XIDEmergencyStop
           /\ TM!Xid = 3 .. XIDEmergencyStop - 1
           /\ XIDEmergencyStop \in Nat /\ MaxCommand \in Nat /\ MaxRowId \in Nat
           /\ clog \in [TM!Xid -> TM!Status]
           /\ ctx.xid \in TM!Xid \cup {NoXid}
           /\ ctx.block_state \in TM!BlockState
           /\ ctx.command_id \in Nat
           /\ ctx.undo_records \in Seq(Undo)
           /\ ctx.snapshot \in TM!Snapshot
           /\ ctx.isolation \in TM!Isolation
           /\ ctx.savepoints \in Seq(TM!Savepoint)
           /\ data \in [RowIds -> Version \cup {NoRow}]
           /\ row_ids \in Nat /\ row_ids <= MaxRowId
           /\ has_pk \in BOOLEAN
<1>1. ctx \in TM!TransactionContext /\ next_xid \in 3 .. XIDEmergencyStop
  BY DEF TypeOK, TM!TypeOK, TM!FirstNormalXid
<1>2. XIDEmergencyStop \in Nat /\ MaxCommand \in Nat /\ MaxRowId \in Nat
  BY StoreAssumption DEF StoreAssumption
<1>3. next_xid \in Nat /\ next_xid >= 3 /\ next_xid <= XIDEmergencyStop
  BY <1>1, <1>2
<1>4. row_ids \in Nat /\ row_ids <= MaxRowId /\ has_pk \in BOOLEAN
  BY <1>2, StoreAssumption DEF TypeOK, RowIds, StoreAssumption
<1>5. QED
  BY <1>1, <1>2, <1>3, <1>4
     DEF TypeOK, TM!TypeOK, TM!Xid, TM!FirstNormalXid, TM!TransactionContext,
         TM!InvalidXid, NoXid

\* A version's fields.
LEMMA VersionFields ==
    ASSUME NEW row \in Version
    PROVE  /\ row # NoRow
           /\ row.xmin \in RowXid /\ row.xmax \in RowXid
           /\ row.cid \in 0 .. MaxCommand /\ row.val \in Values
<1>1. row.xmin \in RowXid /\ row.xmax \in RowXid /\ row.cid \in 0 .. MaxCommand
      /\ row.val \in Values
  BY DEF Version
<1>2. -1 \notin RowXid
  BY StoreAssumption DEF StoreAssumption, RowXid, NoXid, FrozenRow
<1>3. QED
  BY <1>1, <1>2 DEF NoRow

\* A statement sees the live rows: with the session's xid, with the one it is
\* about to get, and without one if the rows are not the transaction's doing.
LEMMA SeesLive ==
    ASSUME TypeOK, XidInv,
           NEW row \in Version \cup {NoRow}, Settled(row),
           NEW xid,
           \/ xid = ctx.xid
           \/ xid = TM!WriterXid
           \/ xid = NoXid /\ Foreign(row)
    PROVE  Sees(row, xid, TM!GetSnapshot) <=> Live(row)
<1>1. CASE row = NoRow
  BY <1>1 DEF Sees, Live
<1>2. CASE row \in Version
  <2>1. /\ row # NoRow /\ row.xmin \in RowXid /\ row.xmax \in RowXid
        /\ row.cid \in 0 .. MaxCommand
    BY <1>2, VersionFields
  <2>2. row.xmin # NoXid /\ TM!GetSnapshot.xip = active_xids
    BY <2>1 DEF Settled, TM!GetSnapshot
  <2>3. \A x \in RowXid : Done(x) => x \in TM!Xid /\ x # ctx.xid /\ x < next_xid
    BY Fields DEF Done, StatusIn, XidInv, RowXid, NoXid, FrozenRow
  <2>4. xid = NoXid \/ xid = ctx.xid \/ (ctx.xid = NoXid /\ xid = next_xid)
    BY DEF TM!WriterXid, TM!InvalidXid, NoXid
  <2>5. ~Done(NoXid) /\ ~Done(FrozenRow)
    BY Fields DEF Done, StatusIn, NoXid, FrozenRow
  <2>6. row.xmin # FrozenRow /\ Done(row.xmin) => ~ActiveIn(TM!GetSnapshot, row.xmin)
    BY <2>1, <2>2, <2>3 DEF ActiveIn, XidInv
  <2>7. CASE xid # NoXid /\ row.xmin = xid
    <3>1. xid = ctx.xid
      BY <2>1, <2>3, <2>4, <2>7, Fields DEF Settled, NoXid, FrozenRow
    <3>2. row.xmax \in {NoXid, ctx.xid} /\ row.cid <= ctx.command_id
      BY <2>1, <2>7, <3>1 DEF Settled
    <3>3. row.xmin # FrozenRow
      BY <2>7, <3>1, Fields DEF FrozenRow, NoXid
    <3>4. QED
      BY <2>1, <2>2, <2>7, <3>1, <3>2, <3>3 DEF Sees, Visible, Own, Live
  <2>8. CASE ~(xid # NoXid /\ row.xmin = xid)
    <3>1. row.xmin = FrozenRow \/ Done(row.xmin)
      <4>1. CASE xid = ctx.xid \/ ctx.xid = NoXid
        BY <2>1, <2>2, <2>8, <4>1 DEF Settled
      <4>2. CASE xid # ctx.xid /\ ctx.xid # NoXid
        BY <2>1, <2>2, <2>4, <4>2 DEF Settled, Foreign, TM!WriterXid, TM!InvalidXid, NoXid
      <4>3. QED
        BY <4>1, <4>2
    <3>2. DeletedFor(row, xid, clog) <=> row.xmax # NoXid
      <4>1. CASE xid = ctx.xid \/ ctx.xid = NoXid
        BY <2>1, <4>1 DEF Settled, DeletedFor, Done
      <4>2. CASE xid # ctx.xid /\ ctx.xid # NoXid
        BY <2>1, <2>4, <4>2 DEF Settled, Foreign, DeletedFor, Done, TM!WriterXid,
                                TM!InvalidXid, NoXid
      <4>3. QED
        BY <4>1, <4>2
    <3>3. QED
      BY <2>1, <2>2, <2>5, <2>6, <2>8, <3>1, <3>2 DEF Sees, Visible, Own, Live, Done
  <2>9. QED
    BY <2>7, <2>8
<1>3. QED
  BY <1>1, <1>2

\* Whatever an undo brings back is a settled version, or no row.
LEMMA PastRows ==
    ASSUME IInv, NEW p \in 0 .. Len(ctx.undo_records), NEW k \in RowIds
    PROVE  LET row == Past(data, ctx.undo_records, p)[k]
           IN  row \in Version \cup {NoRow} /\ Settled(row)
<1>1. ctx.undo_records \in Seq(Undo) /\ data[k] \in Version \cup {NoRow}
  BY Fields DEF IInv
<1>2. \A i \in p + 1 .. Len(ctx.undo_records) :
         /\ ctx.undo_records[i].old \in Version \cup {NoRow}
         /\ Settled(ctx.undo_records[i].old)
  <2>1. \A i \in 1 .. Len(ctx.undo_records) : ctx.undo_records[i] \in Undo
    BY <1>1
  <2>2. p + 1 .. Len(ctx.undo_records) \subseteq 1 .. Len(ctx.undo_records)
    OBVIOUS
  <2>3. QED
    BY <2>1, <2>2 DEF Undo, IInv, RowInv
<1>3. \/ Past(data, ctx.undo_records, p)[k] = data[k]
      \/ \E i \in p + 1 .. Len(ctx.undo_records) :
            Past(data, ctx.undo_records, p)[k] = ctx.undo_records[i].old
  BY <1>1, PastAt
<1>4. QED
  BY <1>1, <1>2, <1>3 DEF IInv, RowInv

\* A full undo is one from the first record on.
LEMMA UndoneIsPast ==
    ASSUME TypeOK
    PROVE  Undone(data, ctx.undo_records) = Past(data, ctx.undo_records, 0)
<1>1. ctx.undo_records \in Seq(Undo)
  BY Fields
<1>2. After(ctx.undo_records, 0) = ctx.undo_records
  BY <1>1, SubSeqFull DEF After
<1>3. QED
  BY <1>2 DEF Past

\* What the refinement mapping and the key's uniqueness are about, by live rows.
ShownOf(rows) == [k \in RowIds |-> Shown(rows[k])]

LEMMA ViewIs ==
    ASSUME IInv
    PROVE  View = ShownOf(data)
<1>1. ASSUME NEW k \in RowIds
      PROVE  Sees(data[k], ctx.xid, TM!GetSnapshot) <=> Live(data[k])
  BY SeesLive, Fields DEF IInv, RowInv
<1>2. QED
  BY <1>1 DEF View, ValuesSeen, ShownOf, Shown

LEMMA BaseIs ==
    ASSUME IInv
    PROVE  Base = ShownOf(Past(data, ctx.undo_records, 0))
<1> DEFINE rows == Past(data, ctx.undo_records, 0)
<1>1. ASSUME NEW k \in RowIds
      PROVE  Sees(rows[k], NoXid, TM!GetSnapshot) <=> Live(rows[k])
  <2>1. 0 \in 0 .. Len(ctx.undo_records)
    BY Fields DEF IInv
  <2>2. rows[k] \in Version \cup {NoRow} /\ Settled(rows[k]) /\ Foreign(rows[k])
    BY <2>1, PastRows DEF IInv, RowInv
  <2> HIDE DEF rows
  <2>3. QED
    BY <2>2, SeesLive DEF IInv
<1>2. Base = ValuesSeen(rows, NoXid)
  BY UndoneIsPast DEF Base, IInv
<1>3. QED
  BY <1>1, <1>2 DEF ValuesSeen, ShownOf, Shown

\* The rows as they were at the i-th savepoint.
AtMark(i) == Past(data, ctx.undo_records, ctx.savepoints[i].undo_position)

LEMMA SavepointFields ==
    ASSUME IInv, NEW i \in 1 .. Len(ctx.savepoints)
    PROVE  /\ ctx.savepoints[i].name \in Names
           /\ ctx.savepoints[i].undo_position \in 0 .. Len(ctx.undo_records)
<1>1. ctx.savepoints[i] \in TM!Savepoint /\ Len(ctx.undo_records) \in Nat
  BY Fields DEF IInv
<1>2. ctx.savepoints[i].undo_position <= Len(ctx.undo_records)
  BY DEF IInv, BlockInv
<1>3. QED
  BY <1>1, <1>2 DEF TM!Savepoint

LEMMA MarksAre ==
    ASSUME IInv
    PROVE  Marks = [i \in 1 .. Len(ctx.savepoints) |->
                      [name |-> ctx.savepoints[i].name, view |-> ShownOf(AtMark(i))]]
<1>1. ASSUME NEW i \in 1 .. Len(ctx.savepoints)
      PROVE  ValuesSeen(AtMark(i), ctx.xid) = ShownOf(AtMark(i))
  <2>1. ASSUME NEW k \in RowIds
        PROVE  Sees(AtMark(i)[k], ctx.xid, TM!GetSnapshot) <=> Live(AtMark(i)[k])
    <3>1. AtMark(i)[k] \in Version \cup {NoRow} /\ Settled(AtMark(i)[k])
      BY SavepointFields, PastRows DEF AtMark
    <3>2. QED
      BY <3>1, SeesLive DEF IInv
  <2>2. QED
    BY <2>1 DEF ValuesSeen, ShownOf, Shown
<1>2. QED
  BY <1>1 DEF Marks, AtMark, Past

\* The vacuum horizon, and what is left to freeze in the log: nothing.
LEMMA Horizon ==
    ASSUME TypeOK, XidInv
    PROVE  /\ TM!OldestActiveXid = IF ctx.xid = NoXid THEN next_xid ELSE ctx.xid
           /\ TM!Frozen(clog) = clog
<1>1. TM!OldestActiveXid = IF ctx.xid = NoXid THEN next_xid ELSE ctx.xid
  <2>1. CASE ctx.xid = NoXid
    <3>1. active_xids = {}
      BY <2>1 DEF XidInv
    <3>2. QED
      BY <2>1, <3>1 DEF TM!OldestActiveXid
  <2>2. CASE ctx.xid # NoXid
    <3>1. active_xids = {ctx.xid} /\ ctx.xid \in Int
      BY <2>2, Fields DEF XidInv, NoXid
    <3>2. TM!Oldest({ctx.xid}) = ctx.xid
      BY <3>1 DEF TM!Oldest
    <3>3. QED
      BY <2>2, <3>1, <3>2 DEF TM!OldestActiveXid
  <2>3. QED
    BY <2>1, <2>2
<1>2. ASSUME NEW x \in TM!Xid, x < TM!OldestActiveXid
      PROVE  clog[x] # "IN_PROGRESS"
  <2>1. x \in Nat /\ next_xid \in Nat
    BY Fields
  <2>2. x < next_xid /\ x # ctx.xid
    <3>1. CASE ctx.xid = NoXid
      BY <1>1, <1>2, <2>1, <3>1 DEF NoXid, TM!Xid, TM!FirstNormalXid
    <3>2. CASE ctx.xid # NoXid
      <4>1. ctx.xid = next_xid - 1 /\ x < ctx.xid
        BY <1>1, <1>2, <3>2 DEF XidInv
      <4>2. QED
        BY <2>1, <4>1
    <3>3. QED
      BY <3>1, <3>2
  <2>3. QED
    BY <2>1, <2>2 DEF XidInv
<1>3. QED
  BY <1>1, <1>2, Fields DEF TM!Frozen

-----------------------------------------------------------------------------
(* Types.                                                                  *)

\* What the operators on the SSI books and on the context return.
LEMMA SsiTypes ==
    ASSUME TypeOK, NEW xid \in TM!Xid \cup {NoXid}, NEW rows \in SUBSET RowIds
    PROVE  TM!Sireads(xid, rows) \in [RowIds -> SUBSET TM!Xid]
  BY DEF TypeOK, TM!TypeOK, TM!Sireads, TM!InvalidXid, NoXid

LEMMA ConflictTypes ==
    ASSUME TypeOK, NEW xid \in TM!Xid, NEW rows \in SUBSET RowIds
    PROVE  TM!Conflicts(xid, rows) \in [TM!Xid -> SUBSET TM!Xid]
  BY DEF TypeOK, TM!TypeOK, TM!Conflicts

LEMMA CleanupTypes ==
    ASSUME TypeOK, NEW xid \in TM!Xid, TM!Cleanup(xid)
    PROVE  /\ siread_map' \in [RowIds -> SUBSET TM!Xid]
           /\ in_conflict' \in [TM!Xid -> SUBSET TM!Xid]
  BY DEF TypeOK, TM!TypeOK, TM!Cleanup

LEMMA SnapshotType ==
    ASSUME TypeOK, XidInv
    PROVE  TM!GetSnapshot \in TM!Snapshot
<1>1. TM!OldestActiveXid \in Nat /\ next_xid \in Nat
  BY Horizon, Fields DEF NoXid
<1>2. active_xids \in SUBSET TM!Xid
  BY DEF TypeOK, TM!TypeOK
<1>3. QED
  BY <1>1, <1>2 DEF TM!GetSnapshot, TM!Snapshot

\* The xid a statement writes under, and what assigning it does.
LEMMA WriterTypes ==
    ASSUME TypeOK, XidInv, TM!Assigned
    PROVE  /\ TM!WriterXid \in TM!Xid
           /\ next_xid' \in 3 .. XIDEmergencyStop
           /\ clog' = [clog EXCEPT ![TM!WriterXid] = "IN_PROGRESS"]
           /\ active_xids' = {TM!WriterXid}
           /\ next_xid' = TM!WriterXid + 1
           /\ TM!WriterXid \in {ctx.xid, next_xid}
           /\ ctx.xid # NoXid => TM!WriterXid = ctx.xid
<1>1. CASE ctx.xid = NoXid
  BY <1>1, Fields, Horizon
     DEF TM!Assigned, TM!WriterXid, TM!InvalidXid, NoXid, TM!MayAllocate, XidInv
<1>2. CASE ctx.xid # NoXid
  <2>1. /\ TM!WriterXid = ctx.xid /\ ctx.xid \in TM!Xid
        /\ UNCHANGED <<next_xid, active_xids, clog>>
    BY <1>2, Fields DEF TM!WriterXid, TM!InvalidXid, NoXid, TM!Assigned
  <2>2. clog[ctx.xid] = "IN_PROGRESS"
    BY <2>1 DEF XidInv
  <2>3. clog' = [clog EXCEPT ![ctx.xid] = "IN_PROGRESS"]
    BY <2>1, <2>2, Fields
  <2>4. next_xid = ctx.xid + 1
    BY <1>2, <2>1, Fields DEF XidInv
  <2>5. active_xids' = {ctx.xid}
    BY <1>2, <2>1 DEF XidInv
  <2>6. next_xid' \in 3 .. XIDEmergencyStop
    BY <2>1, Fields
  <2>7. QED
    BY <2>1, <2>3, <2>4, <2>5, <2>6
<1>3. QED
  BY <1>1, <1>2
-----------------------------------------------------------------------------
(* The steps, by what they do to xids, log and rows.                       *)

\* The context alone changes, and keeps its xid and undo records.
ContextStep ==
    /\ UNCHANGED <<next_xid, clog, active_xids, data, row_ids, has_pk>>
    /\ ctx'.xid = ctx.xid /\ ctx'.undo_records = ctx.undo_records
    /\ ctx.xid = NoXid \/ ctx.command_id <= ctx'.command_id

\* The open transaction ends, and keeps its rows or puts the old ones back.
EndStep(verdict) ==
    /\ ctx.xid # NoXid
    /\ clog' = [clog EXCEPT ![ctx.xid] = verdict]
    /\ active_xids' = active_xids \ {ctx.xid}
    /\ ctx'.xid = NoXid /\ ctx'.undo_records = <<>>
    /\ data' = IF verdict = "COMMITTED" THEN data ELSE Past(data, ctx.undo_records, 0)
    /\ UNCHANGED <<next_xid, row_ids, has_pk>>

\* A statement puts a version of its own, or ends a live one.
Rewritten(old, new) ==
    \/ new \in Version /\ new.xmin = TM!WriterXid /\ new.xmax = NoXid
         /\ new.cid = ctx.command_id
    \/ old \in Version /\ Live(old)
         /\ new = [old EXCEPT !.xmax = TM!WriterXid, !.cid = ctx.command_id]

WriteStep ==
    /\ TM!Assigned
    /\ \E recs \in Seq(Undo) :
         /\ ctx'.undo_records = ctx.undo_records \o recs
         /\ \A i \in 1 .. Len(recs) : /\ recs[i].old = data[recs[i].row_id]
                                      /\ recs[i].row_id <= row_ids'
         /\ data' \in [RowIds -> Version \cup {NoRow}]
         /\ \A k \in RowIds :
              \/ data'[k] = data[k]
              \/ /\ \E i \in 1 .. Len(recs) : recs[i].row_id = k
                 /\ Rewritten(data[k], data'[k])
    /\ ctx'.xid = TM!WriterXid /\ ctx'.command_id = ctx.command_id
    /\ row_ids' \in RowIds \cup {row_ids} /\ row_ids <= row_ids'
    /\ UNCHANGED has_pk

\* The rows go back to where the undo list stood at some position.
RewindStep ==
    /\ \E p \in 0 .. Len(ctx.undo_records) : data' = Past(data, ctx.undo_records, p)
    /\ ctx'.xid = ctx.xid /\ ctx'.undo_records = ctx.undo_records
    /\ ctx'.command_id = ctx.command_id
    /\ UNCHANGED <<next_xid, clog, active_xids, row_ids, has_pk>>

\* The rest of the state: the context and the SSI books.
Books ==
    /\ ctx \in TM!TransactionContext
    /\ siread_map \in [RowIds -> SUBSET TM!Xid]
    /\ in_conflict \in [TM!Xid -> SUBSET TM!Xid]
    /\ BlockInv

\* Without an xid there is nothing to undo.
LEMMA NothingToUndo ==
    ASSUME IInv, ctx.xid = NoXid
    PROVE  ctx.undo_records = <<>> /\ Past(data, ctx.undo_records, 0) = data
<1>1. ctx.undo_records = <<>>
  BY DEF IInv, BlockInv
<1>2. ASSUME NEW k \in RowIds
      PROVE  Past(data, <<>>, 0)[k] = data[k]
  <2>1. <<>> \in Seq(Undo) /\ 0 \in 0 .. Len(<<>>)
    OBVIOUS
  <2>2. ~(\E i \in 0 + 1 .. Len(<<>>) : FirstOf(<<>>, 0, k, i))
    BY DEF FirstOf
  <2>3. QED
    BY <2>1, <2>2, PastAt
<1>3. QED
  BY <1>1, <1>2, Fields DEF Past, Undone, IInv

LEMMA ContextType ==
    ASSUME TypeOK
    PROVE  /\ ctx \in TM!TransactionContext
           /\ siread_map \in [RowIds -> SUBSET TM!Xid]
           /\ in_conflict \in [TM!Xid -> SUBSET TM!Xid]
           /\ TM!NoSnapshot \in TM!Snapshot
           /\ <<>> \in Seq(Undo) /\ <<>> \in Seq(TM!Savepoint) /\ 0 \in Nat
  BY DEF TypeOK, TM!TypeOK, TM!NoSnapshot, TM!Snapshot

\* A transaction's end, as COMMIT, ROLLBACK and the end of a statement outside
\* a block share it.
LEMMA EndSteps ==
    ASSUME IInv, NEW verdict \in {"COMMITTED", "ABORTED"}, TM!Finish(verdict),
           ctx' \in TM!TransactionContext, BlockInv',
           ctx'.xid = NoXid, ctx'.undo_records = <<>>,
           data' = IF verdict = "COMMITTED" THEN data
                   ELSE Past(data, ctx.undo_records, 0),
           UNCHANGED <<row_ids, has_pk>>
    PROVE  (ContextStep \/ EndStep(verdict)) /\ Books'
<1>1. CASE ctx.xid = NoXid
  <2>1. UNCHANGED <<clog, active_xids, siread_map, in_conflict, next_xid>>
    BY <1>1 DEF TM!Finish, TM!InvalidXid, NoXid
  <2>2. data' = data /\ ctx.undo_records = <<>>
    BY <1>1, NothingToUndo
  <2>3. QED
    BY <1>1, <2>1, <2>2, ContextType DEF ContextStep, Books, IInv
<1>2. CASE ctx.xid # NoXid
  <2>1. /\ clog' = [clog EXCEPT ![ctx.xid] = verdict]
        /\ active_xids' = active_xids \ {ctx.xid}
        /\ TM!Cleanup(ctx.xid) /\ UNCHANGED next_xid
    BY <1>2 DEF TM!Finish, TM!InvalidXid, NoXid
  <2>2. ctx.xid \in TM!Xid
    BY <1>2, Fields DEF IInv
  <2>3. /\ siread_map' \in [RowIds -> SUBSET TM!Xid]
        /\ in_conflict' \in [TM!Xid -> SUBSET TM!Xid]
    BY <2>1, <2>2, CleanupTypes DEF IInv
  <2>4. QED
    BY <1>2, <2>1, <2>3 DEF EndStep, Books
<1>3. QED
  BY <1>1, <1>2

\* START, BEGIN, SET TRANSACTION and the end of a statement.
LEMMA ControlSteps ==
    ASSUME IInv, Control
    PROVE  /\ \/ ContextStep /\ ctx'.savepoints = ctx.savepoints
              \/ EndStep("COMMITTED") /\ ctx'.savepoints = <<>>
           /\ Books'
<1> USE DEF IInv, Books, BlockInv, NoXid, TM!InvalidXid
<1>1. /\ ctx \in TM!TransactionContext
      /\ siread_map \in [RowIds -> SUBSET TM!Xid]
      /\ in_conflict \in [TM!Xid -> SUBSET TM!Xid]
      /\ TM!NoSnapshot \in TM!Snapshot
      /\ <<>> \in Seq(Undo) /\ <<>> \in Seq(TM!Savepoint)
      /\ ctx.command_id \in Nat /\ MaxCommand \in Nat
  BY ContextType, Fields
<1>2. UNCHANGED <<data, row_ids, has_pk>>
  BY DEF Control
<1> DEFINE quiet == UNCHANGED <<next_xid, clog, active_xids, siread_map, in_conflict>>
<1>0. ASSUME NEW state \in {"STARTED", "BEGIN"}, ctx.block_state = "DEFAULT",
             ctx' = TM!Started(state), quiet
      PROVE  ContextStep /\ Books' /\ ctx'.savepoints = ctx.savepoints
  <2>1. ctx.xid = 0 /\ ctx.undo_records = <<>> /\ ctx.savepoints = <<>>
    BY <1>0
  <2>2. ctx' = [ctx EXCEPT !.xid = 0, !.command_id = 0, !.undo_records = <<>>,
                           !.snapshot = TM!NoSnapshot, !.block_state = state]
    BY <1>0 DEF TM!Started
  <2>3. ctx' \in TM!TransactionContext
    BY <1>1, <2>2 DEF TM!TransactionContext, TM!BlockState
  <2>4. /\ ctx'.xid = 0 /\ ctx'.undo_records = <<>> /\ ctx'.block_state = state
        /\ ctx'.savepoints = <<>> /\ ctx'.command_id = 0
    BY <1>1, <2>1, <2>2 DEF TM!TransactionContext
  <2>5. BlockInv'
    BY <1>1, <2>4
  <2>6. QED
    BY <1>0, <1>1, <1>2, <2>1, <2>3, <2>4, <2>5 DEF ContextStep
<1>3. CASE TM!StartTransactionCommand
  BY <1>0, <1>3 DEF TM!StartTransactionCommand
<1>4. CASE TM!BeginTransactionBlock
  <2>1. CASE ctx.block_state = "DEFAULT"
    BY <1>0, <1>4, <2>1 DEF TM!BeginTransactionBlock
  <2>2. CASE ctx.block_state # "DEFAULT"
    BY <1>1, <1>2, <1>4, <2>2
       DEF TM!BeginTransactionBlock, ContextStep, TM!TransactionContext, TM!BlockState
  <2>3. QED
    BY <2>1, <2>2
<1>5. ASSUME NEW level \in Levels, TM!SetIsolationLevel(level)
      PROVE  ContextStep /\ Books' /\ ctx'.savepoints = ctx.savepoints
  <2>1. level \in TM!Isolation
    BY StoreAssumption DEF StoreAssumption
  <2>2. QED
    BY <1>1, <1>2, <1>5, <2>1
       DEF TM!SetIsolationLevel, ContextStep, TM!TransactionContext
<1>6. CASE ctx.block_state = "STARTED" /\ TM!Committed("DEFAULT")
  <2>1. ctx' = IF ctx.xid = 0
               THEN [ctx EXCEPT !.undo_records = <<>>, !.snapshot = TM!NoSnapshot,
                                !.block_state = "DEFAULT"]
               ELSE TM!Ended("DEFAULT")
    BY <1>6 DEF TM!Committed
  <2>2. ctx' \in TM!TransactionContext
    BY <1>1, <2>1 DEF TM!Ended, TM!TransactionContext, TM!BlockState
  <2>3. /\ ctx'.xid = 0 /\ ctx'.undo_records = <<>> /\ ctx'.block_state = "DEFAULT"
        /\ ctx'.savepoints = <<>> /\ ctx'.command_id \in {0, ctx.command_id}
    BY <1>1, <1>6, <2>1 DEF TM!Ended, TM!TransactionContext
  <2>4. BlockInv'
    BY <1>1, <2>3
  <2>5. TM!Finish("COMMITTED")
    BY <1>6 DEF TM!Committed
  <2>6. ctx.savepoints = <<>>
    BY <1>6
  <2>7. QED
    <3> HIDE DEF IInv, Books, BlockInv
    <3>1. QED
      BY <1>2, <2>2, <2>3, <2>4, <2>5, <2>6, EndSteps
<1>7. CASE ctx.block_state = "BEGIN" /\ ctx' = [ctx EXCEPT !.block_state = "INPROGRESS"]
           /\ UNCHANGED <<next_xid, clog, active_xids, siread_map, in_conflict>>
  BY <1>1, <1>2, <1>7 DEF ContextStep, TM!TransactionContext, TM!BlockState
<1>8. CASE /\ ctx.block_state = "INPROGRESS" /\ ctx.command_id < MaxCommand
           /\ ctx' = [ctx EXCEPT !.command_id = ctx.command_id + 1]
           /\ UNCHANGED <<next_xid, clog, active_xids, siread_map, in_conflict>>
  <2>1. /\ ctx.command_id + 1 \in Nat /\ ctx.command_id + 1 <= MaxCommand
        /\ ctx.command_id <= ctx.command_id + 1
    BY <1>1, <1>8
  <2>2. /\ ctx' \in TM!TransactionContext
        /\ ctx'.command_id = ctx.command_id + 1
        /\ ctx'.xid = ctx.xid /\ ctx'.undo_records = ctx.undo_records
        /\ ctx'.block_state = ctx.block_state /\ ctx'.savepoints = ctx.savepoints
    BY <1>1, <1>8, <2>1 DEF TM!TransactionContext
  <2>3. ContextStep
    BY <1>2, <1>8, <2>1, <2>2 DEF ContextStep
  <2>4. BlockInv'
    BY <1>8, <2>1, <2>2
  <2>5. Books'
    BY <1>1, <1>8, <2>2, <2>4
  <2>6. QED
    BY <2>2, <2>3, <2>5
<1>9. QED
  BY <1>3, <1>4, <1>5, <1>6, <1>7, <1>8 DEF Control, TM!CommitTransactionCommand

LEMMA SelectSteps ==
    ASSUME IInv, Select
    PROVE  ContextStep /\ Books' /\ ctx'.savepoints = ctx.savepoints
<1> USE DEF IInv, TM!InvalidXid, NoXid
<1> DEFINE rows == SeenBy(data, ctx.xid, TM!StatementSnapshot)
<1>1. ctx \in TM!TransactionContext /\ ctx.xid \in TM!Xid \cup {NoXid}
  BY ContextType, Fields
<1>2. TM!StatementSnapshot \in TM!Snapshot
  BY <1>1, SnapshotType
     DEF TM!StatementSnapshot, TM!TransactionSnapshot, TM!TransactionContext
<1>3. siread_map' \in [RowIds -> SUBSET TM!Xid] /\ in_conflict' = in_conflict
  <2>1. rows \in SUBSET RowIds
    BY DEF SeenBy
  <2>2. siread_map' = TM!Sireads(ctx.xid, rows)
    BY DEF Select, TM!Scan
  <2> HIDE DEF rows
  <2>3. QED
    BY <1>1, <2>1, <2>2, SsiTypes DEF Select, TM!Scan
<1>4. ctx' = [ctx EXCEPT !.snapshot = IF TM!PerStatement THEN ctx.snapshot
                                      ELSE TM!StatementSnapshot]
  BY DEF Select, TM!Scan
<1>5. ctx' \in TM!TransactionContext
  BY <1>1, <1>2, <1>4 DEF TM!TransactionContext
<1>6. UNCHANGED <<next_xid, clog, active_xids, data, row_ids, has_pk>>
  BY DEF Select, TM!Scan
<1>7. QED
  BY <1>1, <1>3, <1>4, <1>5, <1>6, ContextType
     DEF ContextStep, Books, BlockInv, TM!TransactionContext

\* What every DML statement does to the context and the SSI books.
LEMMA WriteSteps ==
    ASSUME IInv, Running, NEW recs \in Seq(Undo),
           NEW read \in SUBSET RowIds, NEW written \in SUBSET RowIds,
           TM!Write(recs, read, written)
    PROVE  /\ TM!Assigned /\ Books' /\ ctx'.savepoints = ctx.savepoints
           /\ ctx'.undo_records = ctx.undo_records \o recs
           /\ ctx'.xid = TM!WriterXid /\ ctx'.command_id = ctx.command_id
<1> USE DEF IInv
<1> DEFINE all == ctx.undo_records \o recs
<1>1. /\ ctx \in TM!TransactionContext /\ ctx.undo_records \in Seq(Undo)
      /\ ctx.command_id \in Nat /\ ctx.savepoints \in Seq(TM!Savepoint)
  BY ContextType, Fields
<1>2. TM!Assigned /\ TM!WriterXid \in TM!Xid /\ TM!WriterXid # NoXid
  <2>1. TM!Assigned
    BY DEF TM!Write
  <2>2. TM!WriterXid \in TM!Xid
    BY <2>1, WriterTypes
  <2>3. QED
    BY <2>1, <2>2, Fields DEF NoXid
<1>3. all \in Seq(Undo) /\ Len(ctx.undo_records) \in Nat /\ Len(ctx.undo_records) <= Len(all)
  <2>1. Len(ctx.undo_records) \in Nat /\ Len(recs) \in Nat
    BY <1>1
  <2>2. all \in Seq(Undo) /\ Len(all) = Len(ctx.undo_records) + Len(recs)
    BY <1>1, ConcatProperties
  <2>3. QED
    BY <2>1, <2>2
<1>4. ctx' = [ctx EXCEPT !.xid = TM!WriterXid, !.undo_records = all]
  BY DEF TM!Write
<1> HIDE DEF all
<1>5. ctx' \in TM!TransactionContext
  BY <1>1, <1>2, <1>3, <1>4 DEF TM!TransactionContext
<1>6. /\ ctx'.xid = TM!WriterXid /\ ctx'.undo_records = all
      /\ ctx'.block_state = ctx.block_state /\ ctx'.command_id = ctx.command_id
      /\ ctx'.savepoints = ctx.savepoints
  BY <1>1, <1>4 DEF TM!TransactionContext
<1>7. BlockInv'
  <2>1. ASSUME NEW i \in 1 .. Len(ctx.savepoints)
        PROVE  /\ ctx.savepoints[i].undo_position <= Len(all)
               /\ \A j \in 1 .. i : ctx.savepoints[j].undo_position
                                      <= ctx.savepoints[i].undo_position
    <3>1. ctx.savepoints[i].undo_position \in 0 .. Len(ctx.undo_records)
      BY SavepointFields
    <3>2. Len(all) \in Nat
      BY <1>3
    <3>3. QED
      BY <1>3, <3>1, <3>2 DEF BlockInv
  <2>2. QED
    BY <1>2, <1>6, <2>1 DEF BlockInv, Running
<1>8. /\ siread_map' \in [RowIds -> SUBSET TM!Xid]
      /\ in_conflict' \in [TM!Xid -> SUBSET TM!Xid]
  <2>1. siread_map' = TM!Sireads(TM!WriterXid, read)
        /\ in_conflict' = TM!Conflicts(TM!WriterXid, written)
    BY DEF TM!Write
  <2>2. TypeOK /\ TM!WriterXid \in TM!Xid \cup {NoXid}
    BY <1>2
  <2>3. TM!Sireads(TM!WriterXid, read) \in [RowIds -> SUBSET TM!Xid]
    BY <2>2, SsiTypes
  <2>4. TM!Conflicts(TM!WriterXid, written) \in [TM!Xid -> SUBSET TM!Xid]
    BY <1>2, ConflictTypes
  <2>5. QED
    BY <2>1, <2>3, <2>4
<1>9. QED
  BY <1>2, <1>5, <1>6, <1>7, <1>8 DEF Books, all

\* The version a statement puts.
OwnVersion(v) ==
    [xmin |-> TM!WriterXid, xmax |-> NoXid, cid |-> ctx.command_id, val |-> v]

LEMMA OwnVersionType ==
    ASSUME IInv, TM!Assigned, NEW v \in Values
    PROVE  OwnVersion(v) \in Version
<1>1. TM!WriterXid \in RowXid /\ NoXid \in RowXid
  BY WriterTypes, Fields DEF IInv, RowXid
<1>2. ctx.command_id \in 0 .. MaxCommand
  BY Fields DEF IInv, BlockInv
<1>3. QED
  BY <1>1, <1>2 DEF OwnVersion, Version

LEMMA SeenRows ==
    ASSUME IInv, NEW k \in Seen
    PROVE  k \in RowIds /\ data[k] \in Version /\ Live(data[k])
<1>1. k \in RowIds /\ Sees(data[k], TM!WriterXid, TM!GetSnapshot)
  BY DEF Seen, SeenBy
<1>2. data[k] \in Version \cup {NoRow} /\ Settled(data[k])
  BY <1>1, Fields DEF IInv, RowInv
<1>3. Live(data[k])
  BY <1>1, <1>2, SeesLive DEF IInv
<1>4. QED
  BY <1>1, <1>2, <1>3 DEF Live

\* The undo records of a statement on rows it sees.
LEMMA SavedTypes ==
    ASSUME IInv, NEW rows \in SUBSET Seen
    PROVE  /\ Saved(rows) \in Seq(Undo)
           /\ \A k \in rows : \E i \in 1 .. Len(Saved(rows)) : Saved(rows)[i].row_id = k
           /\ \A i \in 1 .. Len(Saved(rows)) :
                 /\ Saved(rows)[i].old = data[Saved(rows)[i].row_id]
                 /\ Saved(rows)[i].row_id \in rows
                 /\ Saved(rows)[i].row_id <= row_ids
<1>1. rows \in SUBSET RowIds
  BY SeenRows
<1>2. \A k \in rows : data[k] \in Version
  BY SeenRows
<1>3. \A k \in rows : k <= row_ids
  <2>1. \A k \in rows : data[k] # NoRow /\ k \in Int
    BY <1>1, SeenRows, Fields DEF IInv, Live, RowIds
  <2>2. QED
    BY <1>1, <2>1, Fields DEF IInv, RowInv
<1> DEFINE S == [row_id : rows, old : {data[k] : k \in rows}]
<1>4. /\ Saved(rows) \in Seq(S)
      /\ \A k \in rows : \E i \in 1 .. Len(Saved(rows)) : Saved(rows)[i].row_id = k
      /\ \A i \in 1 .. Len(Saved(rows)) :
                 Saved(rows)[i].old = data[Saved(rows)[i].row_id]
  BY <1>1, SavedRecords
<1>5. S \subseteq Undo
  BY <1>1, <1>2 DEF Undo
<1>6. \A i \in 1 .. Len(Saved(rows)) : Saved(rows)[i].row_id \in rows
  <2>1. \A i \in 1 .. Len(Saved(rows)) : Saved(rows)[i] \in S
    <3> HIDE DEF S
    <3>1. QED
      BY <1>4
  <2>2. QED
    BY <2>1
<1>7. Saved(rows) \in Seq(Undo)
  <2> HIDE DEF S
  <2>1. QED
    BY <1>4, <1>5
<1>8. QED
  BY <1>3, <1>4, <1>6, <1>7

LEMMA InsertSteps ==
    ASSUME IInv, NEW v \in Values, Insert(v) \/ InsertRefused(v)
    PROVE  WriteStep /\ Books' /\ ctx'.savepoints = ctx.savepoints
<1> USE DEF IInv
<1> DEFINE k == row_ids + 1
           rec == [row_id |-> k, old |-> NoRow]
<1>1. k \in RowIds /\ row_ids' = k /\ row_ids < k /\ row_ids \in Nat
  BY Fields DEF Insert, InsertRefused
<1>2. /\ data \in [RowIds -> Version \cup {NoRow}] /\ ctx.undo_records \in Seq(Undo)
      /\ data[k] = NoRow
  BY <1>1, Fields DEF RowInv
<1>3. CASE Insert(v)
  <2> DEFINE read == IF has_pk THEN Seen ELSE {}
  <2>1. read \in SUBSET RowIds /\ {} \in SUBSET RowIds /\ <<rec>> \in Seq(Undo)
    BY <1>1, SeenRows DEF Undo
  <2>2. TM!Write(<<rec>>, read, {}) /\ Running
    BY <1>3 DEF Insert
  <2> HIDE DEF read, rec
  <2>3. /\ TM!Assigned /\ Books' /\ ctx'.savepoints = ctx.savepoints
        /\ ctx'.undo_records = ctx.undo_records \o <<rec>>
        /\ ctx'.xid = TM!WriterXid /\ ctx'.command_id = ctx.command_id
    BY <2>1, <2>2, WriteSteps
  <2>4. data' = [data EXCEPT ![k] = OwnVersion(v)] /\ UNCHANGED has_pk
    BY <1>3 DEF Insert, OwnVersion
  <2>5. OwnVersion(v) \in Version
    BY <2>3, OwnVersionType
  <2>6. Rewritten(data[k], OwnVersion(v))
    BY <2>5 DEF Rewritten, OwnVersion
  <2>7. Len(<<rec>>) = 1 /\ <<rec>>[1] = rec /\ rec.row_id = k /\ rec.old = data[k]
    BY <1>2 DEF rec
  <2> HIDE DEF k
  <2>8. /\ data' \in [RowIds -> Version \cup {NoRow}]
        /\ \A j \in RowIds : data'[j] = data[j] \/ (j = k /\ Rewritten(data[j], data'[j]))
    BY <1>1, <1>2, <2>4, <2>5, <2>6
  <2>9. \A i \in 1 .. Len(<<rec>>) : /\ <<rec>>[i].old = data[<<rec>>[i].row_id]
                                     /\ <<rec>>[i].row_id <= row_ids'
    BY <1>1, <2>7 DEF RowIds
  <2>10. \E i \in 1 .. Len(<<rec>>) : <<rec>>[i].row_id = k
    BY <2>7
  <2>11. row_ids' \in RowIds \cup {row_ids} /\ row_ids <= row_ids'
    BY <1>1 DEF RowIds
  <2>12. \A j \in RowIds : \/ data'[j] = data[j]
                           \/ /\ \E i \in 1 .. Len(<<rec>>) : <<rec>>[i].row_id = j
                              /\ Rewritten(data[j], data'[j])
    BY <2>8, <2>10
  <2> DEFINE recs == <<rec>>
  <2> HIDE DEF recs
  <2>13. QED
    BY <2>1, <2>3, <2>4, <2>8, <2>9, <2>11, <2>12 DEF WriteStep, recs
<1>4. CASE InsertRefused(v)
  <2> DEFINE read == {j \in Seen : j < First(Duplicates(v))}
  <2>1. read \in SUBSET RowIds /\ {} \in SUBSET RowIds /\ <<>> \in Seq(Undo)
    BY SeenRows
  <2>2. TM!Write(<<>>, read, {}) /\ Running
    BY <1>4 DEF InsertRefused
  <2> HIDE DEF read
  <2>3. /\ TM!Assigned /\ Books' /\ ctx'.savepoints = ctx.savepoints
        /\ ctx'.undo_records = ctx.undo_records \o <<>>
        /\ ctx'.xid = TM!WriterXid /\ ctx'.command_id = ctx.command_id
    BY <2>1, <2>2, WriteSteps
  <2>4. data' = data /\ UNCHANGED has_pk
    BY <1>4 DEF InsertRefused
  <2>5. row_ids' \in RowIds \cup {row_ids} /\ row_ids <= row_ids'
    BY <1>1 DEF RowIds
  <2>6. Len(<<>>) = 0 /\ \A i \in 1 .. Len(<<>>) : FALSE
    OBVIOUS
  <2>7. QED
    BY <1>2, <2>1, <2>3, <2>4, <2>5, <2>6 DEF WriteStep
<1>5. QED
  BY <1>3, <1>4

LEMMA UpdateSteps ==
    ASSUME IInv, NEW rows \in SUBSET RowIds, NEW v \in Values, Update(rows, v)
    PROVE  WriteStep /\ Books' /\ ctx'.savepoints = ctx.savepoints
<1> USE DEF IInv
<1> DEFINE set == Updated(rows, v)
           met == Reached(rows, v)
           recs == Saved(set)
<1>1. set \in SUBSET Seen /\ met \in SUBSET RowIds /\ {} \in SUBSET RowIds /\ Running
  BY DEF Update, Updated, Reached
<1>2. TM!Write(recs, {}, met)
  BY DEF Update
<1>3. data' = [k \in RowIds |-> IF k \in set THEN OwnVersion(v) ELSE data[k]]
      /\ UNCHANGED <<row_ids, has_pk>>
  BY DEF Update, OwnVersion
<1> HIDE DEF set, met
<1>4. /\ recs \in Seq(Undo)
      /\ \A k \in set : \E i \in 1 .. Len(recs) : recs[i].row_id = k
      /\ \A i \in 1 .. Len(recs) : /\ recs[i].old = data[recs[i].row_id]
                                   /\ recs[i].row_id <= row_ids
  BY <1>1, SavedTypes
<1> HIDE DEF recs
<1>5. /\ TM!Assigned /\ Books' /\ ctx'.savepoints = ctx.savepoints
      /\ ctx'.undo_records = ctx.undo_records \o recs
      /\ ctx'.xid = TM!WriterXid /\ ctx'.command_id = ctx.command_id
  BY <1>1, <1>2, <1>4, WriteSteps
<1>6. OwnVersion(v) \in Version
  BY <1>5, OwnVersionType
<1>7. \A k \in RowIds : Rewritten(data[k], OwnVersion(v))
  BY <1>6 DEF Rewritten, OwnVersion
<1>8. data \in [RowIds -> Version \cup {NoRow}] /\ row_ids \in Nat
  BY Fields
<1>9. /\ data' \in [RowIds -> Version \cup {NoRow}]
      /\ \A k \in RowIds : data'[k] = data[k] \/ (k \in set /\ Rewritten(data[k], data'[k]))
  BY <1>3, <1>6, <1>7, <1>8
<1>10. /\ row_ids' \in RowIds \cup {row_ids} /\ row_ids <= row_ids'
       /\ UNCHANGED has_pk
  BY <1>3, <1>8
<1>11. \A k \in RowIds : \/ data'[k] = data[k]
                         \/ /\ \E i \in 1 .. Len(recs) : recs[i].row_id = k
                            /\ Rewritten(data[k], data'[k])
  BY <1>4, <1>9
<1>12. \A i \in 1 .. Len(recs) : /\ recs[i].old = data[recs[i].row_id]
                                  /\ recs[i].row_id <= row_ids'
  BY <1>3, <1>4
<1> HIDE DEF IInv
<1>13. WriteStep
  BY <1>4, <1>5, <1>9, <1>10, <1>11, <1>12 DEF WriteStep
<1>14. QED
  BY <1>5, <1>13

LEMMA DeleteSteps ==
    ASSUME IInv, NEW rows \in SUBSET RowIds, Delete(rows)
    PROVE  WriteStep /\ Books' /\ ctx'.savepoints = ctx.savepoints
<1> USE DEF IInv
<1> DEFINE recs == Saved(rows)
           Ended(row) == [row EXCEPT !.xmax = TM!WriterXid, !.cid = ctx.command_id]
<1>1. rows \in SUBSET Seen /\ {} \in SUBSET RowIds /\ Running
  BY DEF Delete
<1>2. TM!Write(recs, {}, rows)
  BY DEF Delete
<1>3. data' = [k \in RowIds |-> IF k \in rows THEN Ended(data[k]) ELSE data[k]]
      /\ UNCHANGED <<row_ids, has_pk>>
  BY DEF Delete
<1>4. /\ recs \in Seq(Undo)
      /\ \A k \in rows : \E i \in 1 .. Len(recs) : recs[i].row_id = k
      /\ \A i \in 1 .. Len(recs) : /\ recs[i].old = data[recs[i].row_id]
                                   /\ recs[i].row_id <= row_ids
  BY <1>1, SavedTypes
<1> HIDE DEF recs
<1>5. /\ TM!Assigned /\ Books' /\ ctx'.savepoints = ctx.savepoints
      /\ ctx'.undo_records = ctx.undo_records \o recs
      /\ ctx'.xid = TM!WriterXid /\ ctx'.command_id = ctx.command_id
  BY <1>1, <1>2, <1>4, WriteSteps
<1>6. \A k \in rows : data[k] \in Version /\ Live(data[k])
  BY <1>1, SeenRows
<1>7. ASSUME NEW row \in Version
      PROVE  Ended(row) \in Version
  <2>1. TM!WriterXid \in RowXid /\ ctx.command_id \in 0 .. MaxCommand
    BY <1>5, WriterTypes, Fields DEF RowXid, BlockInv
  <2>2. QED
    BY <2>1 DEF Version
<1>8. data \in [RowIds -> Version \cup {NoRow}] /\ row_ids \in Nat
  BY Fields
<1>9. \A k \in rows : Rewritten(data[k], Ended(data[k]))
  BY <1>6 DEF Rewritten
<1> HIDE DEF Ended
<1>10. /\ data' \in [RowIds -> Version \cup {NoRow}]
       /\ \A k \in RowIds : data'[k] = data[k] \/ (k \in rows /\ Rewritten(data[k], data'[k]))
  BY <1>3, <1>6, <1>7, <1>8, <1>9
<1>11. /\ row_ids' \in RowIds \cup {row_ids} /\ row_ids <= row_ids'
       /\ UNCHANGED has_pk
  BY <1>3, <1>8
<1>12. \A i \in 1 .. Len(recs) : /\ recs[i].old = data[recs[i].row_id]
                                  /\ recs[i].row_id <= row_ids'
  BY <1>3, <1>4
<1>13. \A k \in RowIds : \/ data'[k] = data[k]
                         \/ /\ \E i \in 1 .. Len(recs) : recs[i].row_id = k
                            /\ Rewritten(data[k], data'[k])
  BY <1>4, <1>10
<1> HIDE DEF IInv
<1>14. WriteStep
  BY <1>4, <1>5, <1>10, <1>11, <1>12, <1>13 DEF WriteStep
<1>15. QED
  BY <1>5, <1>14

LEMMA EndOfTransaction ==
    ASSUME IInv, Commit \/ Rollback
    PROVE  /\ ctx'.savepoints = <<>> /\ Books'
           /\ Commit => ContextStep \/ EndStep("COMMITTED")
           /\ Rollback => ContextStep \/ EndStep("ABORTED")
<1> USE DEF IInv
<1>1. /\ ctx'.xid = NoXid /\ ctx'.undo_records = <<>> /\ ctx'.savepoints = <<>>
      /\ ctx'.block_state = "DEFAULT" /\ ctx'.command_id = 0
  BY DEF Commit, Rollback, Reset, TM!IdleContext, TM!InvalidXid, NoXid
<1>2. ctx' \in TM!TransactionContext
  <2>1. ctx.isolation \in TM!Isolation
    BY Fields
  <2>2. QED
    BY <2>1, ContextType
       DEF Commit, Rollback, Reset, TM!IdleContext, TM!TransactionContext, TM!BlockState,
           TM!InvalidXid
<1>3. BlockInv'
  BY <1>1, Fields DEF BlockInv
<1>4. Undone(data, ctx.undo_records) = Past(data, ctx.undo_records, 0)
  BY UndoneIsPast
<1> HIDE DEF IInv
<1>5. Commit => (ContextStep \/ EndStep("COMMITTED")) /\ Books'
  BY <1>1, <1>2, <1>3, EndSteps DEF Commit
<1>6. Rollback => (ContextStep \/ EndStep("ABORTED")) /\ Books'
  BY <1>1, <1>2, <1>3, <1>4, EndSteps DEF Rollback
<1>7. QED
  BY <1>1, <1>5, <1>6

LEMMA SavepointSteps ==
    ASSUME IInv, NEW n \in Names, SetSavepoint(n)
    PROVE  /\ ContextStep /\ Books'
           /\ ctx'.savepoints = Append(ctx.savepoints,
                [name |-> n, undo_position |-> Len(ctx.undo_records)])
<1> USE DEF IInv
<1> DEFINE mark == [name |-> n, undo_position |-> Len(ctx.undo_records)]
           marks == Append(ctx.savepoints, mark)
<1>1. /\ ctx \in TM!TransactionContext /\ ctx.savepoints \in Seq(TM!Savepoint)
      /\ ctx.command_id \in Nat
  BY ContextType, Fields
<1>2. Len(ctx.undo_records) \in Nat
  BY Fields
<1>3. mark \in TM!Savepoint /\ mark.undo_position = Len(ctx.undo_records)
  BY <1>2 DEF TM!Savepoint
<1> HIDE DEF mark
<1>4. /\ marks \in Seq(TM!Savepoint) /\ Len(marks) = Len(ctx.savepoints) + 1
      /\ \A i \in 1 .. Len(ctx.savepoints) : marks[i] = ctx.savepoints[i]
      /\ marks[Len(ctx.savepoints) + 1] = mark
      /\ Len(ctx.savepoints) \in Nat
  BY <1>1, <1>3, AppendProperties
<1>5. ctx' = [ctx EXCEPT !.savepoints = marks]
  BY DEF SetSavepoint, TM!CreateSavepoint, mark
<1> HIDE DEF marks
<1>6. ctx' \in TM!TransactionContext
  BY <1>1, <1>4, <1>5 DEF TM!TransactionContext
<1>7. /\ ctx'.xid = ctx.xid /\ ctx'.undo_records = ctx.undo_records
      /\ ctx'.block_state = ctx.block_state /\ ctx'.command_id = ctx.command_id
      /\ ctx'.savepoints = marks
  BY <1>1, <1>5 DEF TM!TransactionContext
<1>8. BlockInv'
  <2>1. \A i \in 1 .. Len(ctx.savepoints) :
           ctx.savepoints[i].undo_position \in 0 .. Len(ctx.undo_records)
    BY SavepointFields
  <2>2. ASSUME NEW i \in 1 .. Len(marks)
        PROVE  /\ marks[i].undo_position <= Len(ctx.undo_records)
               /\ \A j \in 1 .. i : marks[j].undo_position <= marks[i].undo_position
    <3>1. CASE i = Len(ctx.savepoints) + 1
      <4>1. \A j \in 1 .. i : marks[j].undo_position <= Len(ctx.undo_records)
        BY <1>2, <1>3, <1>4, <2>1, <3>1
      <4>2. QED
        BY <1>2, <1>3, <1>4, <3>1, <4>1
    <3>2. CASE i # Len(ctx.savepoints) + 1
      <4>1. i \in 1 .. Len(ctx.savepoints) /\ 1 .. i \subseteq 1 .. Len(ctx.savepoints)
        BY <1>4, <3>2
      <4>2. QED
        BY <1>4, <4>1 DEF BlockInv
    <3>3. QED
      BY <3>1, <3>2
  <2>3. ctx.block_state \notin {"DEFAULT", "STARTED"}
    BY DEF SetSavepoint
  <2>4. QED
    BY <1>7, <2>2, <2>3 DEF BlockInv
<1>9. UNCHANGED <<next_xid, clog, active_xids, siread_map, in_conflict, data, row_ids,
                  has_pk>>
  BY DEF SetSavepoint, TM!CreateSavepoint
<1>10. QED
  BY <1>1, <1>6, <1>7, <1>8, <1>9, ContextType DEF ContextStep, Books, marks, mark

\* ROLLBACK TO and RELEASE drop the savepoint and the later ones.
LEMMA PopSteps ==
    ASSUME IInv, NEW n \in Names, NEW i \in 1 .. MaxSavepoints, TM!IsLatest(n, i),
           RollbackTo(i) \/ Release(i)
    PROVE  /\ i \in 1 .. Len(ctx.savepoints)
           /\ Books' /\ ctx'.savepoints = SubSeq(ctx.savepoints, 1, i - 1)
           /\ ctx'.xid = ctx.xid /\ ctx'.undo_records = ctx.undo_records
           /\ Release(i) => ContextStep
           /\ RollbackTo(i) => RewindStep /\ data' = AtMark(i)
<1> USE DEF IInv
<1> DEFINE rest == SubSeq(ctx.savepoints, 1, i - 1)
<1>1. /\ ctx \in TM!TransactionContext /\ ctx.savepoints \in Seq(TM!Savepoint)
      /\ ctx.command_id \in Nat
  BY ContextType, Fields
<1>2. i \in 1 .. Len(ctx.savepoints) /\ Len(ctx.savepoints) \in Nat
  BY <1>1 DEF TM!IsLatest
<1>3. rest \in Seq(TM!Savepoint)
  BY <1>1, <1>2, SubSeqProperties
<1>4. Len(rest) = i - 1 /\ \A j \in 1 .. i - 1 : rest[j] = ctx.savepoints[j]
  <2>1. \A j \in 1 .. Len(ctx.savepoints) : ctx.savepoints[j] \in TM!Savepoint
    BY <1>1
  <2>2. \A j \in 1 .. i - 1 : ctx.savepoints[j] \in TM!Savepoint
    BY <1>2, <2>1
  <2>3. QED
    BY <1>2, <2>2, SubSeqProperties
<1>5. ctx' = [ctx EXCEPT !.savepoints = rest]
  BY DEF RollbackTo, Release, TM!PopSavepoint
<1> HIDE DEF rest
<1>6. ctx' \in TM!TransactionContext
  BY <1>1, <1>3, <1>5 DEF TM!TransactionContext
<1>7. /\ ctx'.xid = ctx.xid /\ ctx'.undo_records = ctx.undo_records
      /\ ctx'.block_state = ctx.block_state /\ ctx'.command_id = ctx.command_id
      /\ ctx'.savepoints = rest
  BY <1>1, <1>5 DEF TM!TransactionContext
<1>8. BlockInv'
  <2>1. \A j \in 1 .. Len(rest) : j \in 1 .. Len(ctx.savepoints) /\ 1 .. j \subseteq 1 .. Len(rest)
    BY <1>2, <1>4
  <2>2. ASSUME NEW j \in 1 .. Len(rest)
        PROVE  /\ rest[j].undo_position <= Len(ctx.undo_records)
               /\ \A h \in 1 .. j : rest[h].undo_position <= rest[j].undo_position
    BY <1>4, <2>1 DEF BlockInv
  <2>3. ctx.block_state \notin {"DEFAULT", "STARTED"}
    BY <1>2 DEF BlockInv
  <2>4. QED
    BY <1>7, <2>2, <2>3 DEF BlockInv
<1>9. UNCHANGED <<next_xid, clog, active_xids, siread_map, in_conflict, row_ids, has_pk>>
  BY DEF RollbackTo, Release, TM!PopSavepoint
<1>10. Books'
  BY <1>6, <1>8, <1>9, ContextType DEF Books
<1>11. Release(i) => ContextStep
  BY <1>1, <1>7, <1>9 DEF Release, ContextStep
<1>12. RollbackTo(i) => RewindStep /\ data' = AtMark(i)
  <2>1. ctx.savepoints[i].undo_position \in 0 .. Len(ctx.undo_records)
    BY <1>2, SavepointFields
  <2>2. Len(ctx.undo_records) \in Nat
    BY Fields
  <2>3. Len(ctx.undo_records) - TM!ToUndo(i) = ctx.savepoints[i].undo_position
    BY <2>1, <2>2 DEF TM!ToUndo
  <2>4. RollbackTo(i) => data' = AtMark(i)
    BY <2>3 DEF RollbackTo, AtMark, Past
  <2>5. QED
    BY <1>7, <1>9, <2>1, <2>4 DEF RewindStep, AtMark
<1>13. QED
  BY <1>2, <1>7, <1>10, <1>11, <1>12 DEF rest

-----------------------------------------------------------------------------
(* The invariant, by kind of step.                                         *)

LEMMA RowTypes ==
    ASSUME IInv
    PROVE  /\ \A k \in RowIds : data[k] \in Version \cup {NoRow} /\ Settled(data[k])
           /\ \A i \in 1 .. Len(ctx.undo_records) :
                /\ ctx.undo_records[i].row_id \in RowIds
                /\ ctx.undo_records[i].old \in Version \cup {NoRow}
                /\ Settled(ctx.undo_records[i].old)
<1>1. ctx.undo_records \in Seq(Undo) /\ data \in [RowIds -> Version \cup {NoRow}]
  BY Fields DEF IInv
<1>2. \A i \in 1 .. Len(ctx.undo_records) : ctx.undo_records[i] \in Undo
  BY <1>1
<1>3. QED
  BY <1>1, <1>2 DEF Undo, IInv, RowInv

\* No undo brings a row into being whose rowid has not been handed out.
LEMMA PastUnborn ==
    ASSUME IInv, NEW p \in 0 .. Len(ctx.undo_records), NEW k \in RowIds, k > row_ids
    PROVE  Past(data, ctx.undo_records, p)[k] = NoRow
<1>1. ctx.undo_records \in Seq(Undo) /\ row_ids \in Int /\ k \in Int
  BY Fields DEF IInv, RowIds
<1>2. ASSUME NEW i \in 1 .. Len(ctx.undo_records)
      PROVE  ctx.undo_records[i].row_id # k
  <2>1. ctx.undo_records[i].row_id \in Int
    BY RowTypes DEF RowIds
  <2>2. QED
    BY <1>1, <2>1 DEF IInv, RowInv
<1>3. \A i \in p + 1 .. Len(ctx.undo_records) : ~FirstOf(ctx.undo_records, p, k, i)
  BY <1>2 DEF FirstOf
<1>4. Past(data, ctx.undo_records, p)[k] = data[k]
  BY <1>1, <1>3, PastAt
<1>5. QED
  BY <1>4 DEF IInv, RowInv

LEMMA ContextStepKeeps ==
    ASSUME IInv, ContextStep, Books'
    PROVE  IInv'
<1> USE DEF IInv, ContextStep, Books
<1>1. TypeOK'
  BY DEF TypeOK, TM!TypeOK
<1>2. XidInv'
  BY DEF XidInv
<1>3. ASSUME NEW row \in Version \cup {NoRow}, Settled(row)
      PROVE  Settled(row)'
  <2>1. row # NoRow /\ row.xmin = ctx.xid =>
          ctx.xid # NoXid /\ row.cid <= ctx.command_id /\ row.cid \in Nat
    BY <1>3, VersionFields DEF Settled
  <2>2. ctx.command_id \in Nat /\ ctx'.command_id \in Nat
    BY Fields DEF TM!TransactionContext
  <2>3. row # NoRow /\ row.xmin = ctx.xid => row.cid <= ctx'.command_id
    BY <2>1, <2>2
  <2>4. QED
    BY <1>3, <2>3 DEF Settled, Done
<1>4. RowInv'
  <2>1. \A k \in RowIds : Settled(data[k])'
    BY <1>3, RowTypes
  <2>2. \A i \in 1 .. Len(ctx.undo_records) : Settled(ctx.undo_records[i].old)'
    BY <1>3, RowTypes
  <2>3. \A k \in RowIds : Foreign(Past(data, ctx.undo_records, 0)[k])'
    <3>1. Past(data, ctx.undo_records, 0)' = Past(data, ctx.undo_records, 0)
      BY DEF Past, Undone, After
    <3>2. \A k \in RowIds : Foreign(Past(data, ctx.undo_records, 0)[k])
      BY DEF RowInv
    <3>3. QED
      BY <3>1, <3>2 DEF Foreign
  <2>4. QED
    BY <2>1, <2>2, <2>3 DEF RowInv
<1>5. QED
  BY <1>1, <1>2, <1>4

LEMMA EndStepKeeps ==
    ASSUME IInv, NEW verdict \in {"COMMITTED", "ABORTED"}, EndStep(verdict), Books'
    PROVE  IInv'
<1>1. /\ ctx.xid \in TM!Xid /\ ctx.xid # NoXid /\ active_xids = {ctx.xid}
      /\ ctx.xid = next_xid - 1 /\ next_xid \in Nat
      /\ clog \in [TM!Xid -> TM!Status] /\ data \in [RowIds -> Version \cup {NoRow}]
  BY Fields DEF IInv, EndStep, XidInv
<1>2. /\ clog' = [clog EXCEPT ![ctx.xid] = verdict] /\ active_xids' = {}
      /\ ctx'.xid = NoXid /\ ctx'.undo_records = <<>>
      /\ UNCHANGED <<next_xid, row_ids, has_pk>>
  BY <1>1 DEF EndStep
<1>3. XidInv'
  <2>1. ASSUME NEW x \in TM!Xid
        PROVE  clog'[x] = "IN_PROGRESS" <=> x >= next_xid
    <3>1. CASE x = ctx.xid
      BY <1>1, <1>2, <3>1
    <3>2. CASE x # ctx.xid
      BY <1>1, <1>2, <3>2 DEF IInv, XidInv
    <3>3. QED
      BY <3>1, <3>2
  <2>2. \A x \in TM!Xid : x # NoXid
    BY DEF TM!Xid, TM!FirstNormalXid, NoXid
  <2>3. QED
    BY <1>2, <2>1, <2>2 DEF XidInv
<1>4. ASSUME NEW row \in Version \cup {NoRow}, Settled(row),
             verdict = "COMMITTED" \/ Foreign(row)
      PROVE  Settled(row)'
  <2>1. SUFFICES ASSUME row # NoRow
                 PROVE  Settled(row)'
    BY DEF Settled
  <2> DEFINE DoneNext(x) == StatusIn(clog', x) = "COMMITTED"
  <2>2. \A x \in RowXid : Done(x) => DoneNext(x)
    <3>1. ASSUME NEW x \in RowXid, Done(x)
          PROVE  DoneNext(x)
      <4>1. x \in TM!Xid /\ clog[x] = "COMMITTED"
        BY <1>1, <3>1 DEF Done, StatusIn
      <4>2. x # ctx.xid
        BY <4>1 DEF IInv, XidInv
      <4>3. clog'[x] = "COMMITTED" /\ x \in DOMAIN clog'
        BY <1>1, <1>2, <4>1, <4>2
      <4>4. QED
        BY <4>1, <4>3 DEF StatusIn
    <3>2. QED
      BY <3>1
  <2>3. verdict = "COMMITTED" => DoneNext(ctx.xid)
    <3>1. clog'[ctx.xid] = verdict /\ ctx.xid \in DOMAIN clog'
      BY <1>1, <1>2
    <3>2. QED
      BY <3>1 DEF StatusIn
  <2> HIDE DEF DoneNext
  <2>4. row.xmin \in RowXid /\ row.xmax \in RowXid /\ row.xmin # NoXid
    BY <1>4, <2>1, VersionFields DEF Settled
  <2>5. row.xmin = FrozenRow \/ DoneNext(row.xmin)
    BY <1>1, <1>4, <2>1, <2>2, <2>3, <2>4 DEF Settled, Foreign
  <2>6. row.xmax = NoXid \/ DoneNext(row.xmax)
    BY <1>1, <1>4, <2>1, <2>2, <2>3, <2>4 DEF Settled, Foreign
  <2>7. QED
    BY <1>2, <2>4, <2>5, <2>6 DEF Settled, Done, DoneNext
<1>5. ASSUME NEW k \in RowIds
      PROVE  /\ data'[k] \in Version \cup {NoRow} /\ Settled(data[k])'
             /\ k > row_ids => data'[k] = NoRow
  <2>1. 0 \in 0 .. Len(ctx.undo_records) /\ ctx.undo_records \in Seq(Undo)
    BY Fields DEF IInv
  <2>2. CASE verdict = "COMMITTED"
    <3>1. data'[k] = data[k]
      BY <2>2 DEF EndStep
    <3>2. data[k] \in Version \cup {NoRow} /\ Settled(data[k])
      BY RowTypes
    <3>3. QED
      BY <1>4, <2>2, <3>1, <3>2 DEF IInv, RowInv
  <2>3. CASE verdict # "COMMITTED"
    <3> DEFINE row == Past(data, ctx.undo_records, 0)[k]
    <3>1. data'[k] = row
      BY <2>3 DEF EndStep
    <3>2. row \in Version \cup {NoRow} /\ Settled(row)
      BY <2>1, PastRows
    <3>3. Foreign(row)
      BY DEF IInv, RowInv
    <3>4. k > row_ids => row = NoRow
      BY <2>1, PastUnborn
    <3> HIDE DEF row
    <3>5. QED
      BY <1>4, <3>1, <3>2, <3>3, <3>4
  <2>4. QED
    BY <2>2, <2>3
<1>6. RowInv'
  BY <1>2, <1>5 DEF RowInv, Foreign
<1>7. TypeOK'
  <2>1. data' \in [RowIds -> Version \cup {NoRow}]
    <3>1. CASE verdict = "COMMITTED"
      BY <1>1, <3>1 DEF EndStep
    <3>2. CASE verdict # "COMMITTED"
      <4>1. data' = [k \in RowIds |-> data'[k]]
        BY <3>2, PastFunction DEF EndStep
      <4>2. QED
        BY <1>5, <4>1
    <3>3. QED
      BY <3>1, <3>2
  <2>2. clog' \in [TM!Xid -> TM!Status]
    BY <1>1, <1>2 DEF TM!Status
  <2>3. QED
    BY <1>2, <2>1, <2>2 DEF IInv, TypeOK, TM!TypeOK, Books
<1>8. QED
  BY <1>3, <1>6, <1>7 DEF IInv, Books

\* What a write does to the settled rows: they stay settled, and those that
\* are none of the transaction's doing stay so under the xid it may get.
LEMMA WriteKeepsRows ==
    ASSUME IInv, WriteStep, NEW row \in Version \cup {NoRow}, Settled(row)
    PROVE  /\ Settled(row)'
           /\ Foreign(row) => Foreign(row)'
           /\ row # NoRow => row.xmin \in {FrozenRow, ctx'.xid} \/ Done(row.xmin)'
           /\ ctx.xid = NoXid /\ row # NoRow => row.xmin # ctx'.xid
<1>1. SUFFICES ASSUME row # NoRow
               PROVE  /\ Settled(row)'
                      /\ Foreign(row) => Foreign(row)'
                      /\ row.xmin \in {FrozenRow, ctx'.xid} \/ Done(row.xmin)'
                      /\ ctx.xid = NoXid => row.xmin # ctx'.xid
  BY DEF Settled, Foreign
<1> DEFINE w == TM!WriterXid
<1>2. /\ w \in TM!Xid /\ w # NoXid /\ w # FrozenRow
      /\ clog \in [TM!Xid -> TM!Status] /\ clog' = [clog EXCEPT ![w] = "IN_PROGRESS"]
      /\ ctx'.xid = w /\ ctx'.command_id = ctx.command_id
      /\ ctx.xid # NoXid => w = ctx.xid
      /\ ctx.xid = NoXid => w = next_xid
  <2>1. TypeOK /\ XidInv /\ TM!Assigned
    BY DEF IInv, WriteStep
  <2>2. /\ w \in TM!Xid /\ clog' = [clog EXCEPT ![w] = "IN_PROGRESS"]
        /\ ctx.xid # NoXid => w = ctx.xid
    BY <2>1, WriterTypes, Zenon
  <2>3. ctx'.xid = w /\ ctx'.command_id = ctx.command_id
    BY DEF WriteStep
  <2>4. ctx.xid = NoXid => w = next_xid
    BY DEF TM!WriterXid, TM!InvalidXid, NoXid
  <2>5. TM!Xid = 3 .. XIDEmergencyStop - 1 /\ XIDEmergencyStop \in Nat
        /\ clog \in [TM!Xid -> TM!Status]
    BY <2>1, Fields, Zenon
  <2>6. w # NoXid /\ w # FrozenRow
    <3> HIDE DEF w
    <3>1. QED
      BY <2>2, <2>5 DEF NoXid, FrozenRow
  <2>7. QED
    BY <2>2, <2>3, <2>4, <2>5, <2>6
<1>3. clog[w] = "IN_PROGRESS"
  <2>1. w = ctx.xid \/ (w = next_xid /\ next_xid >= next_xid)
    BY <1>2, Fields DEF IInv
  <2>2. QED
    BY <1>2, <2>1 DEF IInv, XidInv
<1> HIDE DEF w
<1>4. ~Done(w)
  BY <1>2, <1>3 DEF Done, StatusIn
<1> DEFINE DoneNext(x) == StatusIn(clog', x) = "COMMITTED"
<1>5. \A x \in RowXid : Done(x) => DoneNext(x)
  BY <1>2, <1>4 DEF Done, StatusIn
<1> HIDE DEF DoneNext
<1>6. row.xmin \in RowXid /\ row.xmax \in RowXid
  BY <1>1, VersionFields
<1>7. /\ row.xmin # NoXid
      /\ row.xmin \in {FrozenRow, w} \/ DoneNext(row.xmin)
      /\ row.xmax \in {NoXid, w} \/ DoneNext(row.xmax)
  BY <1>1, <1>2, <1>5, <1>6 DEF Settled
<1>8. ctx.xid = NoXid => row.xmin # w /\ row.xmax # w
  BY <1>1, <1>2, <1>4 DEF Settled
<1>9. row.xmin = w => row.xmax \in {NoXid, w} /\ row.cid <= ctx.command_id
  BY <1>1, <1>2, <1>8 DEF Settled
<1>10. Settled(row)'
  BY <1>2, <1>7, <1>9 DEF Settled, Done, DoneNext
<1>11. Foreign(row) => Foreign(row)'
  BY <1>1, <1>2, <1>8 DEF Foreign
<1>12. QED
  BY <1>2, <1>7, <1>8, <1>10, <1>11 DEF Done, DoneNext

LEMMA WriteStepKeeps ==
    ASSUME IInv, WriteStep, Books'
    PROVE  IInv'
<1> DEFINE w == TM!WriterXid
<1>1. PICK recs \in Seq(Undo) :
        /\ ctx'.undo_records = ctx.undo_records \o recs
        /\ \A i \in 1 .. Len(recs) : /\ recs[i].old = data[recs[i].row_id]
                                     /\ recs[i].row_id <= row_ids'
        /\ data' \in [RowIds -> Version \cup {NoRow}]
        /\ \A k \in RowIds :
             \/ data'[k] = data[k]
             \/ /\ \E i \in 1 .. Len(recs) : recs[i].row_id = k
                /\ Rewritten(data[k], data'[k])
  BY DEF WriteStep
<1>2. /\ w \in TM!Xid /\ next_xid' \in 3 .. XIDEmergencyStop /\ active_xids' = {w}
      /\ clog' = [clog EXCEPT ![w] = "IN_PROGRESS"] /\ next_xid' = w + 1
      /\ w \in {ctx.xid, next_xid} /\ (ctx.xid # NoXid => w = ctx.xid)
  BY WriterTypes DEF WriteStep, IInv
<1>3. /\ ctx'.xid = w /\ ctx'.command_id = ctx.command_id
      /\ row_ids' \in RowIds \cup {row_ids} /\ row_ids <= row_ids' /\ has_pk' = has_pk
  BY DEF WriteStep
<1> HIDE DEF w
<1>4. w \in Nat /\ w # NoXid /\ w # FrozenRow /\ clog \in [TM!Xid -> TM!Status]
      /\ next_xid \in Nat
  <2>1. /\ TM!Xid = 3 .. XIDEmergencyStop - 1 /\ XIDEmergencyStop \in Nat
        /\ clog \in [TM!Xid -> TM!Status] /\ next_xid \in Nat
    BY Fields, Zenon DEF IInv
  <2>2. QED
    BY <1>2, <2>1 DEF NoXid, FrozenRow
<1>5. XidInv'
  <2>1. ASSUME NEW x \in TM!Xid
        PROVE  clog'[x] = "IN_PROGRESS" <=> x >= next_xid' \/ x = w
    <3>1. x \in Nat
      BY Fields DEF IInv
    <3>2. CASE x = w
      BY <1>2, <1>4, <3>2
    <3>3. CASE x # w
      <4>1. clog'[x] = clog[x]
        BY <1>2, <1>4, <3>3
      <4>2. clog[x] = "IN_PROGRESS" <=> x >= next_xid \/ x = ctx.xid
        BY DEF IInv, XidInv
      <4>3. CASE ctx.xid = NoXid
        BY <1>2, <1>4, <3>1, <3>3, <4>1, <4>2, <4>3 DEF NoXid, TM!Xid, TM!FirstNormalXid
      <4>4. CASE ctx.xid # NoXid
        <5>1. ctx.xid = w /\ next_xid = w + 1
          BY <1>2, <1>4, <4>4 DEF IInv, XidInv
        <5>2. QED
          BY <1>2, <3>3, <4>1, <4>2, <5>1
      <4>5. QED
        BY <4>3, <4>4
    <3>4. QED
      BY <3>2, <3>3
  <2>2. ctx'.xid = next_xid' - 1 /\ active_xids' = {ctx'.xid} \ {NoXid}
    BY <1>2, <1>3, <1>4
  <2>3. QED
    BY <1>3, <2>1, <2>2 DEF XidInv
\* The rows that are settled, and not the transaction's doing, afterwards.
<1> DEFINE settled == {row \in Version \cup {NoRow} : Settled(row)'}
           foreign == {row \in Version \cup {NoRow} : Foreign(row)'}
<1>6. ASSUME NEW row \in Version \cup {NoRow}, Settled(row)
      PROVE  /\ row \in settled
             /\ Foreign(row) => row \in foreign
             /\ row # NoRow => row.xmin \in {FrozenRow, w} \/ Done(row.xmin)'
  BY <1>3, <1>6, WriteKeepsRows
<1>7. ASSUME NEW k \in RowIds
      PROVE  data'[k] \in settled /\ (k > row_ids' => data'[k] = NoRow)
  <2>1. data[k] \in Version \cup {NoRow} /\ Settled(data[k])
    BY RowTypes
  <2>2. CASE data'[k] = data[k]
    <3>1. (data[k] = NoRow \/ k <= row_ids) /\ row_ids \in Int /\ row_ids' \in Int /\ k \in Int
      BY <1>3, Fields DEF IInv, RowInv, RowIds
    <3>2. k > row_ids' => data'[k] = NoRow
      BY <1>3, <2>2, <3>1
    <3>3. QED
      BY <1>6, <2>1, <2>2, <3>2
  <2>3. CASE data'[k] # data[k]
    <3>1. PICK i \in 1 .. Len(recs) : recs[i].row_id = k
      BY <1>1, <2>3
    <3>2. k <= row_ids' /\ k \in Int /\ row_ids' \in Int
      <4>1. k <= row_ids'
        BY <1>1, <3>1
      <4>2. row_ids \in Int
        BY Fields DEF IInv
      <4>3. QED
        BY <1>3, <4>1, <4>2 DEF RowIds
    <3>3. Rewritten(data[k], data'[k])
      BY <1>1, <2>3
    <3>4. data'[k] \in settled
      <4>0. data'[k] \in Version \cup {NoRow}
        BY <1>1
      <4>1. ctx.command_id <= ctx.command_id /\ ctx.command_id \in Nat
        BY Fields DEF IInv
      <4>2. ASSUME NEW new \in Version \cup {NoRow}, new.xmin = w, new.xmax = NoXid, new.cid = ctx.command_id
            PROVE  new \in settled
        BY <1>3, <1>4, <4>1, <4>2 DEF Settled
      <4>3. CASE data'[k].xmin = w /\ data'[k].xmax = NoXid /\ data'[k].cid = ctx.command_id
        BY <4>0, <4>2, <4>3
      <4>4. CASE data[k] \in Version
                 /\ data'[k] = [data[k] EXCEPT !.xmax = w, !.cid = ctx.command_id]
        <5>1. data[k] # NoRow
          BY <4>4, VersionFields
        <5>2. data'[k].xmin = data[k].xmin /\ data'[k].xmax = w
              /\ data'[k].cid = ctx.command_id
          BY <4>4 DEF Version
        <5>3. PICK old \in Version \cup {NoRow} : old = data[k]
          BY <2>1
        <5>4. /\ old.xmin # NoXid
              /\ old.xmin \in {FrozenRow, w} \/ Done(old.xmin)'
          BY <1>6, <2>1, <5>1, <5>3 DEF Settled
        <5>5. ASSUME NEW new \in Version \cup {NoRow}, new.xmin = old.xmin,
                     new.xmax = w, new.cid = ctx.command_id
              PROVE  new \in settled
          BY <1>3, <4>1, <5>4, <5>5 DEF Settled
        <5>6. QED
          BY <4>0, <5>2, <5>3, <5>5
      <4>5. QED
        BY <3>3, <4>3, <4>4 DEF Rewritten, w
    <3>5. QED
      BY <3>2, <3>4
  <2>4. QED
    BY <2>2, <2>3
<1> DEFINE undo == ctx.undo_records
           undoNext == undo \o recs
<1>8. /\ undo \in Seq(Undo) /\ undoNext \in Seq(Undo) /\ Len(undo) \in Nat
      /\ Len(recs) \in Nat /\ Len(undoNext) = Len(undo) + Len(recs)
      /\ \A i \in 1 .. Len(undo) : undoNext[i] = undo[i]
      /\ \A i \in 1 .. Len(recs) : undoNext[Len(undo) + i] = recs[i]
      /\ \A i \in 1 .. Len(recs) : recs[i] \in Undo
  <2>1. undo \in Seq(Undo)
    BY Fields DEF IInv
  <2>2. QED
    BY <2>1, ConcatProperties
<1> HIDE DEF undoNext
<1>9. ASSUME NEW i \in 1 .. Len(undoNext)
      PROVE  undoNext[i].old \in settled /\ undoNext[i].row_id <= row_ids'
  <2>1. CASE i \in 1 .. Len(undo)
    <3>1. /\ undo[i].old \in Version \cup {NoRow} /\ Settled(undo[i].old)
          /\ undo[i].row_id \in RowIds
      BY <2>1, RowTypes
    <3>2. undo[i].old \in settled
      BY <1>6, <3>1
    <3>3. undo[i].row_id <= row_ids /\ undo[i].row_id \in Int /\ row_ids \in Int
          /\ row_ids' \in Int
      BY <1>3, <2>1, <3>1, Fields DEF IInv, RowInv, RowIds
    <3>4. undoNext[i] = undo[i]
      BY <1>8, <2>1
    <3>5. QED
      BY <1>3, <3>2, <3>3, <3>4
  <2>2. CASE i \notin 1 .. Len(undo)
    <3>1. PICK j \in 1 .. Len(recs) : undoNext[i] = recs[j]
      <4>1. i - Len(undo) \in 1 .. Len(recs)
        BY <1>8, <2>2
      <4>2. undoNext[Len(undo) + (i - Len(undo))] = recs[i - Len(undo)]
        BY <1>8, <4>1
      <4>3. Len(undo) + (i - Len(undo)) = i
        BY <1>8
      <4>4. QED
        BY <4>1, <4>2, <4>3
    <3>2. recs[j].old = data[recs[j].row_id] /\ recs[j].row_id \in RowIds
          /\ recs[j].row_id <= row_ids'
      BY <1>1, <1>8 DEF Undo
    <3>3. recs[j].old \in Version \cup {NoRow} /\ Settled(recs[j].old)
      BY <3>2, RowTypes
    <3>4. QED
      BY <1>6, <3>1, <3>2, <3>3
  <2>3. QED
    BY <2>1, <2>2
<1>10. ASSUME NEW k \in RowIds
       PROVE  Past(data', undoNext, 0)[k] \in foreign
  <2>1. 0 \in 0 .. Len(undo) /\ 0 \in 0 .. Len(ctx.undo_records)
    BY <1>8
  <2>2. Past(data', undoNext, 0) = Past(data, undo, 0)
    <3>1. undo \in Seq(Undo) /\ recs \in Seq(Undo) /\ 0 \in 0 .. Len(undo)
      BY <1>8, <2>1
    <3>2. PICK new : new = data'
      OBVIOUS
    <3>3. Restores(recs, data, new)
      BY <1>1, <3>2 DEF Restores
    <3> HIDE DEF undo
    <3>4. Past(new, undo \o recs, 0) = Past(data, undo, 0)
      BY <3>1, <3>3, PastOfMore
    <3>5. QED
      BY <3>2, <3>4 DEF undoNext
  <2>3. LET row == Past(data, undo, 0)[k]
        IN  row \in Version \cup {NoRow} /\ Settled(row) /\ Foreign(row)
    BY <2>1, PastRows DEF IInv, RowInv
  <2>4. QED
    BY <1>6, <2>2, <2>3
<1>11. RowInv'
  <2>1. ctx'.undo_records = undoNext
    BY <1>1 DEF undoNext
  <2>2. \A k \in RowIds : Settled(data[k])' /\ (k > row_ids' => data'[k] = NoRow)
    BY <1>7
  <2>3. \A i \in 1 .. Len(ctx'.undo_records) :
           Settled(ctx.undo_records[i].old)' /\ ctx'.undo_records[i].row_id <= row_ids'
    BY <1>9, <2>1
  <2>4. \A k \in RowIds : Foreign(Past(data, ctx.undo_records, 0)[k])'
    BY <1>10, <2>1
  <2>5. QED
    BY <2>2, <2>3, <2>4 DEF RowInv
<1>12. TypeOK'
  <2>1. next_xid' \in TM!FirstNormalXid .. XIDEmergencyStop
    BY <1>2 DEF TM!FirstNormalXid
  <2>2. clog' \in [TM!Xid -> TM!Status] /\ active_xids' \in SUBSET TM!Xid
    BY <1>2, <1>4 DEF TM!Status
  <2>3. row_ids' \in {0} \cup RowIds /\ has_pk' \in Keyed
    BY <1>3 DEF IInv, TypeOK
  <2>4. QED
    BY <1>1, <2>1, <2>2, <2>3 DEF TypeOK, TM!TypeOK, Books
<1>13. QED
  BY <1>5, <1>11, <1>12 DEF IInv, Books

LEMMA RewindStepKeeps ==
    ASSUME IInv, RewindStep, Books'
    PROVE  IInv'
<1>1. PICK p \in 0 .. Len(ctx.undo_records) : data' = Past(data, ctx.undo_records, p)
  BY DEF RewindStep
<1>2. /\ ctx'.xid = ctx.xid /\ ctx'.undo_records = ctx.undo_records
      /\ ctx'.command_id = ctx.command_id
      /\ UNCHANGED <<next_xid, clog, active_xids, row_ids, has_pk>>
  BY DEF RewindStep
<1>3. ctx.undo_records \in Seq(Undo) /\ 0 \in 0 .. Len(ctx.undo_records)
      /\ p \in 0 .. Len(ctx.undo_records)
  BY Fields DEF IInv
<1>4. XidInv'
  BY <1>2 DEF IInv, XidInv
<1>5. ASSUME NEW row, Settled(row)
      PROVE  Settled(row)'
  BY <1>2, <1>5 DEF Settled, Done
<1>6. ASSUME NEW row, Foreign(row)
      PROVE  Foreign(row)'
  BY <1>2, <1>6 DEF Foreign
<1>7. ASSUME NEW k \in RowIds
      PROVE  /\ data'[k] \in Version \cup {NoRow} /\ Settled(data[k])'
             /\ k > row_ids => data'[k] = NoRow
  <2>1. PICK row : row = Past(data, ctx.undo_records, p)[k]
    OBVIOUS
  <2>2. row \in Version \cup {NoRow} /\ Settled(row) /\ (k > row_ids => row = NoRow)
    BY <2>1, PastRows, PastUnborn
  <2>3. Settled(row)' /\ data'[k] = row
    BY <1>1, <1>5, <2>1, <2>2
  <2>4. QED
    BY <2>2, <2>3
<1>8. \A i \in 1 .. Len(ctx.undo_records) : Settled(ctx.undo_records[i].old)'
  BY <1>2, <1>5, RowTypes
<1>9. ASSUME NEW k \in RowIds
      PROVE  Foreign(Past(data, ctx.undo_records, 0)[k])'
  <2>1. Past(Past(data, ctx.undo_records, p), ctx.undo_records, 0)
          = Past(data, ctx.undo_records, 0)
    BY <1>3, PastOfPast
  <2>2. PICK row : row = Past(data, ctx.undo_records, 0)[k]
    OBVIOUS
  <2>3. Foreign(row)'
    BY <1>6, <2>2 DEF IInv, RowInv
  <2>4. Past(data', ctx'.undo_records, 0)[k] = row
    BY <1>1, <1>2, <2>1, <2>2
  <2>5. QED
    BY <2>3, <2>4
<1>10. RowInv'
  <2>1. \A k \in RowIds : Settled(data[k])' /\ (k > row_ids' => data'[k] = NoRow)
    BY <1>2, <1>7
  <2>2. \A i \in 1 .. Len(ctx'.undo_records) :
          Settled(ctx.undo_records[i].old)' /\ ctx'.undo_records[i].row_id <= row_ids'
    BY <1>2, <1>8 DEF IInv, RowInv
  <2>3. QED
    BY <1>9, <2>1, <2>2 DEF RowInv
<1>11. TypeOK'
  <2>1. data' = [k \in RowIds |-> data'[k]]
    BY <1>1, PastFunction
  <2>2. data' \in [RowIds -> Version \cup {NoRow}]
    BY <1>7, <2>1
  <2>3. QED
    BY <1>2, <2>2 DEF IInv, TypeOK, TM!TypeOK, Books
<1>12. QED
  BY <1>4, <1>10, <1>11 DEF IInv, Books

\* What vacuum makes of a row: nothing of one nobody can see, and of the
\* others a version that is as good.
LEMMA VacuumedRow ==
    ASSUME TypeOK, XidInv, NEW row \in Version \cup {NoRow}, Settled(row)
    PROVE  /\ Vacuumed(row) \in Version \cup {NoRow}
           /\ Settled(Vacuumed(row))
           /\ Foreign(row) => Foreign(Vacuumed(row))
           /\ Shown(Vacuumed(row)) = Shown(row)
           /\ row = NoRow => Vacuumed(row) = NoRow
<1>1. CASE Vacuumed(row) = row
  BY <1>1
<1>2. CASE Vacuumed(row) # row
  <2>1. row # NoRow /\ row \in Version /\ ~Skipped(row)
    BY <1>2 DEF Vacuumed
  <2>2. row.xmin \in RowXid /\ row.xmax \in RowXid
    BY <2>1, VersionFields
  <2>3. row.xmin = FrozenRow \/ row.xmin = ctx.xid \/ Done(row.xmin)
    BY <2>1 DEF Settled
  <2>4. StatusIn(clog, row.xmin) # "ABORTED"
    <3>1. StatusIn(clog, FrozenRow) # "ABORTED"
      BY Fields DEF StatusIn, FrozenRow
    <3>2. row.xmin = ctx.xid => StatusIn(clog, row.xmin) # "ABORTED"
      <4>1. row.xmin = ctx.xid => ctx.xid \in TM!Xid
        BY <2>1, Fields DEF Settled
      <4>2. QED
        BY <4>1 DEF XidInv, StatusIn
    <3>3. QED
      BY <2>3, <3>1, <3>2 DEF Done
  <2>5. CASE Vacuumed(row) = NoRow
    <3>0. [row EXCEPT !.xmin = FrozenRow] # NoRow
      <4>1. FrozenRow \in RowXid
        BY DEF RowXid
      <4>2. [row EXCEPT !.xmin = FrozenRow] \in Version
        BY <2>1, <4>1 DEF Version
      <4>3. QED
        BY <4>2, VersionFields
    <3>1. Erasable(row)
      BY <2>1, <2>5, <3>0 DEF Vacuumed
    <3>2. row.xmax # NoXid
      BY <2>1, <2>4, <3>1 DEF Erasable
    <3>3. QED
      BY <2>1, <2>5, <3>2 DEF Settled, Foreign, Shown, Live
  <2>6. CASE Vacuumed(row) # NoRow
    <3>1. Vacuumed(row) = [row EXCEPT !.xmin = FrozenRow]
      BY <1>2, <2>1, <2>6 DEF Vacuumed
    <3>2. PICK new : new = [row EXCEPT !.xmin = FrozenRow]
      OBVIOUS
    <3>3. /\ new \in Version /\ new # NoRow /\ new.xmin = FrozenRow /\ new.xmax = row.xmax
          /\ new.val = row.val
      <4>1. FrozenRow \in RowXid
        BY DEF RowXid
      <4>2. new \in Version
        BY <2>1, <3>2, <4>1 DEF Version
      <4>3. QED
        BY <2>1, <3>2, <4>2, VersionFields DEF Version
    <3>4. FrozenRow # NoXid /\ FrozenRow # ctx.xid
      BY Fields DEF FrozenRow, NoXid
    <3>5. Settled(new)
      BY <2>1, <3>3, <3>4 DEF Settled
    <3>6. Foreign(row) => Foreign(new)
      BY <2>1, <3>3, <3>4 DEF Foreign
    <3>7. Shown(new) = Shown(row)
      BY <2>1, <3>3 DEF Shown, Live
    <3>8. QED
      BY <2>1, <3>1, <3>2, <3>3, <3>5, <3>6, <3>7
  <2>7. QED
    BY <2>5, <2>6
<1>3. QED
  BY <1>1, <1>2

\* Vacuum works on what an undo would bring back as on the table itself.
LEMMA VacuumedPast ==
    ASSUME IInv, Vacuum, NEW p \in 0 .. Len(ctx.undo_records), NEW k \in RowIds
    PROVE  LET row == Past(data, ctx.undo_records, p)[k]
           IN  Past(data', ctx.undo_records, p)[k] \in {row, Vacuumed(row)}
<1>1. ctx.undo_records \in Seq(Undo)
  BY Fields DEF IInv
<1>2. PICK new : new = data'
  OBVIOUS
<1>3. new[k] = Vacuumed(data[k])
  BY <1>2 DEF Vacuum
<1>4. CASE Untouched(ctx.undo_records, p, k)
  <2>1. \A i \in p + 1 .. Len(ctx.undo_records) : ~FirstOf(ctx.undo_records, p, k, i)
    BY <1>4 DEF Untouched, FirstOf
  <2>2. Past(data, ctx.undo_records, p)[k] = data[k]
        /\ Past(new, ctx.undo_records, p)[k] = new[k]
    BY <1>1, <2>1, PastAt
  <2>3. QED
    BY <1>2, <1>3, <2>2
<1>5. CASE ~Untouched(ctx.undo_records, p, k)
  <2>1. PICK i \in p + 1 .. Len(ctx.undo_records) :
           FirstOf(ctx.undo_records, p, k, i)
             /\ Past(data, ctx.undo_records, p)[k] = ctx.undo_records[i].old
    BY <1>1, <1>5, PastAt
  <2>2. PICK j \in p + 1 .. Len(ctx.undo_records) :
           FirstOf(ctx.undo_records, p, k, j)
             /\ Past(new, ctx.undo_records, p)[k] = ctx.undo_records[j].old
    BY <1>1, <1>5, PastAt
  <2>3. i = j
    <3>1. ~(i < j) /\ ~(j < i)
      BY <2>1, <2>2 DEF FirstOf
    <3>2. QED
      BY <3>1
  <2>4. QED
    BY <1>2, <2>1, <2>2, <2>3
<1>6. QED
  BY <1>4, <1>5

LEMMA VacuumKeeps ==
    ASSUME IInv, Vacuum
    PROVE  IInv'
<1> USE DEF IInv
<1>1. clog' = clog
  BY Horizon DEF Vacuum
<1>2. UNCHANGED <<next_xid, active_xids, ctx, siread_map, in_conflict, row_ids, has_pk>>
      /\ data' = [k \in RowIds |-> Vacuumed(data[k])]
  BY DEF Vacuum
<1>3. XidInv' /\ BlockInv'
  BY <1>1, <1>2 DEF XidInv, BlockInv
<1> HIDE DEF IInv
<1>4. ASSUME NEW row, Settled(row)
      PROVE  Settled(row)'
  BY <1>1, <1>2, <1>4 DEF Settled, Done
<1>5. ASSUME NEW row, Foreign(row)
      PROVE  Foreign(row)'
  BY <1>2, <1>5 DEF Foreign
<1>6. ASSUME NEW k \in RowIds
      PROVE  /\ data'[k] \in Version \cup {NoRow} /\ Settled(data[k])'
             /\ k > row_ids => data'[k] = NoRow
  <2>1. PICK row : row = Vacuumed(data[k])
    OBVIOUS
  <2>2. /\ row \in Version \cup {NoRow} /\ Settled(row)
        /\ k > row_ids => row = NoRow
    BY <2>1, RowTypes, VacuumedRow DEF IInv, RowInv
  <2>3. Settled(row)' /\ data'[k] = row
    BY <1>2, <1>4, <2>1, <2>2
  <2>4. QED
    BY <2>2, <2>3
<1>7. \A i \in 1 .. Len(ctx.undo_records) : Settled(ctx.undo_records[i].old)'
  BY <1>2, <1>4, RowTypes
<1>8. ASSUME NEW k \in RowIds
      PROVE  Foreign(Past(data, ctx.undo_records, 0)[k])'
  <2>1. 0 \in 0 .. Len(ctx.undo_records)
    BY Fields DEF IInv
  <2>2. PICK row : row = Past(data, ctx.undo_records, 0)[k]
    OBVIOUS
  <2>3. row \in Version \cup {NoRow} /\ Settled(row) /\ Foreign(row)
    BY <2>1, <2>2, PastRows DEF IInv, RowInv
  <2>4. PICK new : new = Past(data', ctx.undo_records, 0)[k]
    OBVIOUS
  <2>5. new \in {row, Vacuumed(row)}
    BY <2>1, <2>2, <2>4, VacuumedPast
  <2>6. Foreign(new)
    BY <2>3, <2>5, VacuumedRow DEF IInv
  <2>7. Foreign(new)' /\ Past(data', ctx'.undo_records, 0)[k] = new
    BY <1>2, <1>5, <2>4, <2>6
  <2>8. QED
    BY <2>7
<1>9. RowInv'
  <2>1. \A k \in RowIds : Settled(data[k])' /\ (k > row_ids' => data'[k] = NoRow)
    BY <1>2, <1>6
  <2>2. \A i \in 1 .. Len(ctx'.undo_records) :
          Settled(ctx.undo_records[i].old)' /\ ctx'.undo_records[i].row_id <= row_ids'
    BY <1>2, <1>7 DEF IInv, RowInv
  <2>3. QED
    BY <1>8, <2>1, <2>2 DEF RowInv
<1>10. TypeOK'
  <2>1. data' \in [RowIds -> Version \cup {NoRow}]
    BY <1>2, <1>6
  <2>2. QED
    BY <1>1, <1>2, <2>1 DEF IInv, TypeOK, TM!TypeOK
<1>11. QED
  BY <1>3, <1>9, <1>10 DEF IInv

\* Every step keeps the invariant.
LEMMA NextKeeps ==
    ASSUME IInv, Next
    PROVE  IInv'
<1>1. CASE Control
  BY <1>1, ControlSteps, ContextStepKeeps, EndStepKeeps
<1>2. CASE Select
  BY <1>2, SelectSteps, ContextStepKeeps
<1>3. ASSUME NEW v \in Values, Insert(v) \/ InsertRefused(v)
      PROVE  IInv'
  BY <1>3, InsertSteps, WriteStepKeeps
<1>4. ASSUME NEW rows \in Matched, NEW v \in Values, Update(rows, v)
      PROVE  IInv'
  BY <1>4, UpdateSteps, WriteStepKeeps DEF Matched
<1>5. ASSUME NEW rows \in Matched, Delete(rows)
      PROVE  IInv'
  BY <1>5, DeleteSteps, WriteStepKeeps DEF Matched
<1>6. CASE Commit \/ Rollback
  BY <1>6, EndOfTransaction, ContextStepKeeps, EndStepKeeps
<1>7. ASSUME NEW n \in Names, SetSavepoint(n)
      PROVE  IInv'
  BY <1>7, SavepointSteps, ContextStepKeeps
<1>8. ASSUME NEW n \in Names, NEW i \in 1 .. MaxSavepoints, TM!IsLatest(n, i),
             RollbackTo(i) \/ Release(i)
      PROVE  IInv'
  BY <1>8, PopSteps, ContextStepKeeps, RewindStepKeeps
<1>9. CASE Vacuum
  BY <1>9, VacuumKeeps
<1>10. QED
  BY <1>1, <1>2, <1>3, <1>4, <1>5, <1>6, <1>7, <1>8, <1>9 DEF Next

\* A table starts empty, with no transaction.
LEMMA InitHolds ==
    ASSUME Init
    PROVE  IInv
<1> USE DEF Init, TM!Init
<1>1. /\ XIDEmergencyStop \in Nat /\ XIDEmergencyStop > 3 /\ MaxCommand \in Nat
      /\ MaxRowId \in Nat
  BY StoreAssumption DEF StoreAssumption
<1>2. ctx = TM!IdleContext /\ ctx.xid = NoXid /\ ctx.undo_records = <<>>
      /\ ctx.savepoints = <<>> /\ ctx.command_id = 0 /\ ctx.block_state = "DEFAULT"
  BY DEF TM!IdleContext, TM!InvalidXid, NoXid
<1>3. TypeOK
  <2>1. TM!NoSnapshot \in TM!Snapshot /\ <<>> \in Seq(Undo) /\ <<>> \in Seq(TM!Savepoint)
    BY DEF TM!NoSnapshot, TM!Snapshot
  <2>2. ctx \in TM!TransactionContext
    BY <2>1 DEF TM!IdleContext, TM!TransactionContext, TM!InvalidXid, TM!BlockState,
                TM!Isolation
  <2>3. next_xid \in TM!FirstNormalXid .. XIDEmergencyStop
    BY <1>1 DEF TM!FirstNormalXid
  <2>4. QED
    BY <2>2, <2>3 DEF TypeOK, TM!TypeOK, TM!Status
<1>4. XidInv
  <2>1. \A x \in TM!Xid : x >= next_xid
    BY DEF TM!Xid, TM!FirstNormalXid
  <2>2. QED
    BY <1>2, <2>1 DEF XidInv
<1>5. BlockInv
  BY <1>1, <1>2 DEF BlockInv
<1>6. RowInv
  <2>1. \A k \in RowIds : Settled(data[k])
    BY DEF Settled
  <2>2. \A k \in RowIds : Foreign(Past(data, ctx.undo_records, 0)[k])
    BY <1>2 DEF Foreign
  <2>3. QED
    BY <1>2, <2>1, <2>2 DEF RowInv
<1>7. QED
  BY <1>3, <1>4, <1>5, <1>6 DEF IInv

-----------------------------------------------------------------------------
(* The theorems.                                                           *)

\* The invariant holds throughout.
THEOREM Inductive == Spec => []IInv
<1>1. Init => IInv
  BY InitHolds
<1>2. IInv /\ [Next]_vars => IInv'
  <2> SUFFICES ASSUME IInv, [Next]_vars
               PROVE  IInv'
    OBVIOUS
  <2>1. CASE UNCHANGED vars
    <3>1. UNCHANGED <<next_xid, clog, active_xids, ctx, siread_map, in_conflict, data,
                      row_ids, has_pk>>
      BY <2>1 DEF vars, tmVars
    <3>2. ctx.command_id <= ctx.command_id
      BY Fields DEF IInv
    <3>3. ContextStep /\ Books'
      BY <3>1, <3>2, ContextType DEF ContextStep, Books, IInv, BlockInv
    <3>4. QED
      BY <3>3, ContextStepKeeps
  <2>2. CASE Next
    BY <2>2, NextKeeps
  <2>3. QED
    BY <2>1, <2>2
<1>3. QED
  BY <1>1, <1>2, PTL DEF Spec

\* Every variable keeps its type: row versions carry no xid at or past the
\* emergency stop, and rowids do not run past the last one.
THEOREM TypeCorrect == Spec => []TypeOK
BY Inductive, PTL DEF IInv

\* No row waits for a transaction that has ended without a verdict, or that was
\* rolled back: apply_undo leaves none of its versions.
THEOREM NoTraceLeft == Spec => []NoTrace
<1>1. IInv => NoTrace
  <2> SUFFICES ASSUME IInv, NEW k \in RowIds, data[k] # NoRow
               PROVE  /\ data[k].xmin \in {FrozenRow, ctx.xid}
                           \/ StatusIn(clog, data[k].xmin) = "COMMITTED"
                      /\ data[k].xmax \in {NoXid, ctx.xid}
                           \/ StatusIn(clog, data[k].xmax) = "COMMITTED"
    BY DEF NoTrace
  <2>1. Settled(data[k])
    BY RowTypes
  <2>2. QED
    BY <2>1 DEF Settled, Done
<1>2. QED
  BY <1>1, Inductive, PTL

-----------------------------------------------------------------------------
(* The refinement mapping.                                                 *)

\* The rows at a savepoint, and at all of them.
Mark(rows, recs, saved) ==
    [name |-> saved.name, view |-> ShownOf(Past(rows, recs, saved.undo_position))]
MarksOf(rows, recs, saves) ==
    [i \in 1 .. Len(saves) |-> Mark(rows, recs, saves[i])]

Mapped ==
    /\ View = ShownOf(data)
    /\ Base = ShownOf(Past(data, ctx.undo_records, 0))
    /\ Marks = MarksOf(data, ctx.undo_records, ctx.savepoints)

LEMMA Mapping == IInv => Mapped
<1> SUFFICES ASSUME IInv
             PROVE  Mapped
  OBVIOUS
<1>1. Marks = MarksOf(data, ctx.undo_records, ctx.savepoints)
  BY MarksAre DEF MarksOf, Mark, AtMark
<1>2. QED
  BY <1>1, ViewIs, BaseIs DEF Mapped

LEMMA MappingNext == IInv' => Mapped'
  BY Mapping, PTL

\* In the terms of both states.
LEMMA MappedState ==
    ASSUME IInv, IInv'
    PROVE  /\ View = ShownOf(data) /\ View' = ShownOf(data')
           /\ Base = ShownOf(Past(data, ctx.undo_records, 0))
           /\ Base' = ShownOf(Past(data', ctx'.undo_records, 0))
           /\ Marks = MarksOf(data, ctx.undo_records, ctx.savepoints)
           /\ Marks' = MarksOf(data', ctx'.undo_records, ctx'.savepoints)
           /\ ctx.savepoints \in Seq(TM!Savepoint) /\ ctx.undo_records \in Seq(Undo)
           /\ Len(ctx.savepoints) \in Nat /\ Len(ctx.undo_records) \in Nat
           /\ data \in [RowIds -> Version \cup {NoRow}]
<1>1. Mapped /\ Mapped'
  BY Mapping, MappingNext
<1>2. ctx.savepoints \in Seq(TM!Savepoint) /\ ctx.undo_records \in Seq(Undo)
      /\ data \in [RowIds -> Version \cup {NoRow}]
  BY Fields DEF IInv
<1>3. QED
  BY <1>1, <1>2 DEF Mapped

\* Savepoints whose rows show the same are the same to the session.
LEMMA SameMarks ==
    ASSUME NEW rows, NEW recs, NEW new, NEW all, NEW saves,
           \A i \in 1 .. Len(saves) :
              ShownOf(Past(new, all, saves[i].undo_position))
                = ShownOf(Past(rows, recs, saves[i].undo_position))
    PROVE  MarksOf(new, all, saves) = MarksOf(rows, recs, saves)
  BY DEF MarksOf, Mark

\* Undoing nothing leaves the rows as they are.
LEMMA PastOfNone ==
    ASSUME NEW S, NEW recs \in Seq(S), NEW T, NEW rows \in [RowIds -> T]
    PROVE  Past(rows, recs, Len(recs)) = rows
<1>1. Len(recs) \in 0 .. Len(recs)
  OBVIOUS
<1>2. ASSUME NEW k \in RowIds
      PROVE  Past(rows, recs, Len(recs))[k] = rows[k]
  <2>1. ~(\E i \in Len(recs) + 1 .. Len(recs) : FirstOf(recs, Len(recs), k, i))
    BY DEF FirstOf
  <2>2. QED
    BY <1>1, <2>1, PastAt
<1>3. QED
  BY <1>2, PastFunction

-----------------------------------------------------------------------------
(* The steps.                                                              *)

\* Neither the rows nor the undo list change: nothing does for the session.
LEMMA ContextRefines ==
    ASSUME IInv, IInv', ContextStep
    PROVE  UNCHANGED <<Base, View>>
           /\ (ctx'.savepoints = ctx.savepoints => UNCHANGED Marks)
  BY MappedState DEF ContextStep

\* An end that had no xid to end: there was nothing to commit or to undo.
LEMMA EmptyEnd ==
    ASSUME IInv, IInv', ContextStep, ctx.xid = NoXid, ctx'.savepoints = <<>>
    PROVE  Rows!Commit /\ Rows!Rollback
<1>1. Past(data, ctx.undo_records, 0) = data
  BY NothingToUndo
<1>2. UNCHANGED <<Base, View>> /\ Base = View
  BY <1>1, ContextRefines, MappedState
<1>3. Marks' = <<>>
  BY MappedState DEF MarksOf
<1>4. QED
  BY <1>2, <1>3 DEF Rows!Commit, Rows!Rollback

\* The end of a transaction that has an xid.
LEMMA EndRefines ==
    ASSUME IInv, IInv', ctx'.savepoints = <<>>
    PROVE  /\ EndStep("COMMITTED") => Rows!Commit
           /\ EndStep("ABORTED") => Rows!Rollback
<1>1. Marks' = <<>>
  BY MappedState DEF MarksOf
<1>2. ASSUME NEW verdict, EndStep(verdict)
      PROVE  Base' = View'
  <2>1. ctx'.undo_records = <<>> /\ Len(<<>>) = 0 /\ <<>> \in Seq(Undo)
    BY <1>2 DEF EndStep
  <2>2. data' \in [RowIds -> Version \cup {NoRow}]
    <3>1. TypeOK'
      BY DEF IInv
    <3>2. QED
      BY <3>1 DEF TypeOK
  <2>3. PICK new \in [RowIds -> Version \cup {NoRow}] : new = data'
    BY <2>2
  <2>4. Past(new, <<>>, Len(<<>>)) = new
    BY <2>1, PastOfNone
  <2>5. QED
    BY <2>1, <2>3, <2>4, MappedState
<1>3. EndStep("COMMITTED") => Rows!Commit
  <2>1. EndStep("COMMITTED") => View' = View
    BY MappedState DEF EndStep
  <2>2. QED
    BY <1>1, <1>2, <2>1 DEF Rows!Commit
<1>4. EndStep("ABORTED") => Rows!Rollback
  <2>1. EndStep("ABORTED") => View' = Base
    BY MappedState DEF EndStep
  <2>2. QED
    BY <1>1, <1>2, <2>1 DEF Rows!Rollback
<1>5. QED
  BY <1>3, <1>4

\* A statement leaves every row an undo would bring back as it was.
LEMMA WriteKeepsPast ==
    ASSUME IInv, WriteStep, NEW p \in 0 .. Len(ctx.undo_records)
    PROVE  Past(data', ctx'.undo_records, p) = Past(data, ctx.undo_records, p)
<1>1. PICK recs \in Seq(Undo) :
        /\ ctx'.undo_records = ctx.undo_records \o recs
        /\ \A i \in 1 .. Len(recs) : recs[i].old = data[recs[i].row_id]
        /\ \A k \in RowIds : data'[k] = data[k]
                               \/ \E i \in 1 .. Len(recs) : recs[i].row_id = k
  BY DEF WriteStep
<1>2. ctx.undo_records \in Seq(Undo)
  BY Fields DEF IInv
<1>3. PICK new : new = data'
  OBVIOUS
<1>4. Restores(recs, data, new)
  BY <1>1, <1>3 DEF Restores
<1>5. Past(new, ctx.undo_records \o recs, p) = Past(data, ctx.undo_records, p)
  BY <1>2, <1>4, PastOfMore
<1>6. QED
  BY <1>1, <1>3, <1>5

LEMMA WriteRefines ==
    ASSUME IInv, IInv', WriteStep, ctx'.savepoints = ctx.savepoints
    PROVE  UNCHANGED <<Base, Marks>>
<1>1. Past(data', ctx'.undo_records, 0) = Past(data, ctx.undo_records, 0)
  <2>1. 0 \in 0 .. Len(ctx.undo_records)
    BY MappedState
  <2>2. QED
    BY <2>1, WriteKeepsPast
<1>2. MarksOf(data', ctx'.undo_records, ctx.savepoints)
        = MarksOf(data, ctx.undo_records, ctx.savepoints)
  <2>1. \A i \in 1 .. Len(ctx.savepoints) :
           ctx.savepoints[i].undo_position \in 0 .. Len(ctx.undo_records)
    BY SavepointFields
  <2>2. \A i \in 1 .. Len(ctx.savepoints) :
           ShownOf(Past(data', ctx'.undo_records, ctx.savepoints[i].undo_position))
             = ShownOf(Past(data, ctx.undo_records, ctx.savepoints[i].undo_position))
    BY <2>1, WriteKeepsPast
  <2>3. QED
    BY <2>2, SameMarks
<1>3. QED
  BY <1>1, <1>2, MappedState

\* What the session sees are contents of rows, or none.
LEMMA ViewType ==
    ASSUME NEW rows, \A k \in RowIds : rows[k] \in Version \cup {NoRow}
    PROVE  ShownOf(rows) \in [RowIds -> Values \cup {NoValue}]
<1>1. \A k \in RowIds : Shown(rows[k]) \in Values \cup {NoValue}
  BY VersionFields DEF Shown, Live
<1>2. QED
  BY <1>1 DEF ShownOf

LEMMA ViewTypeNext ==
    ASSUME IInv, IInv', WriteStep
    PROVE  View' \in [RowIds -> Values \cup {NoValue}]
<1>1. \A k \in RowIds : data'[k] \in Version \cup {NoRow}
  BY DEF WriteStep
<1>2. ShownOf(data') \in [RowIds -> Values \cup {NoValue}]
  BY <1>1, ViewType
<1>3. QED
  BY <1>2, MappedState

\* A new version is live, and shows its content.
LEMMA OwnVersionShown ==
    ASSUME IInv, TM!Assigned, NEW v \in Values
    PROVE  Shown(OwnVersion(v)) = v
<1>1. OwnVersion(v) # NoRow
  BY OwnVersionType, VersionFields
<1>2. QED
  BY <1>1 DEF Shown, Live, OwnVersion

LEMMA DeleteRefines ==
    ASSUME IInv, IInv', NEW rows \in SUBSET RowIds, Delete(rows)
    PROVE  Rows!Statement /\ Rows!Deleted(View, View')
<1>1. WriteStep /\ UNCHANGED <<Base, Marks>>
  BY DeleteSteps, WriteRefines
<1>2. ASSUME NEW k \in RowIds
      PROVE  Shown(data'[k]) \in {Shown(data[k]), NoValue}
  <2>1. CASE k \notin rows
    BY <2>1 DEF Delete
  <2>2. CASE k \in rows
    <3>1. data'[k] = [data[k] EXCEPT !.xmax = TM!WriterXid, !.cid = ctx.command_id]
      BY <2>2 DEF Delete
    <3>2. data[k] \in Version
      BY <2>2, SeenRows DEF Delete
    <3>3. data'[k].xmax = TM!WriterXid
      BY <3>1, <3>2 DEF Version
    <3>4. TM!WriterXid # NoXid
      BY <1>1, WriterTypes, Fields DEF WriteStep, IInv, NoXid
    <3>5. QED
      BY <3>3, <3>4 DEF Shown, Live
  <2>3. QED
    BY <2>1, <2>2
<1>3. Rows!Deleted(View, View')
  BY <1>2, MappedState DEF Rows!Deleted, ShownOf
<1>4. QED
  BY <1>1, <1>3, ViewTypeNext DEF Rows!Statement, Rows!Changes

LEMMA UpdateRefines ==
    ASSUME IInv, IInv', NEW rows \in SUBSET RowIds, NEW v \in Values, Update(rows, v)
    PROVE  /\ Rows!Statement
           /\ \A k \in RowIds : View'[k] = IF k \in Updated(rows, v) THEN v ELSE View[k]
<1>1. WriteStep /\ UNCHANGED <<Base, Marks>>
  BY UpdateSteps, WriteRefines
<1>2. TM!Assigned
  BY <1>1 DEF WriteStep
<1>3. ASSUME NEW k \in RowIds
      PROVE  /\ Shown(data'[k]) = IF k \in Updated(rows, v) THEN v ELSE Shown(data[k])
             /\ k \in Updated(rows, v) => Shown(data[k]) # NoValue
  <2>1. CASE k \notin Updated(rows, v)
    BY <2>1 DEF Update
  <2>2. CASE k \in Updated(rows, v)
    <3>1. data'[k] = OwnVersion(v)
      BY <2>2 DEF Update, OwnVersion
    <3>2. data[k] \in Version /\ Live(data[k])
      BY <2>2, SeenRows DEF Update, Updated, Reached
    <3>3. Shown(data[k]) # NoValue
      BY <3>2, VersionFields, StoreAssumption DEF Shown, StoreAssumption
    <3>4. QED
      BY <1>2, <2>2, <3>1, <3>3, OwnVersionShown
  <2>3. QED
    BY <2>1, <2>2
<1>4. Rows!Updated(View, View', v)
  BY <1>3, MappedState DEF Rows!Updated, ShownOf
<1>5. \A k \in RowIds : View'[k] = IF k \in Updated(rows, v) THEN v ELSE View[k]
  BY <1>3, MappedState DEF ShownOf
<1>6. QED
  BY <1>1, <1>4, <1>5, ViewTypeNext DEF Rows!Statement, Rows!Changes

\* The row a new version takes can come back from nowhere.
LEMMA InsertRefines ==
    ASSUME IInv, IInv', NEW v \in Values, Insert(v) \/ InsertRefused(v)
    PROVE  /\ Rows!Statement
           /\ View' = View \/ (Insert(v) /\ View' = [View EXCEPT ![row_ids + 1] = v])
<1> DEFINE k == row_ids + 1
<1>1. WriteStep /\ UNCHANGED <<Base, Marks>>
  BY InsertSteps, WriteRefines
<1>2. k \in RowIds /\ k > row_ids /\ row_ids \in Nat
  BY Fields DEF Insert, InsertRefused, IInv
<1> HIDE DEF k
<1>3. CASE InsertRefused(v)
  <2>1. View' = View
    BY <1>3, MappedState DEF InsertRefused
  <2>2. Rows!Deleted(View, View')
    BY <2>1 DEF Rows!Deleted
  <2>3. QED
    BY <1>1, <2>1, <2>2, ViewTypeNext DEF Rows!Statement, Rows!Changes
<1>4. CASE Insert(v)
  <2>1. TM!Assigned
    BY <1>1 DEF WriteStep
  <2>2. data' = [data EXCEPT ![k] = OwnVersion(v)]
    BY <1>4 DEF Insert, OwnVersion, k
  <2>3. View' = [View EXCEPT ![k] = v]
    <3>1. Shown(OwnVersion(v)) = v
      BY <2>1, OwnVersionShown
    <3>2. data \in [RowIds -> Version \cup {NoRow}]
      BY MappedState
    <3>3. ShownOf(data') = [ShownOf(data) EXCEPT ![k] = v]
      BY <1>2, <2>2, <3>1, <3>2 DEF ShownOf
    <3>4. QED
      BY <3>3, MappedState
  <2>4. Shown(NoRow) = NoValue
    BY DEF Shown, Live
  <2>5. View[k] = NoValue
    <3>1. data[k] = NoRow
      BY <1>2 DEF IInv, RowInv
    <3>2. QED
      BY <1>2, <2>4, <3>1, MappedState DEF ShownOf
  <2>6. ASSUME NEW p \in 0 .. Len(ctx.undo_records)
        PROVE  ShownOf(Past(data, ctx.undo_records, p))[k] = NoValue
    BY <1>2, <2>4, <2>6, PastUnborn DEF ShownOf
  <2>7. Base[k] = NoValue
    <3>1. 0 \in 0 .. Len(ctx.undo_records)
      BY MappedState
    <3>2. QED
      BY <2>6, <3>1, MappedState
  <2>8. \A i \in 1 .. Len(Marks) : Marks[i].view[k] = NoValue
    <3>1. Len(Marks) = Len(ctx.savepoints)
      BY MappedState DEF MarksOf
    <3>2. ASSUME NEW i \in 1 .. Len(ctx.savepoints)
          PROVE  Marks[i].view[k] = NoValue
      <4>1. Marks[i].view
              = ShownOf(Past(data, ctx.undo_records, ctx.savepoints[i].undo_position))
        BY MappedState DEF MarksOf, Mark
      <4>2. QED
        BY <2>6, <4>1, SavepointFields
    <3>3. QED
      BY <3>1, <3>2
  <2>9. Rows!Inserted(View, View', k)
    BY <2>3, <2>5, <2>7, <2>8 DEF Rows!Inserted
  <2>10. QED
    BY <1>1, <1>2, <1>4, <2>3, <2>9, ViewTypeNext DEF Rows!Statement, Rows!Changes, k
<1>5. QED
  BY <1>3, <1>4

LEMMA SavepointRefines ==
    ASSUME IInv, IInv', NEW n \in Names, SetSavepoint(n)
    PROVE  Rows!SetSavepoint(n)
<1> DEFINE saved == [name |-> n, undo_position |-> Len(ctx.undo_records)]
           saves == Append(ctx.savepoints, saved)
           old == MarksOf(data, ctx.undo_records, ctx.savepoints)
<1>1. /\ ContextStep /\ ctx'.savepoints = saves
      /\ UNCHANGED <<Base, View>> /\ data' = data /\ ctx'.undo_records = ctx.undo_records
  BY SavepointSteps, ContextRefines DEF ContextStep
<1>2. Mark(data, ctx.undo_records, saved) = [name |-> n, view |-> View]
  <2>1. Past(data, ctx.undo_records, Len(ctx.undo_records)) = data
    BY MappedState, PastOfNone
  <2>2. QED
    BY <2>1, MappedState DEF Mark
<1> HIDE DEF saved
<1>3. /\ Len(saves) = Len(ctx.savepoints) + 1 /\ saves[Len(ctx.savepoints) + 1] = saved
      /\ \A i \in 1 .. Len(ctx.savepoints) : saves[i] = ctx.savepoints[i]
      /\ Len(ctx.savepoints) \in Nat
  <2>1. ctx.savepoints \in Seq(TM!Savepoint)
    BY MappedState
  <2>2. saved \in TM!Savepoint
    BY MappedState DEF saved, TM!Savepoint
  <2>3. QED
    BY <2>1, <2>2, AppendProperties
<1>4. MarksOf(data, ctx.undo_records, saves) = Append(old, [name |-> n, view |-> View])
  <2> DEFINE m == Len(ctx.savepoints)
             new == MarksOf(data, ctx.undo_records, saves)
             top == [name |-> n, view |-> View]
  <2>1. /\ old = [i \in 1 .. m |-> Mark(data, ctx.undo_records, ctx.savepoints[i])]
        /\ new = [i \in 1 .. m + 1 |-> Mark(data, ctx.undo_records, saves[i])]
    BY <1>3 DEF MarksOf
  <2>2. new = [i \in 1 .. m + 1 |-> IF i = m + 1 THEN top ELSE old[i]]
    <3>1. ASSUME NEW i \in 1 .. m + 1
          PROVE  new[i] = IF i = m + 1 THEN top ELSE old[i]
      <4>1. CASE i = m + 1
        BY <1>2, <1>3, <2>1, <4>1
      <4>2. CASE i # m + 1
        <5>1. i \in 1 .. m
          BY <1>3, <4>2
        <5>2. QED
          BY <1>3, <2>1, <4>2, <5>1
      <4>3. QED
        BY <4>1, <4>2
    <3>2. QED
      BY <2>1, <3>1
  <2> HIDE DEF new, old, top
  <2>3. Append(old, top) = [i \in 1 .. m + 1 |-> IF i = m + 1 THEN top ELSE old[i]]
    <3> DEFINE S == {old[i] : i \in 1 .. m} \cup {top}
    <3>1. old \in Seq(S) /\ top \in S /\ Len(old) = m
      <4>1. m \in Nat /\ old = [i \in 1 .. m |-> old[i]]
        BY <1>3, <2>1
      <4>2. \A i \in 1 .. m : old[i] \in S
        OBVIOUS
      <4> HIDE DEF m, S
      <4>3. old \in [1 .. m -> S]
        BY <4>1, <4>2
      <4>4. QED
        BY <4>1, <4>3 DEF S
    <3> HIDE DEF S
    <3>2. /\ Append(old, top) \in Seq(S) /\ Len(Append(old, top)) = m + 1
          /\ \A i \in 1 .. m : Append(old, top)[i] = old[i]
          /\ Append(old, top)[m + 1] = top
      BY <3>1, AppendProperties
    <3>3. PICK longer \in Seq(S) : longer = Append(old, top)
      BY <3>2
    <3>4. longer = [i \in 1 .. Len(longer) |-> longer[i]]
      <4>1. longer \in [1 .. Len(longer) -> S]
        BY LenProperties
      <4>2. QED
        BY <4>1
    <3>5. \A i \in 1 .. m + 1 : longer[i] = IF i = m + 1 THEN top ELSE old[i]
      BY <1>3, <3>2, <3>3
    <3>6. QED
      BY <3>2, <3>3, <3>4, <3>5
  <2>4. QED
    BY <2>2, <2>3 DEF new, old, top
<1>5. Marks' = Append(Marks, [name |-> n, view |-> View])
  BY <1>1, <1>4, MappedState
<1>6. QED
  BY <1>1, <1>5 DEF Rows!SetSavepoint

\* The marks below one, where the rows they bring back are as before.
LEMMA FewerMarks ==
    ASSUME IInv, NEW i \in 1 .. Len(ctx.savepoints), NEW new,
           \A j \in 1 .. i - 1 :
              Past(new, ctx.undo_records, ctx.savepoints[j].undo_position)
                = Past(data, ctx.undo_records, ctx.savepoints[j].undo_position)
    PROVE  MarksOf(new, ctx.undo_records, SubSeq(ctx.savepoints, 1, i - 1))
             = SubSeq(MarksOf(data, ctx.undo_records, ctx.savepoints), 1, i - 1)
<1> DEFINE saves == ctx.savepoints
           below == SubSeq(saves, 1, i - 1)
           recs == ctx.undo_records
           all == MarksOf(data, recs, saves)
<1>1. saves \in Seq(TM!Savepoint) /\ Len(saves) \in Nat
  BY Fields DEF IInv
<1>2. below = [j \in 1 .. i - 1 |-> saves[j]]
  BY <1>1 DEF SubSeq
<1>3. Len(below) = i - 1
  BY <1>1, <1>2
<1>4. MarksOf(new, recs, below) = [j \in 1 .. i - 1 |-> Mark(data, recs, saves[j])]
  <2>1. \A j \in 1 .. i - 1 : Mark(new, recs, below[j]) = Mark(data, recs, saves[j])
    BY <1>2 DEF Mark
  <2>2. MarksOf(new, recs, below) = [j \in 1 .. i - 1 |-> Mark(new, recs, below[j])]
    BY <1>3 DEF MarksOf
  <2>3. QED
    BY <2>1, <2>2
<1>5. SubSeq(all, 1, i - 1) = [j \in 1 .. i - 1 |-> Mark(data, recs, saves[j])]
  <2>1. SubSeq(all, 1, i - 1) = [j \in 1 .. i - 1 |-> all[j]]
    BY <1>1 DEF SubSeq
  <2>2. \A j \in 1 .. i - 1 : all[j] = Mark(data, recs, saves[j])
    <3>1. \A j \in 1 .. i - 1 : j \in 1 .. Len(saves)
      BY <1>1
    <3>2. QED
      BY <3>1 DEF MarksOf
  <2> HIDE DEF all
  <2>3. QED
    BY <2>1, <2>2
<1>6. QED
  BY <1>4, <1>5

LEMMA PopRefines ==
    ASSUME IInv, IInv', NEW n \in Names, NEW i \in 1 .. MaxSavepoints, TM!IsLatest(n, i),
           RollbackTo(i) \/ Release(i)
    PROVE  i \in 1 .. Len(Marks) /\ (Rows!RollbackTo(i) \/ Rows!Release(i))
<1>1. /\ i \in 1 .. Len(ctx.savepoints)
      /\ ctx'.savepoints = SubSeq(ctx.savepoints, 1, i - 1)
      /\ ctx'.undo_records = ctx.undo_records
      /\ Release(i) => ContextStep
      /\ RollbackTo(i) => RewindStep /\ data' = AtMark(i)
  BY PopSteps
<1>2. /\ Len(Marks) = Len(ctx.savepoints)
      /\ Marks[i].view = ShownOf(AtMark(i))
  BY <1>1, MappedState DEF MarksOf, Mark, AtMark
<1>3. PICK new : new = data'
  OBVIOUS
<1>4. CASE Release(i)
  <2>1. UNCHANGED <<Base, View>> /\ data' = data
    BY <1>1, <1>4, ContextRefines DEF ContextStep
  <2>2. Marks' = SubSeq(Marks, 1, i - 1)
    BY <1>1, <2>1, FewerMarks, MappedState
  <2>3. QED
    BY <1>1, <1>2, <2>1, <2>2 DEF Rows!Release
<1>5. CASE RollbackTo(i)
  <2> DEFINE q == ctx.savepoints[i].undo_position
  <2>1. new = Past(data, ctx.undo_records, q) /\ q \in 0 .. Len(ctx.undo_records)
    BY <1>1, <1>3, <1>5, SavepointFields DEF AtMark
  <2>2. ctx.undo_records \in Seq(Undo)
    BY MappedState
  <2> HIDE DEF q
  <2>3. ASSUME NEW p \in 0 .. Len(ctx.undo_records), p <= q
        PROVE  Past(new, ctx.undo_records, p) = Past(data, ctx.undo_records, p)
    <3>1. q \in p .. Len(ctx.undo_records)
      BY <2>1, <2>3
    <3>2. QED
      BY <2>1, <2>2, <3>1, PastOfPast
  <2>4. Base' = Base
    <3>1. 0 \in 0 .. Len(ctx.undo_records) /\ 0 <= q
      BY <2>1, MappedState
    <3>2. QED
      BY <1>1, <1>3, <2>3, <3>1, MappedState
  <2>5. \A j \in 1 .. i - 1 :
          Past(new, ctx.undo_records, ctx.savepoints[j].undo_position)
            = Past(data, ctx.undo_records, ctx.savepoints[j].undo_position)
    <3>1. ASSUME NEW j \in 1 .. i - 1
          PROVE  /\ ctx.savepoints[j].undo_position \in 0 .. Len(ctx.undo_records)
                 /\ ctx.savepoints[j].undo_position <= q
      <4>1. j \in 1 .. Len(ctx.savepoints) /\ j \in 1 .. i
        BY <1>1, MappedState
      <4>2. QED
        BY <1>1, <4>1, SavepointFields DEF IInv, BlockInv, q
    <3>2. QED
      BY <2>3, <3>1
  <2>6. Marks' = SubSeq(Marks, 1, i - 1)
    BY <1>1, <1>3, <2>5, FewerMarks, MappedState
  <2>7. View' = Marks[i].view
    BY <1>1, <1>2, <1>5, MappedState
  <2>8. QED
    BY <1>1, <1>2, <2>4, <2>6, <2>7 DEF Rows!RollbackTo
<1>6. QED
  BY <1>4, <1>5

\* Vacuum is invisible: to the session, to a rollback and to a savepoint.
LEMMA VacuumRefines ==
    ASSUME IInv, IInv', Vacuum
    PROVE  UNCHANGED <<Base, View, Marks>>
<1>1. ctx' = ctx /\ data' = [k \in RowIds |-> Vacuumed(data[k])]
  BY DEF Vacuum
<1>2. ASSUME NEW p \in 0 .. Len(ctx.undo_records)
      PROVE  ShownOf(Past(data', ctx.undo_records, p))
               = ShownOf(Past(data, ctx.undo_records, p))
  <2>1. ASSUME NEW k \in RowIds
        PROVE  Shown(Past(data', ctx.undo_records, p)[k])
                 = Shown(Past(data, ctx.undo_records, p)[k])
    <3>1. PICK row, new : row = Past(data, ctx.undo_records, p)[k]
                            /\ new = Past(data', ctx.undo_records, p)[k]
      OBVIOUS
    <3>2. row \in Version \cup {NoRow} /\ Settled(row)
      BY <3>1, PastRows
    <3>3. new \in {row, Vacuumed(row)}
      BY <3>1, VacuumedPast
    <3>4. Shown(new) = Shown(row)
      BY <3>2, <3>3, VacuumedRow DEF IInv
    <3>5. QED
      BY <3>1, <3>4
  <2>2. QED
    BY <2>1 DEF ShownOf
<1>3. View' = View
  <2>1. \A k \in RowIds : Shown(data'[k]) = Shown(data[k])
    BY <1>1, RowTypes, VacuumedRow DEF IInv
  <2>2. QED
    BY <2>1, MappedState DEF ShownOf
<1>4. Base' = Base
  <2>1. 0 \in 0 .. Len(ctx.undo_records)
    BY MappedState
  <2>2. QED
    BY <1>1, <1>2, <2>1, MappedState
<1>5. Marks' = Marks
  <2>1. \A i \in 1 .. Len(ctx.savepoints) :
           ctx.savepoints[i].undo_position \in 0 .. Len(ctx.undo_records)
    BY SavepointFields
  <2>2. MarksOf(data', ctx.undo_records, ctx.savepoints)
          = MarksOf(data, ctx.undo_records, ctx.savepoints)
    BY <1>2, <2>1, SameMarks
  <2>3. QED
    BY <1>1, <2>2, MappedState
<1>6. QED
  BY <1>3, <1>4, <1>5

LEMMA ControlRefines ==
    ASSUME IInv, IInv', Control
    PROVE  [Rows!Next]_(Rows!tableVars)
<1>1. CASE ContextStep /\ ctx'.savepoints = ctx.savepoints
  BY <1>1, ContextRefines DEF Rows!tableVars
<1>2. CASE EndStep("COMMITTED") /\ ctx'.savepoints = <<>>
  BY <1>2, EndRefines DEF Rows!Next
<1>3. QED
  BY <1>1, <1>2, ControlSteps

LEMMA EndOfTransactionRefines ==
    ASSUME IInv, IInv', Commit \/ Rollback
    PROVE  Rows!Commit \/ Rows!Rollback
<1>1. ctx'.savepoints = <<>> /\ (Commit => ContextStep \/ EndStep("COMMITTED"))
      /\ (Rollback => ContextStep \/ EndStep("ABORTED"))
  BY EndOfTransaction
<1>2. CASE EndStep("COMMITTED") \/ EndStep("ABORTED")
  BY <1>1, <1>2, EndRefines
<1>3. CASE ContextStep
  <2>1. ctx.xid = NoXid
    BY <1>3 DEF Commit, Rollback, Reset, TM!IdleContext, TM!InvalidXid, NoXid, ContextStep
  <2>2. QED
    BY <1>1, <1>3, <2>1, EmptyEnd
<1>4. QED
  BY <1>1, <1>2, <1>3

LEMMA InitRefines ==
    ASSUME Init
    PROVE  Rows!Init
<1>1. IInv /\ Mapped
  BY InitHolds, Mapping
<1>2. /\ data = [k \in RowIds |-> NoRow] /\ ctx.xid = NoXid
      /\ ctx.savepoints = <<>>
  BY DEF Init, TM!Init, TM!IdleContext, TM!InvalidXid, NoXid
<1>3. ShownOf(data) = [k \in RowIds |-> NoValue]
  BY <1>2 DEF ShownOf, Shown, Live
<1>4. Past(data, ctx.undo_records, 0) = data
  BY <1>1, <1>2, NothingToUndo
<1>5. MarksOf(data, ctx.undo_records, <<>>) = <<>>
  BY DEF MarksOf
<1>6. QED
  BY <1>1, <1>2, <1>3, <1>4, <1>5 DEF Mapped, Rows!Init

-----------------------------------------------------------------------------
\* Transactions are atomic and savepoints exact: by undo records applied in
\* part, repeatedly and between vacuums, the table does what RowTable says.
THEOREM Refinement == Spec => ImplementsRowTable
<1>1. Init => Rows!Init
  BY InitRefines
<1>2. IInv /\ IInv' /\ [Next]_vars => [Rows!Next]_(Rows!tableVars)
  <2> SUFFICES ASSUME IInv, IInv', [Next]_vars
               PROVE  [Rows!Next]_(Rows!tableVars)
    OBVIOUS
  <2>1. CASE UNCHANGED vars
    <3>1. UNCHANGED <<data, ctx>>
      BY <2>1 DEF vars, tmVars
    <3>2. QED
      BY <3>1, MappedState DEF Rows!tableVars
  <2>2. CASE Control
    BY <2>2, ControlRefines
  <2>3. CASE Select
    BY <2>3, SelectSteps, ContextRefines DEF Rows!tableVars
  <2>4. ASSUME NEW v \in Values, Insert(v) \/ InsertRefused(v)
        PROVE  Rows!Next
    BY <2>4, InsertRefines DEF Rows!Next
  <2>5. ASSUME NEW rows \in Matched, NEW v \in Values, Update(rows, v)
        PROVE  Rows!Next
    BY <2>5, UpdateRefines DEF Matched, Rows!Next
  <2>6. ASSUME NEW rows \in Matched, Delete(rows)
        PROVE  Rows!Next
    BY <2>6, DeleteRefines DEF Matched, Rows!Next
  <2>7. CASE Commit \/ Rollback
    BY <2>7, EndOfTransactionRefines DEF Rows!Next
  <2>8. ASSUME NEW n \in Names, SetSavepoint(n)
        PROVE  Rows!Next
    BY <2>8, SavepointRefines DEF Rows!Next
  <2>9. ASSUME NEW n \in Names, NEW i \in 1 .. MaxSavepoints, TM!IsLatest(n, i),
               RollbackTo(i) \/ Release(i)
        PROVE  Rows!Next
    BY <2>9, PopRefines DEF Rows!Next
  <2>10. CASE Vacuum
    BY <2>10, VacuumRefines DEF Rows!tableVars
  <2>11. QED
    BY <2>1, <2>2, <2>3, <2>4, <2>5, <2>6, <2>7, <2>8, <2>9, <2>10 DEF Next
<1>3. Spec => Rows!Spec
  BY <1>1, <1>2, Inductive, PTL DEF Spec, Rows!Spec
<1>4. QED
  BY <1>3 DEF ImplementsRowTable

-----------------------------------------------------------------------------
(* The primary key.                                                        *)

\* What the session sees, what a rollback would bring back, and what each
\* savepoint would: no two rows of any have the same key.
Views == {View, Base} \cup {Marks[i].view : i \in 1 .. Len(Marks)}
KeysUnique == has_pk => \A f \in Views : Distinct(f)

\* Every row that shows a value is among those a statement checks.
LEMMA SeenAll ==
    ASSUME IInv, NEW k \in RowIds, View[k] # NoValue
    PROVE  k \in Seen /\ View[k] = data[k].val
<1>1. Live(data[k]) /\ View[k] = data[k].val
  BY ViewIs DEF ShownOf, Shown
<1>2. Sees(data[k], TM!WriterXid, TM!GetSnapshot)
  <2>1. data[k] \in Version \cup {NoRow} /\ Settled(data[k])
    BY RowTypes
  <2>2. QED
    BY <1>1, <2>1, SeesLive DEF IInv
<1>3. QED
  BY <1>1, <1>2 DEF Seen, SeenBy

\* The savepoints are a sequence.
LEMMA MarksSeq ==
    ASSUME IInv
    PROVE  Marks \in Seq({Marks[i] : i \in 1 .. Len(Marks)})
<1> DEFINE S == {Marks[i] : i \in 1 .. Len(Marks)}
<1>1. Marks = [i \in 1 .. Len(ctx.savepoints) |-> Marks[i]] /\ Len(ctx.savepoints) \in Nat
  BY Fields DEF IInv, Marks
<1>2. Len(Marks) = Len(ctx.savepoints)
  BY <1>1
<1>3. \A i \in 1 .. Len(Marks) : Marks[i] \in S
  OBVIOUS
<1> HIDE DEF S
<1>4. Marks \in [1 .. Len(ctx.savepoints) -> S]
  BY <1>1, <1>2, <1>3
<1>5. Marks \in Seq(S)
  BY <1>1, <1>4
<1>6. QED
  BY <1>5 DEF S

\* Every step but a statement only passes on what is there.
LEMMA ViewsKept ==
    ASSUME IInv,
           \/ Rows!Commit \/ Rows!Rollback
           \/ \E n \in Names : Rows!SetSavepoint(n)
           \/ \E i \in 1 .. Len(Marks) : Rows!RollbackTo(i) \/ Rows!Release(i)
           \/ UNCHANGED Rows!tableVars
    PROVE  Views' \subseteq Views
<1> DEFINE S == {Marks[i] : i \in 1 .. Len(Marks)}
<1>1. Marks \in Seq(S) /\ Len(Marks) \in Nat
  <2>1. Marks \in Seq(S)
    BY MarksSeq
  <2> HIDE DEF S
  <2>2. QED
    BY <2>1
<1>2. CASE Rows!Commit \/ Rows!Rollback \/ UNCHANGED Rows!tableVars
  BY <1>2 DEF Rows!Commit, Rows!Rollback, Rows!tableVars, Views
<1>3. ASSUME NEW n \in Names, Rows!SetSavepoint(n)
      PROVE  Views' \subseteq Views
  <2> DEFINE top == [name |-> n, view |-> View]
  <2>1. Marks' = Append(Marks, top) /\ UNCHANGED <<Base, View>>
    BY <1>3 DEF Rows!SetSavepoint
  <2>2. top.view = View
    OBVIOUS
  <2>3. /\ Len(Append(Marks, top)) = Len(Marks) + 1
        /\ \A i \in 1 .. Len(Marks) : Append(Marks, top)[i] = Marks[i]
        /\ Append(Marks, top)[Len(Marks) + 1] = top
    <3>1. Marks \in Seq(S \cup {top}) /\ top \in S \cup {top}
      <4> HIDE DEF S
      <4>1. QED
        BY <1>1
    <3> HIDE DEF S, top
    <3>2. QED
      BY <3>1, AppendProperties
  <2> HIDE DEF top
  <2>4. \A i \in 1 .. Len(Marks') : Marks'[i].view \in Views
    BY <1>1, <2>1, <2>2, <2>3 DEF Views
  <2>5. QED
    BY <2>1, <2>4 DEF Views
<1>4. ASSUME NEW i \in 1 .. Len(Marks), Rows!RollbackTo(i) \/ Rows!Release(i)
      PROVE  Views' \subseteq Views
  <2>1. Marks' = SubSeq(Marks, 1, i - 1) /\ Base' = Base /\ View' \in {View, Marks[i].view}
    BY <1>4 DEF Rows!RollbackTo, Rows!Release
  <2>2. SubSeq(Marks, 1, i - 1) = [j \in 1 .. i - 1 |-> Marks[j]]
    BY <1>1 DEF SubSeq
  <2>3. \A j \in 1 .. Len(Marks') : j \in 1 .. Len(Marks) /\ Marks'[j] = Marks[j]
    BY <1>1, <2>1, <2>2
  <2>4. QED
    BY <2>1, <2>3 DEF Views
<1>5. QED
  BY <1>2, <1>3, <1>4

\* A row an INSERT or an UPDATE writes is none it has to refuse.
LEMMA StatementKeepsKeys ==
    ASSUME IInv, IInv', MaxMatched[TRUE] <= 1, has_pk, Distinct(View),
           \/ \E v \in Values : Insert(v) \/ InsertRefused(v)
           \/ \E rows \in Matched, v \in Values : Update(rows, v)
           \/ \E rows \in Matched : Delete(rows)
    PROVE  Distinct(View') /\ UNCHANGED <<Base, Marks>>
<1>1. ASSUME NEW v \in Values, Insert(v) \/ InsertRefused(v)
      PROVE  Distinct(View') /\ UNCHANGED <<Base, Marks>>
  <2>1. Rows!Statement /\ (View' = View
                            \/ (Insert(v) /\ View' = [View EXCEPT ![row_ids + 1] = v]))
    BY <1>1, InsertRefines
  <2>2. CASE View' = View
    BY <2>1, <2>2 DEF Distinct, Rows!Statement
  <2>3. CASE Insert(v) /\ View' = [View EXCEPT ![row_ids + 1] = v]
    <3>1. \A j \in RowIds : View[j] # v
      <4>1. ASSUME NEW j \in RowIds, View[j] = v
            PROVE  j \in Duplicates(v)
        BY <4>1, SeenAll, StoreAssumption DEF Duplicates, StoreAssumption
      <4>2. QED
        BY <2>3, <4>1 DEF Insert
    <3>2. View \in [RowIds -> Values \cup {NoValue}]
      BY ViewIs, RowTypes, ViewType
    <3>3. QED
      BY <2>1, <2>3, <3>1, <3>2 DEF Distinct, Rows!Statement
  <2>4. QED
    BY <2>1, <2>2, <2>3
<1>2. ASSUME NEW rows \in Matched, NEW v \in Values, Update(rows, v)
      PROVE  Distinct(View') /\ UNCHANGED <<Base, Marks>>
  <2>1. /\ Rows!Statement
        /\ \A k \in RowIds : View'[k] = IF k \in Updated(rows, v) THEN v ELSE View[k]
    BY <1>2, UpdateRefines DEF Matched
  <2>2. \A j, k \in rows : j = k
    <3>1. IsFiniteSet(rows) /\ Cardinality(rows) \in Nat
      <4>1. IsFiniteSet(RowIds)
        BY StoreAssumption, FS_Interval DEF StoreAssumption, RowIds
      <4>2. QED
        BY <4>1, FS_Subset, FS_CardinalityType DEF Matched
    <3>2. Cardinality(rows) <= MaxMatched[TRUE]
      <4>1. has_pk \in BOOLEAN
        BY StoreAssumption DEF IInv, TypeOK, StoreAssumption
      <4>2. has_pk = TRUE
        BY <4>1
      <4>3. Cardinality(rows) <= MaxMatched[has_pk]
        BY DEF Matched
      <4>4. MaxMatched[has_pk] = MaxMatched[TRUE]
        BY <4>2, Zenon
      <4>5. QED
        BY <4>3, <4>4
    <3>3. Cardinality(rows) = 0 \/ Cardinality(rows) = 1
      <4> DEFINE most == MaxMatched[TRUE]
      <4>1. most \in Nat /\ most <= 1 /\ Cardinality(rows) <= most
        BY <3>2, StoreAssumption, Zenon DEF StoreAssumption
      <4> HIDE DEF most
      <4>2. QED
        BY <3>1, <4>1
    <3>4. CASE Cardinality(rows) = 0
      BY <3>1, <3>4, FS_EmptySet
    <3>5. CASE Cardinality(rows) = 1
      BY <3>1, <3>5, FS_Singleton
    <3>6. QED
      BY <3>3, <3>4, <3>5
  <2>3. ASSUME NEW k \in Updated(rows, v), NEW j \in RowIds, j # k
        PROVE  View[j] # v
    <3>1. ~Clashes(k, v)
      BY DEF Updated
    <3>2. View[j] = v => j \in Seen \ {k} /\ data[j].val = v
      BY <2>3, SeenAll, StoreAssumption DEF StoreAssumption
    <3>3. QED
      BY <3>1, <3>2 DEF Clashes
  <2>4. Updated(rows, v) \subseteq rows
    BY DEF Updated, Reached
  <2>5. QED
    BY <2>1, <2>2, <2>3, <2>4 DEF Distinct, Rows!Statement
<1>3. ASSUME NEW rows \in Matched, Delete(rows)
      PROVE  Distinct(View') /\ UNCHANGED <<Base, Marks>>
  <2>1. Rows!Statement /\ Rows!Deleted(View, View')
    BY <1>3, DeleteRefines DEF Matched
  <2>2. QED
    BY <2>1 DEF Distinct, Rows!Statement, Rows!Deleted
<1>4. QED
  BY <1>1, <1>2, <1>3

LEMMA KeysKept ==
    ASSUME IInv, IInv', MaxMatched[TRUE] <= 1, KeysUnique, [Next]_vars
    PROVE  KeysUnique'
<1>1. has_pk' = has_pk
  <2>1. Control \/ Select \/ Vacuum => has_pk' = has_pk
    BY DEF Control, Select, Vacuum
  <2>2. \A v \in Values : Insert(v) \/ InsertRefused(v) => has_pk' = has_pk
    BY DEF Insert, InsertRefused
  <2>3. \A rows \in Matched : Delete(rows) \/ (\E v \in Values : Update(rows, v))
                              => has_pk' = has_pk
    BY DEF Delete, Update
  <2>4. Commit \/ Rollback => has_pk' = has_pk
    BY DEF Commit, Rollback
  <2>5. \A n \in Names : SetSavepoint(n) => has_pk' = has_pk
    BY DEF SetSavepoint
  <2>6. \A i \in 1 .. MaxSavepoints : RollbackTo(i) \/ Release(i) => has_pk' = has_pk
    BY DEF RollbackTo, Release
  <2>7. QED
    BY <2>1, <2>2, <2>3, <2>4, <2>5, <2>6 DEF Next, vars
<1> SUFFICES ASSUME has_pk
             PROVE  \A f \in Views' : Distinct(f)
  BY <1>1 DEF KeysUnique, Distinct
<1>2. CASE Views' \subseteq Views
  BY <1>2 DEF KeysUnique
<1>3. CASE \/ \E v \in Values : Insert(v) \/ InsertRefused(v)
           \/ \E rows \in Matched, v \in Values : Update(rows, v)
           \/ \E rows \in Matched : Delete(rows)
  <2>1. Distinct(View)
    BY DEF KeysUnique, Views
  <2>2. Distinct(View') /\ UNCHANGED <<Base, Marks>>
    BY <1>3, <2>1, StatementKeepsKeys
  <2>3. Views' \subseteq Views \cup {View'}
    BY <2>2 DEF Views
  <2>4. QED
    BY <2>2, <2>3 DEF KeysUnique
<1>4. CASE UNCHANGED vars
  <2>1. UNCHANGED <<data, ctx>>
    BY <1>4 DEF vars, tmVars
  <2>2. QED
    BY <1>2, <2>1, MappedState, ViewsKept DEF Rows!tableVars
<1>5. CASE Control
  <2>1. CASE ContextStep /\ ctx'.savepoints = ctx.savepoints
    BY <1>2, <2>1, ContextRefines, ViewsKept DEF Rows!tableVars
  <2>2. CASE EndStep("COMMITTED") /\ ctx'.savepoints = <<>>
    BY <1>2, <2>2, EndRefines, ViewsKept
  <2>3. QED
    BY <1>5, <2>1, <2>2, ControlSteps
<1>6. CASE Select
  BY <1>2, <1>6, SelectSteps, ContextRefines, ViewsKept DEF Rows!tableVars
<1>7. CASE Commit \/ Rollback
  BY <1>2, <1>7, EndOfTransactionRefines, ViewsKept
<1>8. ASSUME NEW n \in Names, SetSavepoint(n)
      PROVE  Views' \subseteq Views
  BY <1>8, SavepointRefines, ViewsKept
<1>9. ASSUME NEW n \in Names, NEW i \in 1 .. MaxSavepoints, TM!IsLatest(n, i),
             RollbackTo(i) \/ Release(i)
      PROVE  Views' \subseteq Views
  BY <1>9, PopRefines, ViewsKept
<1>10. CASE Vacuum
  BY <1>2, <1>10, VacuumRefines, ViewsKept DEF Rows!tableVars
<1>11. QED
  BY <1>2, <1>3, <1>4, <1>5, <1>6, <1>7, <1>8, <1>9, <1>10 DEF Next

\* A primary key stays unique, whatever is undone, repeatedly and between
\* vacuums, when no statement updates two rows of the table: update_with_txn
\* checks each new version against the rows as they were before the statement,
\* so that without the hypothesis the property is false (run Store_multirow).
THEOREM PrimaryKeys ==
    ASSUME MaxMatched[TRUE] <= 1
    PROVE  Spec => []PrimaryKeyUnique
<1>1. Init => KeysUnique
  <2> SUFFICES ASSUME Init
               PROVE  KeysUnique
    OBVIOUS
  <2>1. Rows!Init
    BY InitRefines
  <2>2. Views = {[k \in RowIds |-> NoValue]}
    BY <2>1 DEF Rows!Init, Views
  <2>3. QED
    BY <2>2 DEF KeysUnique, Distinct
<1>2. IInv /\ IInv' /\ KeysUnique /\ [Next]_vars => KeysUnique'
  BY KeysKept
<1>3. KeysUnique => PrimaryKeyUnique
  BY DEF KeysUnique, PrimaryKeyUnique, Views
<1>4. QED
  BY <1>1, <1>2, <1>3, Inductive, PTL DEF Spec
=============================================================================
