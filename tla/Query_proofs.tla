---------------------------- MODULE Query_proofs ----------------------------
(***************************************************************************)
(* Proofs about Query, for any columns, keys, statements, conditions and   *)
(* number of rows, and any evaluation of expressions.                      *)
(*                                                                         *)
(* An index is kept by each call for itself: INSERT adds an entry, UPDATE  *)
(* rebuilds if it touches an indexed column, undo rebuilds always, vacuum  *)
(* if a row has gone.  So the invariant is carried from table to table     *)
(* (Kept), where a table is the value the calls of a statement hand on.    *)
(***************************************************************************)
EXTENDS Query, SequenceTheorems, WellFoundedInduction, TLAPS

-----------------------------------------------------------------------------
(* Tables.                                                                 *)

Tables(D) ==
    [rows : [RowIds -> Version \cup {NoRow}], row_ids : 0 .. MaxRowId,
     index : [D -> SUBSET (Texts \X RowIds)],
     undo : [RowIds -> Version \cup {NoRow, Untouched}],
     behind : BOOLEAN, failed : BOOLEAN]

\* Rowids that have not been given out are free.
Free(t) ==
    \A k \in RowIds : k > t.row_ids => t.rows[k] = NoRow /\ t.undo[k] = Untouched

Agrees(t, D) == ~t.behind => \A c \in D : t.index[c] = Entries(t, c)

Kept(t, D) == t \in Tables(D) /\ Free(t) /\ Agrees(t, D)

LEMMA RowIdFacts == MaxRowId \in Nat /\ RowIds \in SUBSET Nat /\ \A k \in RowIds : k >= 1
BY QueryAssumption DEF RowIds

\* Versions, and what is none.
LEMMA VersionFacts ==
    /\ NoRow.ins = "none" /\ Untouched.ins = "untouched" /\ NoRow # Untouched
    /\ \A v \in Version : /\ v.ins \in {"open", "done", "frozen"}
                          /\ v.del \in {"no", "open", "done"}
                          /\ v.row \in Rows /\ v # NoRow /\ v # Untouched
                          /\ v = [ins |-> v.ins, del |-> v.del, row |-> v.row]
<1>1. /\ NoRow.ins = "none" /\ Untouched.ins = "untouched"
  BY DEF NoRow, Untouched
<1>2. ASSUME NEW v \in Version
      PROVE  /\ v.ins \in {"open", "done", "frozen"} /\ v.del \in {"no", "open", "done"}
             /\ v.row \in Rows /\ v = [ins |-> v.ins, del |-> v.del, row |-> v.row]
  BY DEF Version
<1>3. QED
  BY <1>1, <1>2

LEMMA RowFacts ==
    ASSUME NEW row \in Rows
    PROVE  /\ row = [c \in Columns |-> row[c]]
           /\ \A c \in Columns : row[c] \in Holds(c) /\ value_to_string(row[c]) \in Texts
<1>1. \A c \in Columns : row[c] \in Holds(c)
  BY DEF Rows
<1>2. row = [c \in Columns |-> row[c]]
  BY DEF Rows
<1>3. QED
  BY <1>1, <1>2 DEF Texts

LEMMA EntriesType ==
    ASSUME NEW t, t.rows \in [RowIds -> Version \cup {NoRow}], NEW c \in Columns
    PROVE  Entries(t, c) \in SUBSET (Texts \X RowIds)
<1>1. ASSUME NEW k \in RowIds, t.rows[k] # NoRow
      PROVE  value_to_string(t.rows[k].row[c]) \in Texts
  BY <1>1, VersionFacts, RowFacts
<1>2. QED
  BY <1>1 DEF Entries

LEMMA Rebuilt ==
    ASSUME NEW D \in SUBSET Columns, NEW t \in Tables(D), Free(t)
    PROVE  /\ Kept(rebuild_indexes(t), D)
           /\ rebuild_indexes(t).row_ids = t.row_ids
           /\ rebuild_indexes(t).failed = t.failed
<1> DEFINE u == rebuild_indexes(t)
<1>1. /\ u.rows = t.rows /\ u.row_ids = t.row_ids /\ u.undo = t.undo /\ u.behind = FALSE
      /\ u.failed = t.failed /\ u.index = [c \in D |-> Entries(t, c)]
      /\ u = [rows |-> u.rows, row_ids |-> u.row_ids, index |-> u.index, undo |-> u.undo,
              behind |-> u.behind, failed |-> u.failed]
  <2> DEFINE idx == [c \in DOMAIN t.index |-> Entries(t, c)]
  <2>1. u = [t EXCEPT !.index = idx, !.behind = FALSE]
    BY DEF rebuild_indexes
  <2>2. idx = [c \in D |-> Entries(t, c)]
    BY DEF Tables
  <2> HIDE DEF u, idx
  <2>3. QED
    BY <2>1, <2>2 DEF Tables
<1>2. t.rows \in [RowIds -> Version \cup {NoRow}]
  BY DEF Tables
<1>3. \A c \in D : Entries(t, c) \in SUBSET (Texts \X RowIds)
  BY <1>2, EntriesType
<1> HIDE DEF u
<1>4. u.index \in [D -> SUBSET (Texts \X RowIds)]
  BY <1>1, <1>3
<1>5. u \in Tables(D)
  BY <1>1, <1>4 DEF Tables
<1>6. \A c \in D : u.index[c] = Entries(u, c)
  BY <1>1 DEF Entries
<1>7. QED
  BY <1>1, <1>5, <1>6 DEF Kept, Free, Agrees, u

\* Rows replaced and saved for undo.
LEMMA ReplacedIs ==
    ASSUME NEW D \in SUBSET Columns, NEW t \in Tables(D),
           NEW ks \in SUBSET RowIds, NEW new \in [ks -> Version]
    PROVE  LET u == Replaced(t, new)
           IN  /\ u \in Tables(D)
               /\ u.row_ids = t.row_ids /\ u.index = t.index
               /\ u.behind = t.behind /\ u.failed = t.failed
               /\ \A k \in RowIds :
                    /\ u.rows[k] = IF k \in ks THEN new[k] ELSE t.rows[k]
                    /\ u.undo[k] = IF k \in ks /\ t.undo[k] = Untouched
                                   THEN t.rows[k] ELSE t.undo[k]
<1> DEFINE rs == [k \in RowIds |-> IF k \in ks THEN new[k] ELSE t.rows[k]]
           us == [k \in RowIds |-> IF k \in ks /\ t.undo[k] = Untouched
                                   THEN t.rows[k] ELSE t.undo[k]]
           u == Replaced(t, new)
<1>1. rs \in [RowIds -> Version \cup {NoRow}]
  BY DEF Tables
<1>2. us \in [RowIds -> Version \cup {NoRow, Untouched}]
  BY DEF Tables
<1>3. u = [[t EXCEPT !.undo = us] EXCEPT !.rows = rs]
  <2>1. DOMAIN new = ks
    OBVIOUS
  <2>2. QED
    BY <2>1 DEF Replaced, Saved
<1> HIDE DEF u
<1>4. \A k \in RowIds :
        /\ rs[k] = IF k \in ks THEN new[k] ELSE t.rows[k]
        /\ us[k] = IF k \in ks /\ t.undo[k] = Untouched THEN t.rows[k] ELSE t.undo[k]
  OBVIOUS
<1> HIDE DEF rs, us
<1>5. /\ u.rows = rs /\ u.undo = us /\ u \in Tables(D)
      /\ u.row_ids = t.row_ids /\ u.index = t.index
      /\ u.behind = t.behind /\ u.failed = t.failed
  BY <1>1, <1>2, <1>3 DEF Tables
<1>6. QED
  BY <1>4, <1>5 DEF u

LEMMA FailIs ==
    ASSUME NEW D \in SUBSET Columns, NEW t \in Tables(D)
    PROVE  /\ Fail(t) \in Tables(D) /\ Fail(t).failed
           /\ Fail(t).rows = t.rows /\ Fail(t).row_ids = t.row_ids
           /\ Fail(t).index = t.index /\ Fail(t).undo = t.undo /\ Fail(t).behind = t.behind
BY DEF Fail, Tables

LEMMA FailKept ==
    ASSUME NEW D \in SUBSET Columns, NEW t, Kept(t, D)
    PROVE  Kept(Fail(t), D)
<1>1. t \in Tables(D)
  BY DEF Kept
<1>2. QED
  BY <1>1, FailIs DEF Kept, Free, Agrees, Entries

-----------------------------------------------------------------------------
(* INSERT.                                                                 *)

InsertRows == UNION {{new[i] : i \in DOMAIN new} : new \in Inserts}

\* What validate lets pass is a row.
LEMMA StoredRow ==
    ASSUME NEW t, t.row_ids + 1 \in RowIds, NEW row \in InsertRows,
           \A c \in Columns : Stored(t, row)[c] # Refused
    PROVE  Stored(t, row) \in Rows
<1> DEFINE full == Stored(t, row)
<1>1. ASSUME NEW c \in Columns
      PROVE  full[c] \in Holds(c)
  <2>1. CASE c \in DOMAIN row
    <3>1. full[c] = coerce(ColumnType[c], row[c])
      BY <2>1 DEF Stored
    <3>2. row \in {r \in UNION {{new[i] : i \in DOMAIN new} : new \in Inserts} : c \in DOMAIN r}
      BY <2>1 DEF InsertRows
    <3> HIDE DEF full
    <3>3. full[c] # Refused
      BY DEF full
    <3>4. full[c] \in Inserted(c)
      BY <3>1, <3>2, <3>3 DEF Inserted
    <3>5. QED
      BY <3>4 DEF Holds
  <2>2. CASE c \notin DOMAIN row
    <3>1. full[c] = (IF c \in PrimaryKey /\ ColumnType[c] = "INTEGER" THEN IntV(t.row_ids + 1)
                     ELSE IF c \in NotNull THEN Refused ELSE Null)
      BY <2>2 DEF Stored
    <3>2. full[c] \in {IntV(t.row_ids + 1), Null}
      BY <3>1
    <3> HIDE DEF full
    <3>3. QED
      BY <3>2 DEF Holds
  <2>3. QED
    BY <2>1, <2>2
<1>2. full = [c \in Columns |-> full[c]]
  BY DEF Stored
<1> HIDE DEF full
<1>3. full \in [Columns -> UNION {Holds(c) : c \in Columns}]
  BY <1>1, <1>2
<1>4. QED
  BY <1>1, <1>3 DEF Rows, full

LEMMA InsertKept ==
    ASSUME NEW D \in SUBSET Columns, NEW t, Kept(t, D), t.row_ids + 1 \in RowIds,
           NEW row \in InsertRows
    PROVE  LET u == insert_with_txn(t, row)
           IN  Kept(u, D) /\ u.row_ids <= t.row_ids + 1
<1> DEFINE k == t.row_ids + 1
           full == Stored(t, row)
           spent == [t EXCEPT !.row_ids = k]
           u == insert_with_txn(t, row)
<1>1. t \in Tables(D) /\ t.row_ids \in Nat /\ k \in Nat /\ k <= MaxRowId /\ k > t.row_ids
  BY RowIdFacts DEF Kept, Tables, RowIds
<1>2. CASE t.failed \/ \E c \in Columns : full[c] = Refused
  <2>1. u = t \/ u = Fail(t)
    BY <1>2 DEF insert_with_txn
  <2>2. u.row_ids = t.row_ids
    BY <1>1, <2>1, FailIs
  <2>3. Kept(u, D)
    BY <2>1, FailKept
  <2>4. QED
    BY <1>1, <2>2, <2>3
<1>3. /\ spent \in Tables(D) /\ spent.row_ids = k
      /\ spent.rows = t.rows /\ spent.undo = t.undo /\ spent.index = t.index
      /\ spent.behind = t.behind /\ spent.failed = t.failed
  BY <1>1 DEF Tables
<1>4. Kept(spent, D)
  <2> HIDE DEF spent
  <2>1. Free(spent)
    BY <1>1, <1>3, RowIdFacts DEF Kept, Free
  <2>2. Agrees(spent, D)
    BY <1>3 DEF Kept, Agrees, Entries
  <2>3. QED
    BY <1>3, <2>1, <2>2 DEF Kept
<1>5. CASE /\ ~(t.failed \/ \E c \in Columns : full[c] = Refused)
           /\ \E c \in PrimaryKey : Taken(t, c, full[c], k)
  <2>1. u = Fail(spent)
    BY <1>5 DEF insert_with_txn
  <2> HIDE DEF spent, u
  <2>2. QED
    BY <1>1, <1>3, <1>4, <2>1, FailIs, FailKept DEF u
<1>6. CASE /\ ~(t.failed \/ \E c \in Columns : full[c] = Refused)
           /\ ~\E c \in PrimaryKey : Taken(t, c, full[c], k)
  <2> DEFINE new == [j \in {k} |-> NewVersion(full)]
             put == Replaced(spent, new)
  <2>1. u = update_indexes(put, k)
    BY <1>6 DEF insert_with_txn
  <2>2. full \in Rows
    BY <1>6, StoredRow
  <2> HIDE DEF full, spent
  <2>3. new \in [{k} -> Version] /\ new[k] = NewVersion(full) /\ {k} \in SUBSET RowIds
    BY <2>2 DEF NewVersion, Version
  <2> HIDE DEF new
  <2>4. /\ put \in Tables(D) /\ put.row_ids = k /\ put.index = t.index
        /\ put.behind = t.behind /\ put.failed = t.failed
        /\ \A j \in RowIds :
             /\ put.rows[j] = IF j = k THEN NewVersion(full) ELSE t.rows[j]
             /\ put.undo[j] = IF j = k /\ t.undo[j] = Untouched THEN t.rows[j] ELSE t.undo[j]
    BY <1>3, <2>3, ReplacedIs
  <2> HIDE DEF put
  <2> DEFINE idx == [c \in D |-> t.index[c] \cup {<<value_to_string(put.rows[k].row[c]), k>>}]
  <2>5. DOMAIN put.index = D
    BY <2>4 DEF Tables
  <2>6. u = [put EXCEPT !.index = idx]
    BY <2>1, <2>4, <2>5 DEF update_indexes
  <2>7. put.rows[k] \in Version /\ put.rows[k].row = full
    BY <2>2, <2>4 DEF NewVersion, Version
  <2>8. idx \in [D -> SUBSET (Texts \X RowIds)]
    <3>1. ASSUME NEW c \in D
          PROVE  value_to_string(put.rows[k].row[c]) \in Texts /\ t.index[c] \in SUBSET (Texts \X RowIds)
      BY <1>1, <2>2, <2>7, RowFacts DEF Tables
    <3>2. QED
      BY <3>1
  <2>9. \A c \in D : idx[c] = t.index[c] \cup {<<value_to_string(put.rows[k].row[c]), k>>}
    OBVIOUS
  <2> HIDE DEF idx, u
  <2>10. /\ u \in Tables(D) /\ u.rows = put.rows /\ u.row_ids = k /\ u.undo = put.undo
         /\ u.behind = t.behind /\ u.index = idx
    BY <2>4, <2>6, <2>8 DEF Tables
  <2>11. Free(u)
    BY <1>1, <2>4, <2>10, RowIdFacts DEF Kept, Free
  <2>12. Agrees(u, D)
    <3>1. SUFFICES ASSUME ~t.behind, NEW c \in D
                   PROVE  idx[c] = Entries(u, c)
      BY <2>10 DEF Agrees
    <3>2. t.index[c] = Entries(t, c)
      BY <3>1 DEF Kept, Agrees
    <3>3. t.rows[k] = NoRow /\ put.rows[k] # NoRow
      BY <1>1, <2>7, VersionFacts DEF Kept, Free
    <3>4. \A j \in RowIds \ {k} : put.rows[j] = t.rows[j]
      BY <2>4
    <3>5. Entries(u, c) = Entries(t, c) \cup {<<value_to_string(put.rows[k].row[c]), k>>}
      BY <2>10, <3>3, <3>4 DEF Entries
    <3>6. QED
      BY <2>9, <3>2, <3>5
  <2>13. QED
    BY <1>1, <2>10, <2>11, <2>12 DEF Kept, u
<1>7. QED
  BY <1>2, <1>5, <1>6

\* A nonempty set of naturals has a least member.
LEMMA Least ==
    ASSUME NEW s \in SUBSET Nat, s # {}
    PROVE  \E x \in s : \A y \in s : x <= y
<1> DEFINE Below == {p \in Nat \X Nat : p[1] < p[2]}
<1>1. IsWellFoundedOn(Below, Nat)
  BY NatLessThanWellFounded, Zenon DEF OpToRel
<1>2. PICK x \in s : \A y \in s : <<y, x>> \notin Below
  <2> HIDE DEF Below
  <2>1. QED
    BY <1>1, WFMin
<1>3. ASSUME NEW y \in s
      PROVE  x <= y
  <2>1. y < x => <<y, x>> \in Below
    OBVIOUS
  <2>2. QED
    BY <1>2, <2>1
<1>4. QED
  BY <1>3

\* The tables a statement of several rows goes through.
Stages(t, new, g) ==
    /\ g[0] = t
    /\ \A i \in 1 .. Len(new) : g[i] = insert_with_txn(g[i - 1], new[i])

LEMMA InsertStages ==
    ASSUME NEW t, NEW new, Len(new) \in Nat
    PROVE  \E g : Stages(t, new, g) /\ insert_rows(t, new) = g[Len(new)]
<1> DEFINE Is(n, g) == g = [i \in 0 .. n |->
                              IF i = 0 THEN t
                              ELSE insert_with_txn(g[i - 1], new[i])]
           bad == {n \in Nat : \A g : ~Is(n, g)}
<1>1. bad = {}
  <2>1. SUFFICES ASSUME bad # {}
                 PROVE  FALSE
    OBVIOUS
  <2>2. PICK n \in bad : \A k \in bad : n <= k
    <3>1. bad \in SUBSET Nat
      OBVIOUS
    <3> HIDE DEF bad
    <3>2. QED
      BY <2>1, <3>1, Least
  <2>3. n \in Nat /\ \A g : ~Is(n, g)
    OBVIOUS
  <2>4. n # 0
    <3>1. \E f : Is(0, f)
      <4>1. Is(0, [i \in 0 .. 0 |-> t])
        OBVIOUS
      <4> HIDE DEF Is
      <4>2. QED
        BY <4>1
    <3> HIDE DEF Is
    <3>2. QED
      BY <2>3, <3>1
  <2>5. n - 1 \in Nat /\ n - 1 \notin bad
    <3>1. n \in Int /\ n - 1 \in Nat
      BY <2>3, <2>4
    <3> HIDE DEF bad
    <3>2. ~(n <= n - 1)
      BY <3>1
    <3>3. QED
      BY <2>2, <3>1, <3>2
  <2>6. PICK h : Is(n - 1, h)
    BY <2>5
  <2> DEFINE g == [i \in 0 .. n |-> IF i = n THEN insert_with_txn(h[n - 1], new[n]) ELSE h[i]]
  <2>7. Is(n, g)
    <3>1. ASSUME NEW i \in 0 .. n
          PROVE  g[i] = IF i = 0 THEN t
                        ELSE insert_with_txn(g[i - 1], new[i])
      <4>1. CASE i = n
        <5>1. g[i - 1] = h[n - 1]
          BY <2>3, <2>4, <4>1
        <5>2. QED
          BY <2>3, <2>4, <4>1, <5>1
      <4>2. CASE i # n
        <5>1. i \in 0 .. n - 1 /\ g[i] = h[i]
          BY <2>3, <4>2
        <5>2. i # 0 => g[i - 1] = h[i - 1]
          BY <2>3, <4>2
        <5>3. h[i] = IF i = 0 THEN t
                     ELSE insert_with_txn(h[i - 1], new[i])
          BY <2>6, <5>1
        <5>4. QED
          BY <5>1, <5>2, <5>3
      <4>3. QED
        BY <4>1, <4>2
    <3>2. g = [i \in 0 .. n |-> g[i]]
      OBVIOUS
    <3> HIDE DEF g
    <3>3. QED
      BY <3>1, <3>2
  <2>8. QED
    BY <2>3, <2>7
<1> DEFINE L == Len(new)
           g == CHOOSE f : Is(L, f)
<1>2. insert_rows(t, new) = g[L]
  BY DEF insert_rows
<1>3. \E f : Is(L, f)
  BY <1>1
<1> HIDE DEF Is, bad
<1>4. Is(L, g)
  BY <1>3
<1> HIDE DEF g
<1>5. \A i \in 0 .. L : g[i] = IF i = 0 THEN t
                               ELSE insert_with_txn(g[i - 1], new[i])
  BY <1>4 DEF Is
<1>6. Stages(t, new, g)
  BY <1>5 DEF Stages
<1>7. QED
  BY <1>2, <1>6

LEMMA InsertRowsKept ==
    ASSUME NEW D \in SUBSET Columns, NEW t, Kept(t, D),
           NEW new \in Seq(InsertRows), t.row_ids + Len(new) <= MaxRowId
    PROVE  Kept(insert_rows(t, new), D)
<1> DEFINE L == Len(new)
<1>1. L \in Nat
  OBVIOUS
<1>2. PICK g : Stages(t, new, g) /\ insert_rows(t, new) = g[L]
  BY <1>1, InsertStages
<1> DEFINE Ok(i) == Kept(g[i], D) /\ g[i].row_ids <= t.row_ids + i
           bad == {i \in 0 .. L : ~Ok(i)}
<1>3. bad = {}
  <2>1. SUFFICES ASSUME bad # {}
                 PROVE  FALSE
    OBVIOUS
  <2>2. PICK n \in bad : \A k \in bad : n <= k
    <3>1. bad \in SUBSET Nat
      OBVIOUS
    <3> HIDE DEF bad
    <3>2. QED
      BY <2>1, <3>1, Least
  <2>3. n \in 0 .. L /\ ~Ok(n)
    OBVIOUS
  <2>4. t.row_ids \in Nat
    BY DEF Kept, Tables
  <2>5. n # 0
    <3>1. Ok(0)
      BY <1>2, <2>4 DEF Stages
    <3> HIDE DEF Ok
    <3>2. QED
      BY <2>3, <3>1
  <2>6. n - 1 \in 0 .. L /\ n - 1 \notin bad
    <3>1. n - 1 \in 0 .. L /\ ~(n <= n - 1)
      BY <2>3, <2>5
    <3> HIDE DEF bad
    <3>2. QED
      BY <2>2, <3>1
  <2>7. Kept(g[n - 1], D) /\ g[n - 1].row_ids <= t.row_ids + (n - 1)
    BY <2>6
  <2>8. g[n] = insert_with_txn(g[n - 1], new[n]) /\ new[n] \in InsertRows
    BY <1>2, <2>3, <2>5 DEF Stages
  <2>9. g[n - 1].row_ids \in Nat
    BY <2>7 DEF Kept, Tables
  <2>10. g[n - 1].row_ids + 1 \in RowIds
    BY <2>3, <2>4, <2>5, <2>7, <2>9, RowIdFacts DEF RowIds
  <2>11. Kept(g[n], D) /\ g[n].row_ids <= g[n - 1].row_ids + 1
    BY <2>7, <2>8, <2>10, InsertKept
  <2>12. g[n].row_ids \in Nat
    BY <2>11 DEF Kept, Tables
  <2>13. g[n].row_ids <= t.row_ids + n
    BY <2>3, <2>4, <2>7, <2>9, <2>11, <2>12
  <2>14. QED
    BY <2>3, <2>11, <2>13
<1>4. QED
  BY <1>1, <1>2, <1>3

-----------------------------------------------------------------------------
(* UPDATE and DELETE.                                                      *)

\* Rows that are there, replaced by versions of the same rows or with the
\* indexes to be rebuilt.
LEMMA ReplacedFree ==
    ASSUME NEW D \in SUBSET Columns, NEW t \in Tables(D), Free(t),
           NEW ks \in SUBSET RowIds, NEW new \in [ks -> Version],
           \A k \in ks : t.rows[k] # NoRow
    PROVE  Free(Replaced(t, new))
<1> DEFINE u == Replaced(t, new)
<1>1. /\ u.row_ids = t.row_ids
      /\ \A k \in RowIds \ ks : u.rows[k] = t.rows[k] /\ u.undo[k] = t.undo[k]
  BY ReplacedIs
<1>2. \A k \in ks : ~(k > t.row_ids)
  BY DEF Free
<1> HIDE DEF u
<1>3. Free(u)
  BY <1>1, <1>2 DEF Free
<1>4. QED
  BY <1>3 DEF u

LEMMA SameTexts ==
    ASSUME NEW D \in SUBSET Columns, NEW t \in Tables(D), Agrees(t, D),
           NEW ks \in SUBSET RowIds, NEW new \in [ks -> Version],
           \A k \in ks : /\ t.rows[k] # NoRow
                        /\ \A c \in D : new[k].row[c] = t.rows[k].row[c]
    PROVE  Agrees(Replaced(t, new), D)
<1> DEFINE u == Replaced(t, new)
<1>1. /\ u.index = t.index /\ u.behind = t.behind
      /\ \A k \in RowIds : u.rows[k] = IF k \in ks THEN new[k] ELSE t.rows[k]
  BY ReplacedIs
<1> HIDE DEF u
<1>2. \A k \in RowIds : u.rows[k] # NoRow <=> t.rows[k] # NoRow
  BY <1>1, VersionFacts
<1>3. ASSUME NEW c \in D
      PROVE  Entries(u, c) = Entries(t, c)
  <2>1. {j \in RowIds : u.rows[j] # NoRow} = {j \in RowIds : t.rows[j] # NoRow}
    BY <1>2
  <2>2. \A k \in RowIds : u.rows[k].row[c] = t.rows[k].row[c]
    BY <1>1
  <2>3. QED
    BY <2>1, <2>2 DEF Entries
<1>4. Agrees(u, D)
  BY <1>1, <1>3 DEF Agrees
<1>5. QED
  BY <1>4 DEF u

LEMMA SelectedRows ==
    ASSUME NEW D \in SUBSET Columns, NEW t \in Tables(D), NEW where
    PROVE  /\ Selected(t, where) \in SUBSET RowIds
           /\ \A k \in Selected(t, where) : t.rows[k] \in Version /\ t.rows[k] # NoRow
<1>1. \A k \in RowIds : Visible(t.rows[k]) => t.rows[k] \in Version
  BY VersionFacts DEF Visible, Tables
<1>2. QED
  BY <1>1, VersionFacts DEF Selected, Seen

LEMMA RemoveKept ==
    ASSUME NEW D \in SUBSET Columns, NEW t, Kept(t, D), NEW where
    PROVE  Kept(remove_with_txn(t, where), D)
<1> DEFINE ks == Selected(t, where)
           new == [k \in ks |-> [t.rows[k] EXCEPT !.del = "open"]]
<1>1. t \in Tables(D) /\ Free(t) /\ Agrees(t, D)
  BY DEF Kept
<1>2. ks \in SUBSET RowIds /\ \A k \in ks : t.rows[k] \in Version /\ t.rows[k] # NoRow
  BY <1>1, SelectedRows
<1> HIDE DEF ks
<1>3. ASSUME NEW k \in ks
      PROVE  new[k] \in Version /\ new[k].row = t.rows[k].row
  BY <1>2 DEF Version
<1>4. new \in [ks -> Version]
  BY <1>3
<1>5. remove_with_txn(t, where) = Replaced(t, new)
  BY DEF remove_with_txn, ks
<1> HIDE DEF new
<1>6. QED
  <2>1. Replaced(t, new) \in Tables(D)
    BY <1>1, <1>2, <1>4, ReplacedIs
  <2>2. Free(Replaced(t, new))
    BY <1>1, <1>2, <1>4, ReplacedFree
  <2>3. \A k \in ks : t.rows[k] # NoRow /\ \A c \in D : new[k].row[c] = t.rows[k].row[c]
    BY <1>2, <1>3
  <2>4. Agrees(Replaced(t, new), D)
    BY <1>1, <1>2, <1>4, <2>3, SameTexts
  <2>5. QED
    BY <1>5, <2>1, <2>2, <2>4 DEF Kept

\* The values of SETs, which are none but literals.
Sets == {update_values(sets) : sets \in Updates}

LEMMA SetsHold ==
    ASSUME NEW sets \in Sets, NEW c \in DOMAIN sets, c \in Columns
    PROVE  sets[c] \in Holds(c)
<1>1. PICK s \in Updates : sets = update_values(s)
  BY DEF Sets
<1>2. sets[c] \in Assigned(c)
  BY <1>1 DEF Assigned
<1>3. QED
  BY <1>2 DEF Holds

LEMMA UpdateKept ==
    ASSUME NEW D \in SUBSET Columns, NEW t, Kept(t, D), NEW where, NEW sets \in Sets
    PROVE  Kept(update_with_txn(t, where, sets), D)
<1> DEFINE match == Selected(t, where)
           clash == {k \in match : \E c \in PrimaryKey \cap DOMAIN sets : Taken(t, c, sets[c], k)}
           done == {k \in match : \A j \in clash : k < j}
           row(k) == [c \in Columns |-> IF c \in DOMAIN sets THEN sets[c] ELSE t.rows[k].row[c]]
           new == [k \in done |-> NewVersion(row(k))]
           u == Replaced(t, new)
           v == update_with_txn(t, where, sets)
<1>1. t \in Tables(D) /\ Free(t) /\ Agrees(t, D)
  BY DEF Kept
<1>2. done \in SUBSET RowIds /\ \A k \in done : t.rows[k] \in Version /\ t.rows[k] # NoRow
  BY <1>1, SelectedRows
<1>3. v = IF clash # {} THEN [Fail(u) EXCEPT !.behind = t.behind \/ u.rows # t.rows]
          ELSE IF updates_affect_index(u, sets) THEN rebuild_indexes(u)
          ELSE u
  BY DEF update_with_txn
<1> HIDE DEF done, clash, match
<1>4. ASSUME NEW k \in done
      PROVE  row(k) \in Rows
  <2>1. t.rows[k].row \in Rows
    BY <1>2, VersionFacts
  <2>2. ASSUME NEW c \in Columns
        PROVE  row(k)[c] \in Holds(c)
    BY <2>1, SetsHold, RowFacts
  <2>3. row(k) = [c \in Columns |-> row(k)[c]]
    OBVIOUS
  <2> HIDE DEF row
  <2>4. QED
    BY <2>2, <2>3 DEF Rows
<1>5. new \in [done -> Version] /\ \A k \in done : new[k].row = row(k)
  BY <1>4 DEF NewVersion, Version
<1> HIDE DEF new
<1>6. /\ u \in Tables(D) /\ u.index = t.index /\ u.behind = t.behind
      /\ \A k \in RowIds : u.rows[k] = IF k \in done THEN new[k] ELSE t.rows[k]
  BY <1>1, <1>2, <1>5, ReplacedIs
<1>7. Free(u)
  BY <1>1, <1>2, <1>5, ReplacedFree
<1> HIDE DEF u, v
<1>8. CASE clash # {}
  <2>1. Fail(u) \in Tables(D) /\ Free(Fail(u)) /\ Fail(u).rows = u.rows /\ Fail(u).index = u.index
    BY <1>6, <1>7, FailIs DEF Free
  <2> DEFINE b == t.behind \/ u.rows # t.rows
  <2>2. b \in BOOLEAN /\ (~b => ~t.behind /\ u.rows = t.rows)
    OBVIOUS
  <2>3. v = [Fail(u) EXCEPT !.behind = b]
    BY <1>3, <1>8
  <2> HIDE DEF b
  <2>4. /\ v \in Tables(D) /\ v.behind = b /\ v.rows = u.rows /\ v.index = u.index
        /\ v.row_ids = Fail(u).row_ids /\ v.undo = Fail(u).undo
    BY <2>1, <2>2, <2>3 DEF Tables
  <2>5. Free(v)
    BY <2>1, <2>4 DEF Free
  <2>6. Agrees(v, D)
    BY <1>1, <1>6, <2>2, <2>4 DEF Agrees, Entries
  <2>7. QED
    BY <2>4, <2>5, <2>6 DEF Kept, v
<1>9. CASE clash = {} /\ updates_affect_index(u, sets)
  BY <1>3, <1>6, <1>7, <1>9, Rebuilt DEF v
<1>10. CASE clash = {} /\ ~updates_affect_index(u, sets)
  <2>1. v = u /\ DOMAIN sets \cap D = {}
    BY <1>3, <1>6, <1>10 DEF updates_affect_index, Tables
  <2>2. \A k \in done : \A c \in D : new[k].row[c] = t.rows[k].row[c]
    BY <1>5, <2>1
  <2>3. Agrees(u, D)
    BY <1>1, <1>2, <1>5, <2>2, SameTexts DEF u
  <2>4. QED
    BY <1>6, <1>7, <2>1, <2>3 DEF Kept, v
<1>11. QED
  BY <1>8, <1>9, <1>10

-----------------------------------------------------------------------------
(* The end of a transaction.                                               *)

LEMMA CommitKept ==
    ASSUME NEW D \in SUBSET Columns, NEW t, Kept(t, D)
    PROVE  Kept(Committed(t), D)
<1> DEFINE rs == [k \in RowIds |-> IF t.rows[k] = NoRow THEN NoRow
                    ELSE [t.rows[k] EXCEPT !.ins = Settle(@), !.del = Settle(@)]]
           us == [k \in RowIds |-> Untouched]
           u == Committed(t)
<1>1. t \in Tables(D) /\ Free(t) /\ Agrees(t, D)
  BY DEF Kept
<1>2. ASSUME NEW k \in RowIds
      PROVE  /\ rs[k] \in Version \cup {NoRow} /\ (rs[k] = NoRow <=> t.rows[k] = NoRow)
             /\ rs[k] # NoRow => rs[k].row = t.rows[k].row
  <2>1. CASE t.rows[k] = NoRow
    BY <2>1
  <2>2. CASE t.rows[k] # NoRow
    <3>1. t.rows[k] \in Version
      BY <1>1, <2>2 DEF Tables
    <3>2. rs[k] \in Version /\ rs[k].row = t.rows[k].row
      BY <2>2, <3>1 DEF Version, Settle
    <3>3. QED
      BY <2>2, <3>2, VersionFacts
  <2>3. QED
    BY <2>1, <2>2
<1>3. u = [t EXCEPT !.rows = rs, !.undo = us]
  BY DEF Committed
<1>4. rs \in [RowIds -> Version \cup {NoRow}]
  BY <1>2
<1>5. us \in [RowIds -> Version \cup {NoRow, Untouched}] /\ \A k \in RowIds : us[k] = Untouched
  OBVIOUS
<1> HIDE DEF rs, us, u
<1>6. /\ u \in Tables(D) /\ u.rows = rs /\ u.undo = us /\ u.row_ids = t.row_ids
      /\ u.index = t.index /\ u.behind = t.behind
  BY <1>1, <1>3, <1>4, <1>5 DEF Tables
<1>7. Free(u)
  BY <1>1, <1>2, <1>5, <1>6 DEF Free
<1>8. ASSUME NEW c \in D
      PROVE  Entries(u, c) = Entries(t, c)
  <2>1. {j \in RowIds : u.rows[j] # NoRow} = {j \in RowIds : t.rows[j] # NoRow}
    BY <1>2, <1>6
  <2>2. \A k \in {j \in RowIds : t.rows[j] # NoRow} : u.rows[k].row = t.rows[k].row
    BY <1>2, <1>6
  <2>3. QED
    BY <2>1, <2>2 DEF Entries
<1>9. Agrees(u, D)
  BY <1>1, <1>6, <1>8 DEF Agrees
<1>10. QED
  BY <1>6, <1>7, <1>9 DEF Kept, u

LEMMA RollbackKept ==
    ASSUME NEW D \in SUBSET Columns, NEW t, Kept(t, D)
    PROVE  Kept(RolledBack(t), D)
<1> DEFINE rs == [k \in RowIds |-> IF t.undo[k] = Untouched THEN t.rows[k] ELSE t.undo[k]]
           us == [k \in RowIds |-> Untouched]
           back == [t EXCEPT !.rows = rs, !.undo = us]
<1>1. t \in Tables(D) /\ Free(t)
  BY DEF Kept
<1>2. RolledBack(t) = IF \A k \in RowIds : t.undo[k] = Untouched THEN t ELSE rebuild_indexes(back)
  BY DEF RolledBack
<1>3. /\ rs \in [RowIds -> Version \cup {NoRow}]
      /\ us \in [RowIds -> Version \cup {NoRow, Untouched}]
      /\ \A k \in RowIds : /\ us[k] = Untouched
                           /\ t.undo[k] = Untouched => rs[k] = t.rows[k]
  BY <1>1 DEF Tables
<1> HIDE DEF rs, us
<1>4. back \in Tables(D) /\ back.rows = rs /\ back.undo = us /\ back.row_ids = t.row_ids
  BY <1>1, <1>3 DEF Tables
<1> HIDE DEF back
<1>5. Free(back)
  BY <1>1, <1>3, <1>4 DEF Free
<1>6. QED
  BY <1>2, <1>4, <1>5, Rebuilt

LEMMA VacuumedIs ==
    /\ Vacuumed(NoRow) = NoRow
    /\ \A v \in Version : \/ Vacuumed(v) = NoRow
                          \/ Vacuumed(v) \in Version /\ Vacuumed(v).row = v.row
<1>1. Vacuumed(NoRow) = NoRow
  <2>1. NoRow.ins # "done"
    BY VersionFacts
  <2>2. QED
    BY <2>1 DEF Vacuumed
<1>2. ASSUME NEW v \in Version
      PROVE  \/ Vacuumed(v) = NoRow
             \/ Vacuumed(v) \in Version /\ Vacuumed(v).row = v.row
  <2>1. CASE v.ins # "done"
    BY <2>1 DEF Vacuumed
  <2>2. CASE v.ins = "done" /\ v.del = "done"
    BY <2>2 DEF Vacuumed
  <2>3. CASE v.ins = "done" /\ v.del = "no"
    <3>1. Vacuumed(v) = [v EXCEPT !.ins = "frozen"]
      BY <2>3 DEF Vacuumed
    <3>2. QED
      BY <3>1 DEF Version
  <2>4. CASE v.ins = "done" /\ v.del = "open"
    BY <2>4 DEF Vacuumed
  <2>5. QED
    BY <2>1, <2>2, <2>3, <2>4, VersionFacts
<1>3. QED
  BY <1>1, <1>2

\* vacuum, which gives way to a rebuild when a row has gone.
LEMMA VacuumKept ==
    ASSUME NEW D \in SUBSET Columns, NEW t, Kept(t, D)
    PROVE  LET u == [t EXCEPT !.rows = [k \in RowIds |-> Vacuumed(t.rows[k])]]
           IN  Kept(IF \E k \in RowIds : t.rows[k] # NoRow /\ u.rows[k] = NoRow
                    THEN rebuild_indexes(u) ELSE u, D)
<1> DEFINE rs == [k \in RowIds |-> Vacuumed(t.rows[k])]
           u == [t EXCEPT !.rows = rs]
<1>1. t \in Tables(D) /\ Free(t) /\ Agrees(t, D)
  BY DEF Kept
<1>2. ASSUME NEW k \in RowIds
      PROVE  /\ rs[k] \in Version \cup {NoRow} /\ (t.rows[k] = NoRow => rs[k] = NoRow)
             /\ rs[k] # NoRow => rs[k].row = t.rows[k].row
  <2>1. CASE t.rows[k] = NoRow
    <3>1. Vacuumed(NoRow) = NoRow
      BY VacuumedIs
    <3>2. QED
      BY <2>1, <3>1
  <2>2. CASE t.rows[k] # NoRow
    <3>1. t.rows[k] \in Version
      BY <1>1, <2>2 DEF Tables
    <3>2. rs[k] = Vacuumed(t.rows[k])
      OBVIOUS
    <3> HIDE DEF rs
    <3>3. QED
      BY <2>2, <3>1, <3>2, VacuumedIs
  <2>3. QED
    BY <2>1, <2>2
<1>3. rs \in [RowIds -> Version \cup {NoRow}]
  BY <1>2
<1> HIDE DEF rs
<1>4. /\ u \in Tables(D) /\ u.rows = rs /\ u.undo = t.undo /\ u.row_ids = t.row_ids
      /\ u.index = t.index /\ u.behind = t.behind
  BY <1>1, <1>3 DEF Tables
<1> HIDE DEF u
<1>5. Free(u)
  BY <1>1, <1>2, <1>4 DEF Free
<1>6. CASE \E k \in RowIds : t.rows[k] # NoRow /\ u.rows[k] = NoRow
  BY <1>4, <1>5, <1>6, Rebuilt DEF u, rs
<1>7. CASE ~\E k \in RowIds : t.rows[k] # NoRow /\ u.rows[k] = NoRow
  <2>1. ASSUME NEW c \in D
        PROVE  Entries(u, c) = Entries(t, c)
    <3>1. {j \in RowIds : u.rows[j] # NoRow} = {j \in RowIds : t.rows[j] # NoRow}
      BY <1>2, <1>4, <1>7
    <3>2. \A k \in {j \in RowIds : t.rows[j] # NoRow} : u.rows[k].row = t.rows[k].row
      BY <1>2, <1>4, <1>7
    <3>3. QED
      BY <3>1, <3>2 DEF Entries
  <2>2. Kept(u, D)
    BY <1>1, <1>4, <1>5, <2>1 DEF Kept, Agrees
  <2>3. QED
    BY <1>7, <2>2 DEF u, rs
<1>8. QED
  BY <1>6, <1>7 DEF u, rs

-----------------------------------------------------------------------------
(* The inductive invariant.  What a statement leaves behind is a table that *)
(* is Kept; what planning needs is that no signature remembered reads as a  *)
(* strategy by index.                                                       *)

PlansScan ==
    \A where \in Wheres : \A i \in 1 .. Len(history[where]) :
        history[where][i][1] # "index_scan:"

TableOK ==
    /\ PrimaryKey \subseteq DOMAIN index /\ DOMAIN index \subseteq Columns
    /\ Kept(Table, DOMAIN index)

PlanOK ==
    /\ block \in BOOLEAN
    /\ history \in [Wheres -> Seq(Seq(StepTypes))]
    /\ PlansScan

IInv == TableOK /\ PlanOK /\ AnswersSound

LEMMA TableFields ==
    /\ Table.rows = rows /\ Table.row_ids = row_ids /\ Table.index = index
    /\ Table.undo = undo /\ Table.behind = behind /\ Table.failed = FALSE
BY DEF Table

\* A table that is kept may be installed.
LEMMA Installed ==
    ASSUME NEW D \in SUBSET Columns, PrimaryKey \subseteq D,
           NEW t, Kept(t, D), Install(t)
    PROVE  TableOK'
<1>1. t \in Tables(D) /\ Free(t) /\ Agrees(t, D)
  BY DEF Kept
<1>2. /\ rows' = t.rows /\ row_ids' = t.row_ids /\ index' = t.index /\ undo' = t.undo
      /\ behind' = t.behind
  BY DEF Install
<1>3. DOMAIN index' = D
  BY <1>1, <1>2 DEF Tables
<1> DEFINE u == Table'
<1>4. /\ u = [rows |-> t.rows, row_ids |-> t.row_ids, index |-> t.index, undo |-> t.undo,
              behind |-> t.behind, failed |-> FALSE]
  BY <1>2 DEF Table
<1> HIDE DEF u
<1>5. u \in Tables(D) /\ u.rows = t.rows /\ u.row_ids = t.row_ids /\ u.undo = t.undo
      /\ u.index = t.index /\ u.behind = t.behind
  BY <1>1, <1>4 DEF Tables
<1>6. Kept(u, D)
  BY <1>1, <1>5 DEF Kept, Free, Agrees, Entries
<1>7. Kept(Table', D)
  BY <1>6 DEF u
<1>8. QED
  BY <1>3, <1>7 DEF TableOK

\* A statement leaves the table of its last call, committed if it is alone.
LEMMA StatementKeeps ==
    ASSUME IInv, NEW t, Kept(t, DOMAIN index), Statement(t)
    PROVE  IInv'
<1>1. DOMAIN index \in SUBSET Columns /\ PrimaryKey \subseteq DOMAIN index
  BY DEF IInv, TableOK
<1>2. Kept(IF block THEN t ELSE Committed(t), DOMAIN index)
  BY <1>1, CommitKept
<1>3. TableOK'
  BY <1>1, <1>2, Installed DEF Statement
<1>4. PlanOK'
  BY DEF Statement, IInv, PlanOK, PlansScan
<1>5. AnswersSound'
  BY DEF Statement, AnswersSound, Answered, NoAnswer
<1>6. QED
  BY <1>3, <1>4, <1>5 DEF IInv

-----------------------------------------------------------------------------
(* Planning.                                                               *)

LEMMA Pipeline ==
    ASSUME NEW where, NEW strategy
    PROVE  LET p == build_pipeline(where, strategy)
           IN  /\ Len(p) = (IF where = NoExpr THEN 1 ELSE 2)
               /\ p[1].type \in {"scan", "indexScan"}
               /\ p[1].type = "indexScan" => /\ strategy[1] = "index_scan:"
                                             /\ eq_value(where, strategy[2]) # NoText
               /\ where # NoExpr => p[2].type = "filter" /\ p[2].filter = where
<1> DEFINE scan == [type |-> "scan"]
           byIndex == [type |-> "indexScan", column |-> strategy[2],
                       value |-> index_value(where, strategy[2])]
           source == IF strategy[1] # "index_scan:" THEN scan
                     ELSE IF eq_value(where, strategy[2]) = NoText THEN scan
                     ELSE byIndex
           filter == [type |-> "filter", filter |-> where]
           p == build_pipeline(where, strategy)
<1>1. p = IF where = NoExpr THEN <<source>> ELSE <<source, filter>>
  BY DEF build_pipeline
<1>2. scan.type = "scan" /\ byIndex.type = "indexScan"
  OBVIOUS
<1>3. filter.type = "filter" /\ filter.filter = where
  OBVIOUS
<1> HIDE DEF scan, byIndex, filter
<1>4. /\ source.type \in {"scan", "indexScan"}
      /\ source.type = "indexScan" => /\ strategy[1] = "index_scan:"
                                      /\ eq_value(where, strategy[2]) # NoText
  BY <1>2
<1> HIDE DEF source, p
<1>5. QED
  BY <1>1, <1>3, <1>4 DEF p

\* The planner settles for an index only on a column that has one, and only
\* of a statement with a condition.
LEMMA Chosen ==
    ASSUME IInv, NEW where \in Wheres,
           choose_initial_strategy(where)[1] = "index_scan:"
    PROVE  where # NoExpr /\ choose_initial_strategy(where)[2] \in DOMAIN index
<1> DEFINE cols == IF where = NoExpr THEN <<>> ELSE where_columns(where)
           indexed == {i \in 1 .. Len(cols) : has_index(cols[i])}
           i == CHOOSE j \in indexed : \A k \in indexed : j <= k
<1>1. choose_initial_strategy(where) = IF indexed = {} THEN FullScan ELSE IndexScan(cols[i])
  BY DEF choose_initial_strategy
<1>2. Len(cols) \in Nat
  <2>1. CASE where = NoExpr
    BY <2>1
  <2>2. CASE where # NoExpr
    BY <2>2, QueryAssumption
  <2>3. QED
    BY <2>1, <2>2
<1>3. indexed \in SUBSET Nat
  BY <1>2
<1> HIDE DEF indexed
<1>4. FullScan[1] # "index_scan:"
  BY DEF FullScan
<1>5. indexed # {}
  BY <1>1, <1>4
<1>6. i \in indexed
  <2>1. \E j \in indexed : \A k \in indexed : j <= k
    BY <1>3, <1>5, Least
  <2>2. QED
    BY <2>1
<1> HIDE DEF i
<1>7. has_index(cols[i])
  BY <1>6 DEF indexed
<1>8. IndexScan(cols[i])[2] = cols[i]
  BY DEF IndexScan
<1>9. where # NoExpr
  <2>1. where = NoExpr => indexed = {}
    BY DEF indexed
  <2>2. QED
    BY <1>5, <2>1
<1>10. QED
  BY <1>1, <1>5, <1>7, <1>8, <1>9 DEF has_index

\* Of a plan from memory the source is a scan.
LEMMA Remembers ==
    ASSUME IInv, NEW where \in Wheres, FromMemory(where), NEW strategy \in Strategies(where)
    PROVE  strategy[1] # "index_scan:"
<1>1. Garbage[1] # "index_scan:"
  BY DEF Garbage
<1>2. strategy = Garbage \/ \E i \in 1 .. Len(history[where]) : strategy = history[where][i]
  BY DEF Strategies
<1>3. QED
  BY <1>1, <1>2 DEF IInv, PlanOK, PlansScan

\* What comes out of a pipeline is what the condition selects; by a scan, all
\* of it.
LEMMA Answer ==
    ASSUME IInv, NEW where \in Wheres, NEW strategy \in Strategies(where)
    PROVE  LET p == build_pipeline(where, strategy)
           IN  /\ execute_pipeline(p) \subseteq Asked(where)
               /\ p[1].type = "scan" => execute_pipeline(p) = Asked(where)
               /\ FromMemory(where) => p[1].type = "scan"
<1> DEFINE p == build_pipeline(where, strategy)
           found == IF p[1].type = "scan" THEN Seen(Table)
                    ELSE index_lookup(p[1].column, p[1].value)
<1>1. /\ Len(p) = (IF where = NoExpr THEN 1 ELSE 2)
      /\ p[1].type \in {"scan", "indexScan"}
      /\ p[1].type = "indexScan" => strategy[1] = "index_scan:"
      /\ where # NoExpr => p[2].filter = where
  BY Pipeline
<1> HIDE DEF p
<1>2. execute_pipeline(p) = IF Len(p) = 1 THEN found
                            ELSE {k \in found : Matches(p[2].filter, rows[k].row)}
  BY DEF execute_pipeline
<1>3. Asked(where) = {k \in Seen(Table) : Matches(where, rows[k].row)}
  BY TableFields DEF Asked, Selected
<1>4. found \subseteq Seen(Table)
  BY TableFields DEF index_lookup, Seen
<1>5. FromMemory(where) => p[1].type = "scan"
  BY <1>1, Remembers
<1>6. where = NoExpr => p[1].type = "scan"
  <2>1. ASSUME where = NoExpr, ~FromMemory(where)
        PROVE  strategy[1] # "index_scan:"
    <3>1. strategy = choose_initial_strategy(where)
      BY <2>1 DEF Strategies
    <3>2. QED
      BY <2>1, <3>1, Chosen
  <2>2. QED
    BY <1>1, <1>5, <2>1
<1>7. CASE where = NoExpr
  <2>1. Asked(where) = Seen(Table)
    BY <1>3, <1>7 DEF Matches
  <2>2. execute_pipeline(p) = Seen(Table)
    BY <1>1, <1>2, <1>6, <1>7
  <2>3. QED
    BY <1>5, <2>1, <2>2 DEF p
<1>8. CASE where # NoExpr
  <2>1. execute_pipeline(p) = {k \in found : Matches(where, rows[k].row)}
    BY <1>1, <1>2, <1>8
  <2>2. p[1].type = "scan" => found = Seen(Table)
    OBVIOUS
  <2> HIDE DEF found
  <2>3. QED
    BY <1>3, <1>4, <1>5, <2>1, <2>2 DEF p
<1>9. QED
  BY <1>7, <1>8

-----------------------------------------------------------------------------
(* Initially, and action by action.                                        *)

LEMMA InitInv == Init => IInv
<1> SUFFICES ASSUME Init
             PROVE  IInv
  OBVIOUS
<1>1. DOMAIN index = PrimaryKey /\ PrimaryKey \subseteq Columns
  BY QueryAssumption DEF Init
<1> DEFINE t == Table
<1>2. t = [rows |-> [k \in RowIds |-> NoRow], row_ids |-> 0,
           index |-> [c \in PrimaryKey |-> {}], undo |-> [k \in RowIds |-> Untouched],
           behind |-> FALSE, failed |-> FALSE]
  BY DEF Init, Table
<1> HIDE DEF t
<1>3. t \in Tables(PrimaryKey)
  BY <1>2, RowIdFacts DEF Tables
<1>4. Free(t)
  BY <1>2 DEF Free
<1>5. Agrees(t, PrimaryKey)
  BY <1>2 DEF Agrees, Entries
<1>6. TableOK
  BY <1>1, <1>3, <1>4, <1>5 DEF TableOK, Kept, t
<1>7. PlanOK
  <2>1. ASSUME NEW w \in Wheres
        PROVE  history[w] = <<>> /\ Len(history[w]) = 0
    BY DEF Init
  <2>2. history \in [Wheres -> Seq(Seq(StepTypes))]
    <3>1. <<>> \in Seq(Seq(StepTypes))
      OBVIOUS
    <3>2. QED
      BY <3>1 DEF Init
  <2>3. PlansScan
    BY <2>1 DEF PlansScan
  <2>4. QED
    BY <2>2, <2>3 DEF Init, PlanOK
<1>8. AnswersSound
  BY DEF Init, AnswersSound, Answered, NoAnswer
<1>9. QED
  BY <1>6, <1>7, <1>8 DEF IInv

LEMMA InsertStep == ASSUME IInv, NEW new \in Inserts, Insert(new) PROVE IInv'
<1>1. Kept(Table, DOMAIN index) /\ DOMAIN index \in SUBSET Columns
  BY DEF IInv, TableOK
<1>2. new \in Seq(InsertRows)
  <2>1. {new[i] : i \in DOMAIN new} \subseteq InsertRows
    BY DEF InsertRows
  <2>2. new \in Seq({new[i] : i \in DOMAIN new})
    BY QueryAssumption
  <2>3. QED
    BY <2>1, <2>2
<1>3. Table.row_ids + Len(new) <= MaxRowId
  BY TableFields DEF Insert
<1>4. Kept(insert_rows(Table, new), DOMAIN index)
  BY <1>1, <1>2, <1>3, InsertRowsKept
<1>5. QED
  BY <1>4, StatementKeeps DEF Insert

LEMMA UpdateStep ==
    ASSUME IInv, NEW where \in Wheres, NEW sets \in Updates, Update(where, sets)
    PROVE  IInv'
<1>1. Kept(Table, DOMAIN index) /\ DOMAIN index \in SUBSET Columns
  BY DEF IInv, TableOK
<1>2. update_values(sets) \in Sets
  BY DEF Sets
<1>3. Kept(update_with_txn(Table, where, update_values(sets)), DOMAIN index)
  BY <1>1, <1>2, UpdateKept
<1>4. QED
  BY <1>3, StatementKeeps DEF Update

LEMMA DeleteStep == ASSUME IInv, NEW where \in Wheres, Delete(where) PROVE IInv'
<1>1. Kept(remove_with_txn(Table, where), DOMAIN index)
  BY RemoveKept DEF IInv, TableOK
<1>2. QED
  BY <1>1, StatementKeeps DEF Delete

\* The table stays as it is.
LEMMA SameTable ==
    ASSUME UNCHANGED tableVars
    PROVE  Table' = Table /\ (TableOK => TableOK')
<1>1. Table' = Table /\ index' = index
  BY DEF tableVars, Table
<1>2. TableOK => TableOK'
  BY <1>1 DEF TableOK
<1>3. QED
  BY <1>1, <1>2

LEMMA SelectStep == ASSUME IInv, NEW where \in Wheres, Select(where) PROVE IInv'
<1>1. PICK strategy \in Strategies(where) :
        LET p == build_pipeline(where, strategy)
        IN  /\ answer' = [source |-> IF FromMemory(where) THEN "from_memory" ELSE "new_plan",
                          where |-> where, plan |-> pipeline_signature(p),
                          rows |-> execute_pipeline(p)]
            /\ \/ history' = history
               \/ history' = [history EXCEPT ![where] = Append(@, pipeline_signature(p))]
            /\ UNCHANGED <<tableVars, block>>
  BY DEF Select
<1> DEFINE p == build_pipeline(where, strategy)
           sig == pipeline_signature(p)
<1>2. TableOK' /\ Table' = Table
  BY <1>1, SameTable DEF IInv
<1>3. /\ Len(p) \in {1, 2} /\ p[1].type \in {"scan", "indexScan"}
      /\ Len(p) = 2 => p[2].type = "filter"
  BY Pipeline
<1> HIDE DEF p
<1>4. sig = [i \in 1 .. Len(p) |-> p[i].type]
  BY DEF pipeline_signature
<1>5. sig[1] = p[1].type
  BY <1>3, <1>4
<1>6. sig \in Seq(StepTypes)
  <2>1. ASSUME NEW i \in 1 .. Len(p)
        PROVE  p[i].type \in StepTypes
    <3>1. CASE Len(p) = 1
      BY <1>3, <3>1 DEF StepTypes
    <3>2. CASE Len(p) = 2
      <4>1. i = 1 \/ i = 2
        BY <3>2
      <4>2. QED
        BY <1>3, <3>2, <4>1 DEF StepTypes
    <3>3. QED
      BY <1>3, <3>1, <3>2
  <2>2. PICK n \in Nat : n = Len(p)
    BY <1>3
  <2>3. sig = [i \in 1 .. n |-> p[i].type] /\ \A i \in 1 .. n : p[i].type \in StepTypes
    BY <1>4, <2>1, <2>2
  <2> HIDE DEF sig
  <2>4. sig \in [1 .. n -> StepTypes]
    BY <2>3
  <2>5. QED
    BY <2>4
<1> HIDE DEF sig
<1>7. PlanOK'
  <2>1. history \in [Wheres -> Seq(Seq(StepTypes))] /\ PlansScan /\ block' \in BOOLEAN
    BY <1>1 DEF IInv, PlanOK
  <2>2. CASE history' = history
    BY <2>1, <2>2 DEF PlanOK, PlansScan
  <2>3. CASE history' = [history EXCEPT ![where] = Append(@, sig)]
    <3>1. history[where] \in Seq(Seq(StepTypes)) /\ Append(history[where], sig) \in Seq(Seq(StepTypes))
      BY <1>6, <2>1
    <3>2. history' \in [Wheres -> Seq(Seq(StepTypes))]
      BY <2>1, <2>3, <3>1
    <3>3. ASSUME NEW w \in Wheres, NEW i \in 1 .. Len(history'[w])
          PROVE  history'[w][i][1] # "index_scan:"
      <4>1. CASE w # where
        <5>1. history'[w] = history[w]
          BY <2>1, <2>3, <4>1
        <5>2. QED
          BY <2>1, <5>1 DEF PlansScan
      <4>2. CASE w = where
        <5>1. history'[w] = Append(history[where], sig)
          BY <2>1, <2>3, <4>2
        <5>2. history'[w][i] = sig \/ (i \in 1 .. Len(history[where]) /\ history'[w][i] = history[where][i])
          BY <1>6, <3>1, <5>1
        <5>3. sig[1] # "index_scan:"
          BY <1>3, <1>5
        <5>4. QED
          BY <2>1, <5>2, <5>3 DEF PlansScan
      <4>3. QED
        BY <4>1, <4>2
    <3>4. QED
      BY <2>1, <3>2, <3>3 DEF PlanOK, PlansScan
  <2>4. QED
    BY <1>1, <2>2, <2>3 DEF sig, p
<1>8. AnswersSound'
  <2>1. /\ answer'.where = where /\ answer'.plan = sig /\ answer'.rows = execute_pipeline(p)
        /\ answer'.source = "from_memory" => FromMemory(where)
    BY <1>1 DEF sig, p
  <2>2. Selected(Table', where) = Asked(where)
    BY <1>2 DEF Asked
  <2>3. /\ execute_pipeline(p) \subseteq Asked(where)
        /\ p[1].type = "scan" => execute_pipeline(p) = Asked(where)
        /\ FromMemory(where) => p[1].type = "scan"
    BY Answer DEF p
  <2>4. QED
    BY <1>5, <2>1, <2>2, <2>3 DEF AnswersSound, Asked
<1>9. QED
  BY <1>2, <1>7, <1>8 DEF IInv

LEMMA CreateIndexStep == ASSUME IInv, NEW c \in WithIndex, create_index(c) PROVE IInv'
<1> DEFINE D == DOMAIN index \cup {c}
           idx == [d \in D |-> IF d = c THEN Entries(Table, c) ELSE index[d]]
           t == [rows |-> rows, row_ids |-> row_ids, index |-> idx, undo |-> undo,
                 behind |-> behind, failed |-> FALSE]
<1>1. /\ Table \in Tables(DOMAIN index) /\ Free(Table) /\ Agrees(Table, DOMAIN index)
      /\ PrimaryKey \subseteq DOMAIN index /\ DOMAIN index \subseteq Columns
  BY DEF IInv, TableOK, Kept
<1>2. D \in SUBSET Columns /\ PrimaryKey \subseteq D /\ c \in Columns
  BY <1>1, QueryAssumption
<1>3. /\ rows \in [RowIds -> Version \cup {NoRow}] /\ row_ids \in 0 .. MaxRowId
      /\ index \in [DOMAIN index -> SUBSET (Texts \X RowIds)]
      /\ undo \in [RowIds -> Version \cup {NoRow, Untouched}] /\ behind \in BOOLEAN
  BY <1>1, TableFields DEF Tables
<1>4. idx \in [D -> SUBSET (Texts \X RowIds)]
  <2>1. Entries(Table, c) \in SUBSET (Texts \X RowIds)
    BY <1>2, <1>3, TableFields, EntriesType
  <2>2. QED
    BY <1>3, <2>1
<1>5. \A d \in D : idx[d] = IF d = c THEN Entries(Table, c) ELSE index[d]
  OBVIOUS
<1>6. Install(t)
  BY DEF Install, create_index
<1> HIDE DEF idx
<1>7. /\ t \in Tables(D) /\ t.rows = rows /\ t.row_ids = row_ids /\ t.undo = undo
      /\ t.index = idx /\ t.behind = behind
  BY <1>3, <1>4 DEF Tables
<1> HIDE DEF t
<1>8. Free(t)
  BY <1>1, <1>7, TableFields DEF Free
<1>9. Agrees(t, D)
  <2>1. \A d \in D : Entries(t, d) = Entries(Table, d)
    BY <1>7, TableFields DEF Entries
  <2>2. ~behind => \A d \in DOMAIN index : index[d] = Entries(Table, d)
    BY <1>1, TableFields DEF Agrees
  <2> HIDE DEF D
  <2>3. \A d \in D : d # c => d \in DOMAIN index
    BY DEF D
  <2>4. QED
    BY <1>5, <1>7, <2>1, <2>2, <2>3 DEF Agrees
<1>10. TableOK'
  BY <1>2, <1>6, <1>7, <1>8, <1>9, Installed DEF Kept
<1>11. PlanOK' /\ AnswersSound'
  BY DEF create_index, IInv, PlanOK, PlansScan, AnswersSound, Answered, NoAnswer
<1>12. QED
  BY <1>10, <1>11 DEF IInv

LEMMA BeginStep == ASSUME IInv, Begin PROVE IInv'
<1>1. TableOK'
  BY SameTable DEF Begin, IInv
<1>2. PlanOK' /\ AnswersSound'
  BY DEF Begin, IInv, PlanOK, PlansScan, AnswersSound, Answered, NoAnswer
<1>3. QED
  BY <1>1, <1>2 DEF IInv

LEMMA EndStep == ASSUME IInv, Commit \/ Rollback PROVE IInv'
<1>1. /\ Kept(Table, DOMAIN index) /\ DOMAIN index \in SUBSET Columns
      /\ PrimaryKey \subseteq DOMAIN index
  BY DEF IInv, TableOK
<1>2. CASE Commit
  <2>1. TableOK'
    BY <1>1, <1>2, CommitKept, Installed DEF Commit
  <2>2. PlanOK' /\ AnswersSound'
    BY <1>2 DEF Commit, IInv, PlanOK, PlansScan, AnswersSound, Answered, NoAnswer
  <2>3. QED
    BY <2>1, <2>2 DEF IInv
<1>3. CASE Rollback
  <2>1. TableOK'
    BY <1>1, <1>3, RollbackKept, Installed DEF Rollback
  <2>2. PlanOK' /\ AnswersSound'
    BY <1>3 DEF Rollback, IInv, PlanOK, PlansScan, AnswersSound, Answered, NoAnswer
  <2>3. QED
    BY <2>1, <2>2 DEF IInv
<1>4. QED
  BY <1>2, <1>3

LEMMA VacuumStep == ASSUME IInv, Vacuum PROVE IInv'
<1> DEFINE u == [Table EXCEPT !.rows = [k \in RowIds |-> Vacuumed(Table.rows[k])]]
           t == IF \E k \in RowIds : Table.rows[k] # NoRow /\ u.rows[k] = NoRow
                THEN rebuild_indexes(u) ELSE u
<1>1. /\ Kept(Table, DOMAIN index) /\ DOMAIN index \in SUBSET Columns
      /\ PrimaryKey \subseteq DOMAIN index
  BY DEF IInv, TableOK
<1>2. Kept(t, DOMAIN index)
  BY <1>1, VacuumKept
<1>3. Install(t)
  BY TableFields DEF Vacuum
<1> HIDE DEF t
<1>4. TableOK'
  BY <1>1, <1>2, <1>3, Installed
<1>5. PlanOK' /\ AnswersSound'
  BY DEF Vacuum, IInv, PlanOK, PlansScan, AnswersSound, Answered, NoAnswer
<1>6. QED
  BY <1>4, <1>5 DEF IInv

LEMMA NextInv == IInv /\ [Next]_vars => IInv'
<1> SUFFICES ASSUME IInv, [Next]_vars
             PROVE  IInv'
  OBVIOUS
<1>1. CASE \E new \in Inserts : Insert(new)
  BY <1>1, InsertStep
<1>2. CASE \E where \in Wheres, sets \in Updates : Update(where, sets)
  BY <1>2, UpdateStep
<1>3. CASE \E where \in Wheres : Delete(where) \/ Select(where)
  BY <1>3, DeleteStep, SelectStep
<1>4. CASE \E c \in WithIndex : create_index(c)
  BY <1>4, CreateIndexStep
<1>5. CASE Begin
  BY <1>5, BeginStep
<1>6. CASE Commit \/ Rollback
  BY <1>6, EndStep
<1>7. CASE Vacuum
  BY <1>7, VacuumStep
<1>8. CASE UNCHANGED vars
  <2>1. TableOK' /\ Table' = Table
    BY <1>8, SameTable DEF IInv, vars, tableVars
  <2>2. PlanOK' /\ AnswersSound'
    BY <1>8, <2>1 DEF vars, IInv, PlanOK, PlansScan, AnswersSound, Answered, Asked
  <2>3. QED
    BY <2>1, <2>2 DEF IInv
<1>9. QED
  BY <1>1, <1>2, <1>3, <1>4, <1>5, <1>6, <1>7, <1>8 DEF Next

-----------------------------------------------------------------------------
(* The theorems.                                                           *)

\* Whatever statements run, in blocks or alone, refused or not, with
\* rollbacks, vacuums and new indexes between them, the table, its indexes,
\* the undo records and what the planner remembers stay of their types, and
\* the invariant is kept.
THEOREM Inductive == Spec => []IInv
<1>1. QED
  BY InitInv, NextInv, PTL DEF Spec

\* Every row is a version of values its columns can hold, a PRIMARY KEY column
\* has its index, and only signatures are remembered.
THEOREM TypeCorrect == Spec => []TypeOK
<1>1. IInv => TypeOK
  <2> SUFFICES ASSUME IInv
               PROVE  TypeOK
    OBVIOUS
  <2>1. Table \in Tables(DOMAIN index)
    BY DEF IInv, TableOK, Kept
  <2>2. /\ rows \in [RowIds -> Version \cup {NoRow}] /\ row_ids \in 0 .. MaxRowId
        /\ index \in [DOMAIN index -> SUBSET (Texts \X RowIds)]
        /\ undo \in [RowIds -> Version \cup {NoRow, Untouched}] /\ behind \in BOOLEAN
    BY <2>1, TableFields DEF Tables
  <2>3. QED
    BY <2>2 DEF TypeOK, IInv, TableOK, PlanOK
<1>2. QED
  BY <1>1, Inductive, PTL

\* An index lists exactly the rows the table holds, under the texts of their
\* present values: insert adds one entry, delete none, update and vacuum
\* rebuild only where they must, and it is enough.
THEOREM IndexesCorrect == Spec => []IndexAgrees
<1>1. IInv => IndexAgrees
  BY TableFields DEF IInv, TableOK, Kept, Agrees, IndexAgrees
<1>2. QED
  BY <1>1, Inductive, PTL

\* No SELECT returns a row its WHERE clause rejects; one answered by a scan,
\* or planned from memory through the dangling pointer, misses none.
THEOREM AnswersCorrect == Spec => []AnswersSound
<1>1. IInv => AnswersSound
  BY DEF IInv
<1>2. QED
  BY <1>1, Inductive, PTL
=============================================================================
