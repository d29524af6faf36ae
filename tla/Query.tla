------------------------------- MODULE Query -------------------------------
(***************************************************************************)
(* From a parsed statement to its answer: AIPlanner and PipelineExecutor   *)
(* (ai/planner.cpp, ai/executor.cpp), the part of WorkloadMemory the       *)
(* planner asks (ai/memory.cpp), and the indexes of storage/engine.cpp     *)
(* that insert, update, undo and vacuum keep up to date.                   *)
(*                                                                         *)
(* One session uses one table.  Store models xids and visibility; here a   *)
(* version only says whether its inserter and its deleter have committed   *)
(* ("done"), are the open transaction ("open"), or were frozen by vacuum.  *)
(* A statement outside a block commits by itself, also when it has failed: *)
(* execute catches the exception and the server commits after it.          *)
(*                                                                         *)
(* A query text is planned from memory once it has been run twice.  The    *)
(* planner then reads the strategy through a pointer into a map that died  *)
(* with get_best_strategy: what it finds is a recorded signature or        *)
(* Garbage, the bytes the allocator left there.                            *)
(***************************************************************************)
EXTENDS Integers, Sequences, FiniteSets, Expressions

CONSTANTS MaxRowId,      \* bound on the inserts
          ColumnType,    \* column -> "INTEGER", "DOUBLE", "BOOLEAN" or "TEXT"
          PrimaryKey,    \* the PRIMARY KEY columns, indexed by create_table
          NotNull,       \* the columns without NULL and without DEFAULT
          Inserts,       \* the INSERT statements: sequences of partial rows
          Updates,       \* the SET clauses: functions from columns to expressions
          Wheres,        \* the WHERE clauses, with NoExpr
          MaxHistory,    \* bound on the executions remembered
          WithIndex,     \* columns create_index may be called for
          eval(_, _),          \* eval_expression
          where_columns(_),    \* extract_where_columns
          eq_value(_, _)       \* extract_eq_value

VARIABLES rows,      \* data_: rowid -> version or NoRow
          row_ids,   \* row_ids_: the last rowid handed out
          index,     \* indexes_: column -> pairs of a text and a rowid
          undo,      \* undo records: the version each row had at first
          behind,    \* has an UPDATE thrown since the indexes were rebuilt?
          block,     \* is a transaction block open?
          history,   \* WorkloadMemory::records_: query -> signatures
          answer     \* what the SELECT just run returned, or NoAnswer

tableVars == <<rows, row_ids, index, undo, behind>>
vars == <<rows, row_ids, index, undo, behind, block, history, answer>>

Columns == DOMAIN ColumnType
RowIds == 1 .. MaxRowId
NoRow == [ins |-> "none"]
Untouched == [ins |-> "untouched"]
NoAnswer == [source |-> "none"]

\* The rows a filter keeps; a statement without WHERE keeps all.
Matches(where, row) == where = NoExpr \/ IsTrue(eval(where, row))

\* Of an UPDATE only the literals are kept.
update_values(sets) ==
    [c \in {d \in DOMAIN sets : sets[d].type = "LITERAL"} |-> sets[c].literal]

\* The values a column can hold: NULL, a key made from a rowid, the converted
\* values of INSERTs, and the literals of UPDATEs as they are.
Inserted(c) ==
    {coerce(ColumnType[c], row[c]) :
       row \in {r \in UNION {{new[i] : i \in DOMAIN new} : new \in Inserts} :
                  c \in DOMAIN r}} \ {Refused}
Assigned(c) ==
    {update_values(sets)[c] : sets \in {s \in Updates : c \in DOMAIN update_values(s)}}
Holds(c) == {Null} \cup {IntV(k) : k \in RowIds} \cup Inserted(c) \cup Assigned(c)
Rows == {row \in [Columns -> UNION {Holds(c) : c \in Columns}] :
           \A c \in Columns : row[c] \in Holds(c)}

\* Keys and indexes are on columns of the table; the rows of an INSERT and the
\* columns of a WHERE clause come in sequences.
ASSUME QueryAssumption ==
    /\ MaxRowId \in Nat
    /\ PrimaryKey \subseteq Columns /\ WithIndex \subseteq Columns
    /\ \A new \in Inserts : new \in Seq({new[i] : i \in DOMAIN new})
    /\ \A where \in Wheres \ {NoExpr} : where_columns(where) \in Seq(STRING)

\* The whole table as one value, which the calls of a statement hand on.
Table == [rows |-> rows, row_ids |-> row_ids, index |-> index, undo |-> undo,
          behind |-> behind, failed |-> FALSE]
Install(t) ==
    /\ rows' = t.rows
    /\ row_ids' = t.row_ids
    /\ index' = t.index
    /\ undo' = t.undo
    /\ behind' = t.behind

\* check_tuple_visibility, for the only session.
Visible(version) == version.ins \notin {"none", "untouched"} /\ version.del = "no"
Seen(t) == {k \in RowIds : Visible(t.rows[k])}

-----------------------------------------------------------------------------
(* Indexes.  They list rowids under the text of the column's value.        *)

Entries(t, c) ==
    {<<value_to_string(t.rows[k].row[c]), k>> :
        k \in {j \in RowIds : t.rows[j] # NoRow}}

rebuild_indexes(t) ==
    [t EXCEPT !.index = [c \in DOMAIN t.index |-> Entries(t, c)], !.behind = FALSE]

update_indexes(t, k) ==
    [t EXCEPT !.index = [c \in DOMAIN t.index |->
        @[c] \cup {<<value_to_string(t.rows[k].row[c]), k>>}]]

updates_affect_index(t, sets) == DOMAIN sets \cap DOMAIN t.index # {}

has_index(c) == c \in DOMAIN index

\* index_lookup_with_snapshot: the lookup renders its argument once more.
index_lookup(c, v) ==
    {k \in RowIds : <<value_to_string(v), k>> \in index[c] /\ Visible(rows[k])}

-----------------------------------------------------------------------------
(* The calls of the executor.                                              *)

Fail(t) == [t EXCEPT !.failed = TRUE]
Saved(t, ks) ==
    [t EXCEPT !.undo = [k \in RowIds |->
        IF k \in ks /\ t.undo[k] = Untouched THEN t.rows[k] ELSE t.undo[k]]]
Replaced(t, new) ==
    [Saved(t, DOMAIN new) EXCEPT !.rows = [k \in RowIds |->
        IF k \in DOMAIN new THEN new[k] ELSE t.rows[k]]]
NewVersion(row) == [ins |-> "open", del |-> "no", row |-> row]

\* validate: the columns the statement names are converted, a missing integer
\* key is the next rowid, and nothing else may be missing if it is NOT NULL.
Stored(t, row) ==
    [c \in Columns |->
       IF c \in DOMAIN row THEN coerce(ColumnType[c], row[c])
       ELSE IF c \in PrimaryKey /\ ColumnType[c] = "INTEGER" THEN IntV(t.row_ids + 1)
       ELSE IF c \in NotNull THEN Refused
       ELSE Null]

Taken(t, c, v, but) == \E k \in Seen(t) \ {but} : t.rows[k].row[c] = v

\* insert_with_txn: a refused key has spent the rowid.
insert_with_txn(t, row) ==
    LET k == t.row_ids + 1
        full == Stored(t, row)
        spent == [t EXCEPT !.row_ids = k]
    IN  IF t.failed THEN t
        ELSE IF \E c \in Columns : full[c] = Refused THEN Fail(t)
        ELSE IF \E c \in PrimaryKey : Taken(t, c, full[c], k) THEN Fail(spent)
        ELSE update_indexes(Replaced(spent, [j \in {k} |-> NewVersion(full)]), k)

insert_rows(t, new) ==
    LET after[i \in 0 .. Len(new)] ==
            IF i = 0 THEN t ELSE insert_with_txn(after[i - 1], new[i])
    IN  after[Len(new)]

\* The rows a condition selects.
Selected(t, where) == {k \in Seen(t) : Matches(where, t.rows[k].row)}

\* update_with_txn goes through the rows in the order of their ids, up to the
\* first whose new key is taken in the table as it was before the statement.
\* The exception leaves before the indexes are rebuilt.
update_with_txn(t, where, sets) ==
    LET match == Selected(t, where)
        clash == {k \in match : \E c \in PrimaryKey \cap DOMAIN sets : Taken(t, c, sets[c], k)}
        done == {k \in match : \A j \in clash : k < j}
        u == Replaced(t, [k \in done |-> NewVersion(
               [c \in Columns |-> IF c \in DOMAIN sets THEN sets[c] ELSE t.rows[k].row[c]])])
    IN  IF clash # {} THEN [Fail(u) EXCEPT !.behind = t.behind \/ u.rows # t.rows]
        ELSE IF updates_affect_index(u, sets) THEN rebuild_indexes(u)
        ELSE u

\* remove_with_txn leaves a tombstone, and the index as it is.
remove_with_txn(t, where) ==
    Replaced(t, [k \in Selected(t, where) |-> [t.rows[k] EXCEPT !.del = "open"]])

\* Commit: what was open is done, and the undo records are dropped.
Settle(x) == IF x = "open" THEN "done" ELSE x
Committed(t) ==
    [t EXCEPT
       !.rows = [k \in RowIds |->
                   IF t.rows[k] = NoRow THEN NoRow
                   ELSE [t.rows[k] EXCEPT !.ins = Settle(@), !.del = Settle(@)]],
       !.undo = [k \in RowIds |-> Untouched]]

\* apply_undo, after which the indexes are rebuilt.
RolledBack_StaleIndex(t) ==
    [t EXCEPT !.rows = [k \in RowIds |->
                          IF t.undo[k] = Untouched THEN t.rows[k] ELSE t.undo[k]],
              !.undo = [k \in RowIds |-> Untouched]]
RolledBack(t) ==
    LET back == [t EXCEPT
                   !.rows = [k \in RowIds |->
                               IF t.undo[k] = Untouched THEN t.rows[k] ELSE t.undo[k]],
                   !.undo = [k \in RowIds |-> Untouched]]
    IN  IF \A k \in RowIds : t.undo[k] = Untouched THEN t ELSE rebuild_indexes(back)

-----------------------------------------------------------------------------
(* The planner.  A strategy and a signature are sequences of words.        *)

IndexScan(c) == <<"index_scan:", c>>
FullScan == <<"full_scan">>
Garbage == <<"garbage">>

\* The first column of the WHERE clause that has an index.
choose_initial_strategy(where) ==
    LET cols == IF where = NoExpr THEN <<>> ELSE where_columns(where)
        indexed == {i \in 1 .. Len(cols) : has_index(cols[i])}
    IN  IF indexed = {} THEN FullScan
        ELSE IndexScan(cols[CHOOSE i \in indexed : \A j \in indexed : i <= j])

\* op.index_value holds the text of the literal, as a string.
index_value(where, c) == <<"str", eq_value(where, c)>>

\* build_pipeline of a SELECT: its source, and the filter where there is one.
build_pipeline(where, strategy) ==
    LET scan == [type |-> "scan"]
        source == IF strategy[1] # "index_scan:" THEN scan
                  ELSE IF eq_value(where, strategy[2]) = NoText THEN scan
                  ELSE [type |-> "indexScan", column |-> strategy[2],
                        value |-> index_value(where, strategy[2])]
    IN  IF where = NoExpr THEN <<source>>
        ELSE <<source, [type |-> "filter", filter |-> where]>>

pipeline_signature_Strategy(pipeline) ==
    IF pipeline[1].type = "indexScan" THEN IndexScan(pipeline[1].column)
    ELSE [i \in 1 .. Len(pipeline) |-> pipeline[i].type]
pipeline_signature(pipeline) == [i \in 1 .. Len(pipeline) |-> pipeline[i].type]

Remembered == Cardinality(UNION {{w} \X DOMAIN history[w] : w \in Wheres})

\* The strategies plan may hand to build_pipeline.
FromMemory(where) == Len(history[where]) >= 2
Strategies(where) ==
    IF FromMemory(where)
    THEN {history[where][i] : i \in 1 .. Len(history[where])} \cup {Garbage}
    ELSE {choose_initial_strategy(where)}

\* execute_pipeline: the rows that come out at the end.
execute_pipeline(pipeline) ==
    LET source == pipeline[1]
        found == IF source.type = "scan" THEN Seen(Table)
                 ELSE index_lookup(source.column, source.value)
    IN  IF Len(pipeline) = 1 THEN found
        ELSE {k \in found : Matches(pipeline[2].filter, rows[k].row)}

-----------------------------------------------------------------------------
(* The actions.                                                            *)

Init ==
    /\ rows = [k \in RowIds |-> NoRow]
    /\ row_ids = 0
    /\ index = [c \in PrimaryKey |-> {}]
    /\ undo = [k \in RowIds |-> Untouched]
    /\ behind = FALSE
    /\ block = FALSE
    /\ history = [w \in Wheres |-> <<>>]
    /\ answer = NoAnswer

Statement(t) ==
    /\ Install(IF block THEN t ELSE Committed(t))
    /\ answer' = NoAnswer
    /\ UNCHANGED <<block, history>>

Insert(new) ==
    /\ row_ids + Len(new) <= MaxRowId
    /\ Statement(insert_rows(Table, new))

Update(where, sets) == Statement(update_with_txn(Table, where, update_values(sets)))

Delete(where) == Statement(remove_with_txn(Table, where))

Select(where) ==
    \E strategy \in Strategies(where) :
        LET pipeline == build_pipeline(where, strategy)
        IN  /\ answer' = [source |-> IF FromMemory(where) THEN "from_memory"
                                     ELSE "new_plan",
                          where |-> where, plan |-> pipeline_signature(pipeline),
                          rows |-> execute_pipeline(pipeline)]
            /\ history' = IF Remembered = MaxHistory THEN history
                          ELSE [history EXCEPT ![where] =
                                  Append(@, pipeline_signature(pipeline))]
            /\ UNCHANGED <<tableVars, block>>

Begin ==
    /\ ~block
    /\ block' = TRUE
    /\ answer' = NoAnswer
    /\ UNCHANGED <<tableVars, history>>

Commit ==
    /\ block
    /\ block' = FALSE
    /\ Install(Committed(Table))
    /\ answer' = NoAnswer
    /\ UNCHANGED history

Rollback ==
    /\ block
    /\ block' = FALSE
    /\ Install(RolledBack(Table))
    /\ answer' = NoAnswer
    /\ UNCHANGED history

\* vacuum: a row whose inserter and deleter have committed goes, one that is
\* there to stay is frozen; the indexes are rebuilt if any row has gone.
Vacuumed(version) ==
    IF version.ins # "done" THEN version
    ELSE IF version.del = "done" THEN NoRow
    ELSE IF version.del = "no" THEN [version EXCEPT !.ins = "frozen"]
    ELSE version
Vacuum ==
    LET t == [Table EXCEPT !.rows = [k \in RowIds |-> Vacuumed(rows[k])]]
    IN  /\ Install(IF \E k \in RowIds : rows[k] # NoRow /\ t.rows[k] = NoRow
                   THEN rebuild_indexes(t) ELSE t)
        /\ answer' = NoAnswer
        /\ UNCHANGED <<block, history>>

create_index(c) ==
    /\ ~has_index(c)
    /\ index' = [d \in DOMAIN index \cup {c} |->
                   IF d = c THEN Entries(Table, c) ELSE index[d]]
    /\ answer' = NoAnswer
    /\ UNCHANGED <<rows, row_ids, undo, behind, block, history>>

Next ==
    \/ \E new \in Inserts : Insert(new)
    \/ \E where \in Wheres, sets \in Updates : Update(where, sets)
    \/ \E where \in Wheres : Delete(where) \/ Select(where)
    \/ \E c \in WithIndex : create_index(c)
    \/ Begin
    \/ Commit
    \/ Rollback
    \/ Vacuum

Spec == Init /\ [][Next]_vars
-----------------------------------------------------------------------------
(* What the planner and the indexes promise.                               *)

Version == [ins : {"open", "done", "frozen"}, del : {"no", "open", "done"}, row : Rows]
Texts == {value_to_string(v) : v \in UNION {Holds(c) : c \in Columns}}

StepTypes == {"scan", "indexScan", "filter"}

TypeOK ==
    /\ rows \in [RowIds -> Version \cup {NoRow}]
    /\ undo \in [RowIds -> Version \cup {NoRow, Untouched}]
    /\ row_ids \in 0 .. MaxRowId
    /\ index \in [DOMAIN index -> SUBSET (Texts \X RowIds)]
    /\ PrimaryKey \subseteq DOMAIN index /\ DOMAIN index \subseteq Columns
    /\ block \in BOOLEAN /\ behind \in BOOLEAN
    /\ history \in [Wheres -> Seq(Seq(StepTypes))]

\* An index lists exactly the rows the table holds, tombstones included,
\* under the texts of their present values, whatever sequence of statements,
\* refused statements, rollbacks and vacuums led here; after an UPDATE that was
\* refused half-way, from the next rebuild on.
IndexAgrees == ~behind => \A c \in DOMAIN index : index[c] = Entries(Table, c)

\* The rows a query asks for.
Asked(where) == Selected(Table, where)
Answered == answer.source \in {"new_plan", "from_memory"}

\* SELECT returns the rows its WHERE clause asks for, whether or not one of
\* the columns it names has an index.  The engine does not keep this: a plan
\* that starts from an index looks a text up that no entry has (index_value).
SelectAnswers == Answered => answer.rows = Asked(answer.where)

\* A SELECT never returns a row that its WHERE clause rejects or that is not
\* visible, whichever plan it runs.  By a scan it misses none; and what the
\* planner has learned does no harm: a query planned from memory is answered
\* exactly, whatever was read through the dangling pointer.
AnswersSound ==
    Answered =>
        /\ answer.rows \subseteq Asked(answer.where)
        /\ answer.plan[1] = "scan" \/ answer.source = "from_memory"
              => answer.rows = Asked(answer.where)
=============================================================================
