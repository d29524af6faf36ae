----------------------------- MODULE Evaluation -----------------------------
(***************************************************************************)
(* What walks an expression: eval_expression of ai/executor.cpp, and the   *)
(* two functions of ai/planner.cpp that look for an index in a WHERE       *)
(* clause.  Query takes the three as parameters.                           *)
(***************************************************************************)
EXTENDS Expressions

RECURSIVE eval_expression(_, _)
eval_expression(e, row) ==
    CASE e.type = "LITERAL"    -> e.literal
      [] e.type = "COLUMN_REF" ->
           IF e.column_name \in DOMAIN row THEN row[e.column_name] ELSE Null
      [] e.type = "UNARY_OP"   ->
           LET v == eval_expression(e.expr, row)
           IN  IF e.op = "NOT" /\ Type(v) = "bool" THEN BoolV(~IsTrue(v)) ELSE Null
      [] e.type = "BINARY_OP"  ->
           Operation(e.op, eval_expression(e.left, row), eval_expression(e.right, row))
      [] OTHER -> Null

-----------------------------------------------------------------------------
(* What the planner reads off a WHERE clause.                              *)

RECURSIVE extract_where_columns(_)
extract_where_columns(e) ==
    CASE e.type = "COLUMN_REF" -> <<e.column_name>>
      [] e.type = "BINARY_OP"  ->
           extract_where_columns(e.left) \o extract_where_columns(e.right)
      [] e.type = "UNARY_OP"   -> extract_where_columns(e.expr)
      [] OTHER -> <<>>

\* The text of the value a column must have, or NoText: column = literal,
\* in this order, at the top or below ANDs, the left one first.
RECURSIVE extract_eq_value(_, _)
extract_eq_value(e, c) ==
    CASE e.type # "BINARY_OP" -> NoText
      [] e.type = "BINARY_OP" /\ e.op = "=" ->
           IF e.left = Col(c) /\ e.right.type = "LITERAL"
           THEN value_to_string(e.right.literal) ELSE NoText
      [] e.type = "BINARY_OP" /\ e.op = "AND" ->
           LET l == extract_eq_value(e.left, c)
           IN  IF l # NoText THEN l ELSE extract_eq_value(e.right, c)
      [] OTHER -> NoText
=============================================================================
