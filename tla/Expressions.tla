---------------------------- MODULE Expressions ----------------------------
(***************************************************************************)
(* The values of types.h, their text (value_to_string), the conversion to  *)
(* a column's type (StorageEngine::coerce), the expressions of a WHERE     *)
(* clause, and what their operators do (ai/executor.cpp).  Evaluation has  *)
(* what walks an expression.                                               *)
(*                                                                         *)
(* A value is a pair of a type and a payload.  A double counts tenths of   *)
(* the last digit that std::to_string prints (one decimal here, six in the *)
(* code), so that two doubles may have one text.  A text is known by what  *)
(* it renders and by the quotes around it; numbers have one digit, so that *)
(* they order as their texts do.                                           *)
(***************************************************************************)
EXTENDS Integers, Sequences

Unit == 100      \* 1.0 as a double

Text(kind, n) == [quotes |-> 0, kind |-> kind, n |-> n]
NoText == Text("none", 0)

Null == <<"null", 0>>
IntV(n) == <<"int", n>>
DblV(n) == <<"dbl", n>>
StrV(n) == <<"str", Text("chars", n)>>
BoolV(b) == <<"bool", IF b THEN 1 ELSE 0>>

Type(v) == v[1]
IsTrue(v) == v = BoolV(TRUE)

\* Strings are quoted, and nothing in them is escaped.
value_to_string(v) ==
    CASE Type(v) = "null" -> Text("word", 2)
      [] Type(v) = "int"  -> Text("digits", v[2])
      [] Type(v) = "dbl"  -> Text("decimal", (v[2] + 5) \div 10)
      [] Type(v) = "str"  -> [v[2] EXCEPT !.quotes = @ + 1]
      [] Type(v) = "bool" -> Text("word", v[2])

\* std::stoll and std::stod throw on a text that is no number.
Refused == <<"refused", 0>>
Numeric(t) == t.quotes = 0 /\ t.kind \in {"digits", "decimal"}

coerce(type, v) ==
    CASE Type(v) = "null" -> v
      [] type = "INTEGER" /\ Type(v) = "dbl" -> IntV(v[2] \div Unit)
      [] type = "INTEGER" /\ Type(v) = "str" ->
           IF ~Numeric(v[2]) THEN Refused
           ELSE IF v[2].kind = "digits" THEN IntV(v[2].n)
           ELSE IntV((v[2].n * 10) \div Unit)
      [] type = "DOUBLE" /\ Type(v) = "int" -> DblV(v[2] * Unit)
      [] type = "DOUBLE" /\ Type(v) = "str" ->
           IF ~Numeric(v[2]) THEN Refused
           ELSE IF v[2].kind = "digits" THEN DblV(v[2].n * Unit)
           ELSE DblV(v[2].n * 10)
      [] type = "BOOLEAN" /\ Type(v) = "int" -> BoolV(v[2] # 0)
      [] type = "BOOLEAN" /\ Type(v) = "str" ->
           BoolV(v[2] \in {Text("word", 1), Text("digits", 1)})
      [] type = "TEXT" /\ Type(v) # "str" -> <<"str", value_to_string(v)>>
      [] OTHER -> v

-----------------------------------------------------------------------------
(* Expressions.                                                            *)

NoExpr == [type |-> "NONE"]
Lit(v) == [type |-> "LITERAL", literal |-> v]
Col(c) == [type |-> "COLUMN_REF", column_name |-> c]
Bin(op, l, r) == [type |-> "BINARY_OP", op |-> op, left |-> l, right |-> r]
Not(e) == [type |-> "UNARY_OP", op |-> "NOT", expr |-> e]

Number(v) == IF Type(v) = "int" THEN v[2] * Unit ELSE v[2]
Numbers(l, r) == {Type(l), Type(r)} \subseteq {"int", "dbl"}

\* A quote sorts before the digits, and these before the letters.
Kinds == <<"digits", "decimal", "chars", "word">>
KindRank(t) == CHOOSE i \in 1 .. 4 : Kinds[i] = t.kind
TextLess(s, t) ==
    \/ s.quotes > t.quotes
    \/ /\ s.quotes = t.quotes
       /\ \/ KindRank(s) < KindRank(t)
          \/ KindRank(s) = KindRank(t) /\ s.n < t.n

\* cmp: FALSE of two values that cannot be compared.
Less(l, r) ==
    \/ Numbers(l, r) /\ Number(l) < Number(r)
    \/ Type(l) = "str" /\ Type(r) = "str" /\ TextLess(l[2], r[2])
LessEq(l, r) ==
    \/ Numbers(l, r) /\ Number(l) <= Number(r)
    \/ Type(l) = "str" /\ Type(r) = "str" /\ ~TextLess(r[2], l[2])

Arith(l, r, n, d) ==
    CASE ~Numbers(l, r) -> Null
      [] Type(l) = "int" /\ Type(r) = "int" -> IntV(n)
      [] OTHER -> DblV(d)

\* Integer division truncates.
Quotient(a, b) ==
    LET Abs(n) == IF n < 0 THEN -n ELSE n
        q == Abs(a) \div Abs(b)
    IN  IF (a < 0) = (b < 0) THEN q ELSE -q

\* std::variant compares the types first, so = and != are total; AND and OR
\* take everything but TRUE for FALSE.
Operation(op, l, r) ==
    CASE op = "="   -> BoolV(l = r)
      [] op = "!="  -> BoolV(l # r)
      [] op = "<"   -> BoolV(Less(l, r))
      [] op = ">"   -> BoolV(Less(r, l))
      [] op = "<="  -> BoolV(LessEq(l, r))
      [] op = ">="  -> BoolV(LessEq(r, l))
      [] op = "AND" -> BoolV(IsTrue(l) /\ IsTrue(r))
      [] op = "OR"  -> BoolV(IsTrue(l) \/ IsTrue(r))
      [] op = "+"   -> Arith(l, r, l[2] + r[2], Number(l) + Number(r))
      [] op = "-"   -> Arith(l, r, l[2] - r[2], Number(l) - Number(r))
      [] op = "*"   -> Arith(l, r, l[2] * r[2], (Number(l) * Number(r)) \div Unit)
      [] op = "/"   ->
           IF Type(l) # Type(r) \/ ~Numbers(l, r) \/ r[2] = 0 THEN Null
           ELSE IF Type(l) = "int" THEN IntV(Quotient(l[2], r[2]))
           ELSE DblV(Quotient(l[2] * Unit, r[2]))
      [] OTHER -> Null
=============================================================================
