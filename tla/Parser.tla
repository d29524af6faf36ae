------------------------------- MODULE Parser -------------------------------
(***************************************************************************)
(* The SQL parser (sql/parser.cpp): recursive descent from a sequence of   *)
(* tokens to statements and expressions.                                   *)
(*                                                                         *)
(* A token has a type, which for a keyword or a sign is its name, a text   *)
(* and, if it is a literal, a value.  A parser is a record of the tokens,  *)
(* the position, whether a ParseError was thrown, and the value the last   *)
(* rule returned; after an error no rule matters.                          *)
(***************************************************************************)
EXTENDS Expressions

Word(type) == [type |-> type, text |-> type, value |-> Null]
Id(name) == [type |-> "IDENTIFIER", text |-> name, value |-> Null]
LitToken(type, v) == [type |-> type, text |-> "", value |-> v]

Parser(text) ==
    [tokens |-> Append(text, Word("END")), pos |-> 1, threw |-> FALSE, val |-> <<>>]

peek(s) == s.tokens[IF s.pos > Len(s.tokens) THEN Len(s.tokens) ELSE s.pos]
is_at_end(s) == peek(s).type = "END"
advance(s) == IF is_at_end(s) THEN s ELSE [s EXCEPT !.pos = @ + 1]
check(s, type) == ~s.threw /\ ~is_at_end(s) /\ peek(s).type = type

Throw(s) == [s EXCEPT !.threw = TRUE]
Yield(s, v) == [s EXCEPT !.val = v]

\* expect yields the text of the token.
expect(s, type) ==
    IF ~s.threw /\ peek(s).type = type
    THEN Yield(advance(s), peek(s).text)
    ELSE Throw(s)

\* match, where nothing depends on its answer.
match(s, types) == IF \E t \in types : check(s, t) THEN advance(s) ELSE s

-----------------------------------------------------------------------------
(* Expressions, by increasing precedence: parse_or, parse_and,             *)
(* parse_comparison, parse_addition, parse_multiplication.                 *)

RECURSIVE parse_binary(_, _), more(_, _), parse_unary(_)

Comparison == 3
Operators == <<{"OR"}, {"AND"}, {"=", "!=", "<", ">", "<=", ">="}, {"+", "-"}, {"*", "/"}>>

parse_expression(s) == parse_binary(s, 1)

Operand(s, level) ==
    IF level = Len(Operators) THEN parse_unary(s) ELSE parse_binary(s, level + 1)
parse_binary(s, level) == more(Operand(s, level), level)

\* The loop of a level; a comparison is not repeated.
more_RightToLeft(s, level) ==
    IF \A op \in Operators[level] : ~check(s, op) THEN s
    ELSE LET right == parse_binary(advance(s), level)
         IN  Yield(right, Bin(peek(s).type, s.val, right.val))
more(s, level) ==
    IF \A op \in Operators[level] : ~check(s, op) THEN s
    ELSE LET right == Operand(advance(s), level)
             both == Yield(right, Bin(peek(s).type, s.val, right.val))
         IN  IF level = Comparison THEN both ELSE more(both, level)

Literals == {"INTEGER_LIT", "FLOAT_LIT", "STRING_LIT", "TRUE", "FALSE", "NULL"}

parse_primary(s) ==
    IF \E t \in Literals : check(s, t) THEN Yield(advance(s), Lit(peek(s).value))
    ELSE IF check(s, "IDENTIFIER") THEN Yield(advance(s), Col(peek(s).text))
    ELSE IF check(s, "(")
    THEN LET inner == parse_expression(advance(s))
         IN  Yield(expect(inner, ")"), inner.val)
    ELSE Throw(s)

\* - x is 0 - x.
parse_unary(s) ==
    IF check(s, "NOT")
    THEN LET inner == parse_unary(advance(s)) IN Yield(inner, Not(inner.val))
    ELSE IF check(s, "-")
    THEN LET inner == parse_unary(advance(s))
         IN  Yield(inner, Bin("-", Lit(IntV(0)), inner.val))
    ELSE parse_primary(s)

-----------------------------------------------------------------------------
(* Statements that read and write rows.                                    *)

RECURSIVE parse_ident_list(_, _), parse_values(_, _), parse_rows(_, _),
          parse_sets(_, _)

parse_ident_list(s, list) ==
    LET name == expect(s, "IDENTIFIER")
        longer == Append(list, name.val)
    IN  IF check(name, ",") THEN parse_ident_list(advance(name), longer)
        ELSE Yield(name, longer)

parse_where(s) ==
    IF check(s, "WHERE") THEN parse_expression(advance(s)) ELSE Yield(s, NoExpr)

\* ORDER BY takes the next token, whatever it is, and LIMIT a number; both
\* are forgotten.
parse_select(s) ==
    LET select == expect(s, "SELECT")
        columns == IF check(select, "*") THEN Yield(advance(select), <<>>)
                   ELSE parse_ident_list(select, <<>>)
        from == expect(expect(columns, "FROM"), "IDENTIFIER")
        where == parse_where(from)
        order == IF check(where, "ORDER")
                 THEN match(advance(expect(advance(where), "BY")), {"ASC", "DESC"})
                 ELSE where
        limit == IF check(order, "LIMIT")
                 THEN match(advance(order), {"INTEGER_LIT"}) ELSE order
    IN  Yield(limit, [type |-> "SELECT", columns |-> columns.val,
                      table |-> from.val, where |-> where.val])

\* Of the expression in a list of values only the literal is kept, which is
\* NULL unless the expression is a literal.
LiteralOf(e) == IF e.type = "LITERAL" THEN e.literal ELSE Null

parse_values(s, list) ==
    LET value == parse_primary(s)
        longer == IF value.threw THEN list ELSE Append(list, LiteralOf(value.val))
    IN  IF check(value, ",") THEN parse_values(advance(value), longer)
        ELSE Yield(value, longer)

parse_rows(s, list) ==
    LET values == parse_values(expect(s, "("), <<>>)
        closed == expect(values, ")")
        longer == Append(list, values.val)
    IN  IF check(closed, ",") THEN parse_rows(advance(closed), longer)
        ELSE Yield(closed, longer)

parse_insert(s) ==
    LET table == expect(expect(expect(s, "INSERT"), "INTO"), "IDENTIFIER")
        named == check(table, "(") /\ table.tokens[table.pos + 1].type # "SELECT"
        columns == IF named THEN parse_ident_list(advance(table), <<>>)
                   ELSE Yield(table, <<>>)
        closed == IF named THEN expect(columns, ")") ELSE columns
        values == IF peek(closed).text \in {"VALUES", "VALUE"} THEN advance(closed)
                  ELSE closed
        rows == parse_rows(values, <<>>)
    IN  Yield(rows, [type |-> "INSERT", table |-> table.val,
                     columns |-> columns.val, values |-> rows.val])

parse_sets(s, sets) ==
    LET column == expect(s, "IDENTIFIER")
        value == parse_expression(expect(column, "="))
        longer == [c \in DOMAIN sets \cup {column.val} |->
                     IF c = column.val THEN value.val ELSE sets[c]]
    IN  IF value.threw THEN value
        ELSE IF check(value, ",") THEN parse_sets(advance(value), longer)
        ELSE Yield(value, longer)

parse_update(s) ==
    LET table == expect(expect(s, "UPDATE"), "IDENTIFIER")
        sets == parse_sets(expect(table, "SET"), <<>>)
        where == parse_where(sets)
    IN  Yield(where, [type |-> "UPDATE", table |-> table.val, sets |-> sets.val,
                      where |-> where.val])

parse_delete(s) ==
    LET table == expect(expect(expect(s, "DELETE"), "FROM"), "IDENTIFIER")
        where == parse_where(table)
    IN  Yield(where, [type |-> "DELETE", table |-> table.val, where |-> where.val])

-----------------------------------------------------------------------------
(* The other statements.                                                   *)

RECURSIVE parse_columns(_, _)

\* The type is any identifier.  Up to two more identifiers are passed over:
\* the NOT and PRIMARY that the code looks for among them are keywords to
\* the lexer, so that nullable stays true and only PRIMARY KEY is understood.
parse_column_def(s) ==
    LET name == expect(s, "IDENTIFIER")
        type == expect(name, "IDENTIFIER")
        rest == match(match(type, {"IDENTIFIER"}), {"IDENTIFIER"})
        key == check(rest, "PRIMARY")
        done == IF key THEN expect(advance(rest), "KEY") ELSE rest
    IN  Yield(done, [name |-> name.val, type |-> type.val, nullable |-> TRUE,
                     primary_key |-> key])

\* A constraint PRIMARY KEY (column) is read over.
parse_columns(s, list) ==
    LET constraint == check(s, "PRIMARY") /\ list # <<>>
        column == parse_column_def(s)
        skipped == expect(advance(expect(advance(advance(s)), "(")), ")")
        next == IF constraint THEN skipped ELSE column
        longer == IF constraint THEN list ELSE Append(list, column.val)
    IN  IF check(next, ",") THEN parse_columns(advance(next), longer)
        ELSE Yield(next, longer)

parse_create_table(s) ==
    LET name == expect(s, "IDENTIFIER")
        columns == parse_columns(expect(name, "("), <<>>)
    IN  Yield(expect(columns, ")"),
              [type |-> "CREATE_TABLE", name |-> name.val, columns |-> columns.val])

parse_create_index(s) ==
    LET index == expect(s, "IDENTIFIER")
        table == expect(expect(index, "ON"), "IDENTIFIER")
        column == expect(expect(table, "("), "IDENTIFIER")
    IN  Yield(expect(column, ")"),
              [type |-> "CREATE_INDEX", index_name |-> index.val,
               table |-> table.val, column |-> column.val])

parse_create_user(s) ==
    LET name == expect(s, "IDENTIFIER")
        with == expect(name, "WITH")
        password == IF peek(with).text = "PASSWORD" THEN advance(with) ELSE Throw(with)
        string == expect(password, "STRING_LIT")
    IN  Yield(string, [type |-> "CREATE_USER", name |-> name.val])

\* A statement that is a name and no more.
Named(s, type) ==
    LET name == expect(s, "IDENTIFIER")
    IN  Yield(name, [type |-> type, name |-> name.val])

parse_create(s) ==
    LET create == expect(s, "CREATE")
        then == advance(create)
    IN  CASE check(create, "INDEX") -> parse_create_index(then)
          [] check(create, "DATABASE") -> Named(then, "CREATE_DATABASE")
          [] check(create, "SCHEMA") -> Named(then, "CREATE_SCHEMA")
          [] check(create, "USER") -> parse_create_user(then)
          [] OTHER -> parse_create_table(expect(create, "TABLE"))

parse_drop_table(s) ==
    LET drop == expect(s, "DROP")
        then == advance(drop)
    IN  CASE check(drop, "DATABASE") -> Named(then, "DROP_DATABASE")
          [] check(drop, "USER") -> Named(then, "DROP_USER")
          [] OTHER -> Named(expect(drop, "TABLE"), "DROP_TABLE")

\* BEGIN, COMMIT and ROLLBACK: TRANSACTION or WORK may follow.
parse_block_Greedy(s, type) == Yield(advance(advance(s)), [type |-> type])
parse_block(s, type) ==
    LET word == expect(s, type)
        end == IF check(word, "IDENTIFIER") /\ peek(word).text = "WORK"
               THEN advance(word) ELSE match(word, {"TRANSACTION"})
    IN  Yield(end, [type |-> type])

parse_use(s) == Named(expect(s, "USE"), "USE_DATABASE")

parse_show(s) ==
    LET show == expect(s, "SHOW")
    IN  IF \E t \in {"DATABASES", "USERS", "SCHEMAS"} : check(show, t)
        THEN Yield(advance(show), [type |-> "SHOW", what |-> peek(show).type])
        ELSE Throw(show)

parse_statement(s) ==
    LET type == peek(s).type
    IN  CASE type = "SELECT" -> parse_select(s)
          [] type = "INSERT" -> parse_insert(s)
          [] type = "UPDATE" -> parse_update(s)
          [] type = "DELETE" -> parse_delete(s)
          [] type = "CREATE" -> parse_create(s)
          [] type = "DROP" -> parse_drop_table(s)
          [] type \in {"BEGIN", "COMMIT", "ROLLBACK"} -> parse_block(s, type)
          [] type = "USE" -> parse_use(s)
          [] type = "SHOW" -> parse_show(s)
          [] OTHER -> Throw(s)

RECURSIVE parse_all(_, _)

\* A semicolon between statements is read over wherever it stands.
AfterStatement_Paren(s) == match(s, {";", ")"})
AfterStatement(s) == match(s, {";"})

parse_all(s, list) ==
    IF s.threw \/ is_at_end(s) THEN Yield(s, list)
    ELSE IF check(s, ";") THEN parse_all(advance(s), list)
    ELSE LET stmt == parse_statement(s)
         IN  parse_all(AfterStatement(stmt),
                       IF stmt.threw THEN list ELSE Append(list, stmt.val))

ParseError == <<[type |-> "ParseError"]>>
Parsed(text) ==
    LET s == parse_all(Parser(text), <<>>)
    IN  IF s.threw THEN ParseError ELSE s.val

-----------------------------------------------------------------------------
(* What the parser undoes.                                                 *)

\* How an expression is written, with no more parentheses than its operators
\* need: each operator binds by its level and to the left, a comparison
\* stands alone, NOT binds closer than any of them.
RECURSIVE Written(_)

Binding(e) ==
    CASE e.type = "BINARY_OP" -> CHOOSE n \in 1 .. 5 : e.op \in Operators[n]
      [] e.type = "UNARY_OP" -> 6
      [] OTHER -> 7

Written(e) ==
    LET n == Binding(e)
        Part(x, least) ==
          IF Binding(x) >= least THEN Written(x)
          ELSE <<Word("(")>> \o Written(x) \o <<Word(")")>>
    IN  CASE e.type = "LITERAL" -> <<LitToken("INTEGER_LIT", e.literal)>>
          [] e.type = "COLUMN_REF" -> <<Id(e.column_name)>>
          [] e.type = "UNARY_OP" -> <<Word("NOT")>> \o Part(e.expr, n)
          [] e.type = "BINARY_OP" ->
               Part(e.left, IF n = Comparison THEN n + 1 ELSE n)
                 \o <<Word(e.op)>> \o Part(e.right, n + 1)
=============================================================================
