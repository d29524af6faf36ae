------------------------------ MODULE MCQuery ------------------------------
(* Query over a table of an integer key and a text column, with conditions *)
(* as the parser makes them, and samples of what else it reads.            *)
EXTENDS Session, Evaluation

MCTypes == [k |-> "INTEGER", v |-> "TEXT"]

\* A key given as a number in quotes, a number for the text column, and two
\* rows of which the first leaves the key out and the second is no number.
MCInserts ==
    {<<[k |-> IntV(1), v |-> StrV(1)]>>,
     <<[k |-> <<"str", Text("digits", 2)>>, v |-> IntV(1)]>>,
     <<[v |-> StrV(1)], [k |-> StrV(1)]>>}

\* Texts, from words, names of columns and literals.
K == <<Id("k")>>
V == <<Id("v")>>
Num(n) == <<LitToken("INTEGER_LIT", IntV(n))>>
Str(n) == <<LitToken("STRING_LIT", StrV(n))>>
W(type) == <<Word(type)>>
Name(n) == <<Id(n)>>

Delete1(where) == W("DELETE") \o W("FROM") \o Name("t") \o where
Update1(sets) == W("UPDATE") \o Name("t") \o W("SET") \o sets
Where(e) == W("WHERE") \o e

IsKey == K \o W("=") \o Num(1)
IsText == V \o W("=") \o Str(1)

\* The assignments and conditions of the run, which are what the parser makes
\* of the texts beside them.
KeyIs1 == Bin("=", Col("k"), Lit(IntV(1)))
TextIs1 == Bin("=", Col("v"), Lit(StrV(1)))

MCUpdates ==
    {[k |-> Lit(IntV(1)), v |-> Lit(StrV(2))], [v |-> Lit(StrV(2))],
     [k |-> Bin("+", Col("k"), Lit(IntV(1)))]}
MCWheres ==
    {NoExpr, KeyIs1, Bin("OR", TextIs1, KeyIs1),
     Bin("AND", TextIs1, Not(Bin("<", Col("k"), Lit(IntV(2)))))}

ASSUME StatementsParsed ==
    /\ MCUpdates = {Parsed(Update1(sets))[1].sets :
         sets \in {K \o W("=") \o Num(1) \o W(",") \o V \o W("=") \o Str(2), V \o W("=") \o Str(2),
                   K \o W("=") \o K \o W("+") \o Num(1)}}
    /\ MCWheres = {Parsed(Delete1(where))[1].where :
         where \in {<<>>, Where(IsKey), Where(IsText \o W("OR") \o IsKey),
                    Where(IsText \o W("AND") \o W("NOT")
                            \o W("(") \o K \o W("<") \o Num(2) \o W(")"))}}

MCManipulations ==
    {W("SELECT") \o W("*") \o W("FROM") \o Name("t"),
     W("SELECT") \o K \o W(",") \o V \o W("FROM") \o Name("t") \o Where(IsKey),
     W("INSERT") \o W("INTO") \o Name("t") \o W("(") \o K \o W(",") \o V \o W(")")
       \o W("VALUES") \o W("(") \o Num(1) \o W(",") \o Str(1) \o W(")"),
     W("INSERT") \o W("INTO") \o Name("t") \o W("VALUES") \o W("(") \o Num(1) \o W(")")
       \o W(",") \o W("(") \o Num(2) \o W(")"),
     Update1(V \o W("=") \o V \o W(",") \o K \o W("=") \o W("-") \o Num(1) \o Where(IsText)),
     Delete1(<<>>),
     Delete1(Where(IsText \o W("OR") \o W("NOT") \o V \o W("AND") \o IsKey))}

MCSamples ==
    MCManipulations \cup
    {W("SELECT") \o W("*") \o W("FROM") \o Name("t") \o W("ORDER") \o W("BY") \o V
       \o W("DESC") \o W("LIMIT") \o Num(1),
     W("CREATE") \o W("TABLE") \o Name("t") \o W("(") \o K \o Name("INT") \o W("PRIMARY")
       \o W("KEY") \o W(",") \o V \o Name("TEXT") \o Name("UNIQUE") \o W(",")
       \o W("PRIMARY") \o W("KEY") \o W("(") \o V \o W(")") \o W(")"),
     W("CREATE") \o W("INDEX") \o Name("i") \o W("ON") \o Name("t") \o W("(") \o V \o W(")"),
     W("CREATE") \o W("USER") \o Name("u") \o W("WITH") \o W("PASSWORD") \o Str(1),
     W("BEGIN"), W("BEGIN") \o W("TRANSACTION"), W("COMMIT") \o Name("WORK"), W("ROLLBACK")}
    \cup {W("SHOW") \o W(w) : w \in {"DATABASES", "SCHEMAS", "USERS"}}
    \cup {W("CREATE") \o W(w) \o Name("d") : w \in {"DATABASE", "SCHEMA"}}
    \cup {W("DROP") \o W(w) \o Name("d") : w \in {"DATABASE", "USER", "TABLE"}}
    \cup {W("USE") \o Name("d")}

Grown(S) ==
    {Not(e) : e \in S}
    \cup {Bin(op, l, r) : op \in {"OR", "AND", "=", "<", "+", "-", "*"}, l, r \in S}
Leaves == {Col("k"), Lit(IntV(1))}
Simple == Leaves \cup Grown(Leaves)
MCTrees == Simple \cup Grown(Simple)
=============================================================================
