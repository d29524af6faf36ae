------------------------------ MODULE Session ------------------------------
(***************************************************************************)
(* One connection of the server (process_query): a request is parsed       *)
(* (Parser), then its statements are run (Query).  A parser lives as long  *)
(* as its request and shares nothing with the tables, so that requests are *)
(* read in the first state only; the statements that are run afterwards    *)
(* are the ones the constants of Query give.                               *)
(***************************************************************************)
EXTENDS Query, Parser

CONSTANTS parse(_),       \* the parser: Parsed
          Samples,        \* texts of one statement each
          Manipulations,  \* those of them that read or write rows
          Trees           \* expressions that a text may stand for

VARIABLE request          \* the request read last, with its statements

-----------------------------------------------------------------------------
(* Requests: what a client sends, what it was made from, and the statements  *)
(* the parser finds in it.                                                   *)

DeleteWhere == <<Word("DELETE"), Word("FROM"), Id("t"), Word("WHERE")>>

Stray == {Word(w) : w \in {"(", ")", ",", "*", "=", "<", "-", "+", "AND", "OR", "NOT",
                           "WHERE", "FROM", "SET", "PRIMARY", "DELETE", "ORDER"}}
         \cup {Id("k"), LitToken("INTEGER_LIT", IntV(1))}
WithStray(text, i, token) == SubSeq(text, 1, i) \o <<token>> \o SubSeq(text, i + 1, Len(text))

NoRequest == [about |-> "nothing"]
Request(about, of, text) == [about |-> about, of |-> of, statements |-> parse(text)]

Conditions == {Request("condition", e, DeleteWhere \o Written(e)) : e \in Trees}
Pairs ==
    {Request("pair", <<s, t>>, s \o sep \o t) :
        s \in Samples, t \in Samples, sep \in {<<>>, <<Word(";")>>}}
Strays ==
    UNION {{Request("stray", text, WithStray(text, i, token)) : i \in 0 .. Len(text)} :
        text \in Manipulations, token \in Stray}

-----------------------------------------------------------------------------
SessionInit == Init /\ request = NoRequest

\* A request is read, or given up for the next one.
process_query ==
    /\ request = NoRequest
    /\ Init
    /\ request' \in Conditions \cup Pairs \cup Strays
    /\ UNCHANGED vars
NextRequest ==
    /\ request # NoRequest
    /\ request' = NoRequest
    /\ UNCHANGED vars

RunStatement == request = NoRequest /\ Next /\ UNCHANGED request

SessionNext == process_query \/ NextRequest \/ RunStatement

SessionSpec == SessionInit /\ [][SessionNext]_<<vars, request>>

-----------------------------------------------------------------------------
(* What the parser is for.                                                 *)

\* A condition is parsed as it was written: the rules of the five levels give
\* every expression back from its text.
ParsesAsWritten ==
    request.about = "condition" =>
        request.statements = <<[type |-> "DELETE", table |-> "t", where |-> request.of]>>

\* Statements do not run into one another: two texts in one request are the
\* statements of the one and then those of the other, with or without a
\* semicolon between them.
StatementsApart ==
    request.about = "pair" =>
        /\ \A i \in 1 .. 2 : parse(request.of[i]) # ParseError
        /\ request.statements = parse(request.of[1]) \o parse(request.of[2])

\* A token that strays into a statement on rows is never passed over: the
\* request is refused, or it means something else.  (LIMIT, and the optional
\* VALUES, are passed over by design.)
NothingIgnored ==
    request.about = "stray" => request.statements # parse(request.of)
=============================================================================
