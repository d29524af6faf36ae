------------------------------ MODULE RowTable ------------------------------
(***************************************************************************)
(* What a table promises to the one session that uses it, with no row      *)
(* versions, xids or undo lists: the rows last committed (base), the rows  *)
(* as the open transaction has them (view), and for each savepoint the     *)
(* rows as they were when it was set.                                      *)
(***************************************************************************)
EXTENDS Naturals, Sequences

CONSTANTS RowIds, Values, NoValue, Names

VARIABLES base, view, marks

tableVars == <<base, view, marks>>

Init ==
    /\ base = [k \in RowIds |-> NoValue]
    /\ view = base
    /\ marks = <<>>

\* Some of the rows there are get a new value, or go.
Updated(old, new, v) ==
    \A k \in RowIds : new[k] = old[k] \/ (old[k] # NoValue /\ new[k] = v)

Deleted(old, new) == \A k \in RowIds : new[k] \in {old[k], NoValue}

\* A new row never takes the identity of a row that can still come back.
Inserted(old, new, k) ==
    /\ old[k] = NoValue /\ \E v \in Values : new = [old EXCEPT ![k] = v]
    /\ base[k] = NoValue /\ \A i \in 1 .. Len(marks) : marks[i].view[k] = NoValue

\* What a statement may make of the rows it sees.
Changes(old) ==
    {new \in [RowIds -> Values \cup {NoValue}] :
        \/ Deleted(old, new)
        \/ \E v \in Values : Updated(old, new, v)
        \/ \E k \in RowIds : Inserted(old, new, k)}

\* A statement changes what the session sees and nothing else.
Statement ==
    /\ UNCHANGED <<base, marks>>
    /\ view' \in Changes(view)

Commit ==
    /\ base' = view
    /\ marks' = <<>>
    /\ UNCHANGED view

Rollback ==
    /\ view' = base
    /\ marks' = <<>>
    /\ UNCHANGED base

SetSavepoint(n) ==
    /\ marks' = Append(marks, [name |-> n, view |-> view])
    /\ UNCHANGED <<base, view>>

RollbackTo(i) ==
    /\ view' = marks[i].view
    /\ marks' = SubSeq(marks, 1, i - 1)
    /\ UNCHANGED base

Release(i) ==
    /\ marks' = SubSeq(marks, 1, i - 1)
    /\ UNCHANGED <<base, view>>

Next ==
    \/ Statement
    \/ Commit
    \/ Rollback
    \/ \E n \in Names : SetSavepoint(n)
    \/ \E i \in 1 .. Len(marks) : RollbackTo(i) \/ Release(i)

Spec == Init /\ [][Next]_tableVars
=============================================================================
