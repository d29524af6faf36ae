------------------------------ MODULE MCStore ------------------------------
(* Store over two or three rows and two column values.                     *)
EXTENDS Store, TLC

CONSTANTS a, b, c, sp1, sp2

\* A statement on several rows is left to the table without a key.
MCMatched == [keyed \in BOOLEAN |-> IF keyed THEN 1 ELSE 2]
TwoMatched == [keyed \in BOOLEAN |-> 2]

Symmetry == Permutations(Values)
=============================================================================
