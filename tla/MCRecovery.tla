----------------------------- MODULE MCRecovery -----------------------------
(* Recovery over two rows, two column values and a few xids.               *)
EXTENDS Recovery, TLC

CONSTANTS a, b

Symmetry == Permutations(Values)
=============================================================================
