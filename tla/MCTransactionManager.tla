------------------------ MODULE MCTransactionManager ------------------------
(* TransactionManager over a few rows, savepoint names and xids.           *)
EXTENDS TransactionManager, TLC

CONSTANTS r1, r2, u1, sp1, sp2

Symmetry == Permutations(Keys)
=============================================================================
