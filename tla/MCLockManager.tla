--------------------------- MODULE MCLockManager ---------------------------
(* Instances of LockManager for TLC.                                       *)
EXTENDS LockManager, TLC

CONSTANTS t1, t2

Symmetry == Permutations(Xids)
=============================================================================
