----------------------------- MODULE MCWorkers -----------------------------
(* Two worker threads.                                                     *)
EXTENDS Workers, TLC

CONSTANTS w1, w2

Symmetry == Permutations(Threads)
=============================================================================
