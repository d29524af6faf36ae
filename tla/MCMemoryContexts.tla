-------------------------- MODULE MCMemoryContexts --------------------------
(* MemoryContexts with interchangeable engines and scratch contexts.       *)
EXTENDS MemoryContexts, TLC

Symmetry == Permutations(Engines) \cup Permutations(Scratch)
=============================================================================
