----------------------------- MODULE MCCatalog -----------------------------
(* Catalog with one name of each kind and two sessions.                    *)
EXTENDS Catalog, TLC

CONSTANTS s1, s2

Symmetry == Permutations(Sessions)
=============================================================================
