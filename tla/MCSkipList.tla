----------------------------- MODULE MCSkipList -----------------------------
(* SkipList for TLC: one row between two others, all rows.                 *)
EXTENDS SkipList

MCKeys == 1..3
MCRanges == {<<2, 2>>, <<1, 3>>}
=============================================================================
