------------------------------ MODULE MCGralloc -------------------------------
(***************************************************************************)
(* Gralloc for TLC: addresses and buffer objects are alike.                *)
(***************************************************************************)
EXTENDS Gralloc, TLC

Symmetry == Permutations(Handles) \cup Permutations(Bos)
===============================================================================
