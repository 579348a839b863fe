------------------------ MODULE MCPromiseReactions ------------------------
(***************************************************************************)
(* PromiseReactions for TLC: cells and frames are interchangeable.         *)
(***************************************************************************)
EXTENDS PromiseReactions, TLC

Symmetry == Permutations(Cell) \cup Permutations(Frame)
=============================================================================
