------------------------- MODULE MCCycleCollector -------------------------
(***************************************************************************)
(* CycleCollector for TLC: cells are interchangeable.                      *)
(***************************************************************************)
EXTENDS CycleCollector

Symmetry == Permutations(Cell)
=============================================================================
