------------------------ MODULE MCRejectionTracker ------------------------
(***************************************************************************)
(* RejectionTracker for TLC: promises are interchangeable.                 *)
(***************************************************************************)
EXTENDS RejectionTracker, TLC

Symmetry == Permutations(Promise)
=============================================================================
