--------------------------- MODULE MCWeakRegistry ---------------------------
EXTENDS WeakRegistry, TLC

Symmetry == Permutations(Record)
=============================================================================
