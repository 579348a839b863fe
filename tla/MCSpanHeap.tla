----------------------------- MODULE MCSpanHeap -----------------------------
EXTENDS SpanHeap, TLC
MCSize == [c \in Class |-> IF c = "s" THEN 1 ELSE 2]
MCPages == [c \in Class |-> IF c = "m" THEN 2 ELSE 1]
MCSlots == [c \in Class |-> IF c = "n" THEN 1 ELSE 2]
Symmetry == Permutations(Arena) \cup Permutations(Thread)
=============================================================================
