----------------------------- MODULE Reachable -----------------------------
(***************************************************************************)
(* The cells of a heap that are reached from others through their slots.   *)
(***************************************************************************)
EXTENDS Naturals, FiniteSets

CONSTANTS Cell,  \* heap blocks
          none   \* an empty slot

Slot == 1..2
NoSlots == [i \in Slot |-> none]

\* The cells reached from those of from by steps of next, a set per cell.
Reach(next, from) ==
    LET closed[S \in SUBSET Cell] ==
          LET more == S \cup UNION {next[c] : c \in S}
          IN  IF more = S THEN S ELSE closed[more]
    IN  closed[from]

\* What the program reaches with references h through the slots s.
Seen(h, s) ==
    Reach([c \in Cell |-> {s[c][i] : i \in Slot} \ {none}],
          {c \in Cell : h[c] > 0})

Free == [shape |-> "free", slot |-> NoSlots]

\* Of the cells, those the program sees with references h.
View(h, shape, slot) ==
    LET seen == Seen(h, slot)
    IN  [c \in Cell |-> IF c \in seen THEN [shape |-> shape[c], slot |-> slot[c]] ELSE Free]
=============================================================================
