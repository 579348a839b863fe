----------------------------- MODULE BlockHeap -----------------------------
(***************************************************************************)
(* A heap of blocks as malloc promises it: a block handed out lies where   *)
(* nothing handed out lies, and comes back once.                           *)
(***************************************************************************)
EXTENDS Integers

CONSTANTS Block,    \* stretches of memory that may be a block
          Cells(_)  \* the cells of memory a block covers

VARIABLE live       \* blocks in the program's hands

Init == live = {}

Alloc(b) == /\ \A other \in live : Cells(b) \cap Cells(other) = {}
            /\ live' = live \cup {b}

Free(b) == /\ b \in live
           /\ live' = live \ {b}

Next == \E b \in Block : Alloc(b) \/ Free(b)

Spec == Init /\ [][Next]_live

=============================================================================
