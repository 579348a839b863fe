---------------------------- MODULE ObjectGraph ----------------------------
(***************************************************************************)
(* The heap as a program of torajs sees it, without reference counts: the  *)
(* objects it can reach and what their slots hold.  An object nobody can   *)
(* reach is forgotten by the step that cuts it off; when its memory comes  *)
(* back is not the program's business.                                     *)
(***************************************************************************)
EXTENDS Reachable

CONSTANTS Shape,        \* the layouts the program uses
          HandleBound   \* references of the program's scopes on one object

VARIABLES held,   \* references the program's scopes hold
          cell    \* the layout of each object and its two slots

vars == <<held, cell>>

\* What the program still sees of the cells b is what they become.
Become(b) ==
    LET seen == Seen(held', [c \in Cell |-> b[c].slot])
    IN  cell' = [c \in Cell |-> IF c \in seen THEN b[c] ELSE Free]

Init == /\ held = [c \in Cell |-> 0]
        /\ cell = [c \in Cell |-> Free]

New(c, k) == /\ held[c] = 0
             /\ held' = [held EXCEPT ![c] = 1]
             /\ cell[c] = Free
             /\ Become([cell EXCEPT ![c].shape = k])

Store(a, i, b) == /\ held[a] > 0
                  /\ held[b] > 0
                  /\ UNCHANGED held
                  /\ cell[a].slot[i] = none
                  /\ Become([cell EXCEPT ![a].slot[i] = b])

Load(a, i) == /\ held[a] > 0
              /\ \E b \in Cell : /\ held[b] < HandleBound
                                 /\ held' = [held EXCEPT ![b] = @ + 1]
                                 /\ cell[a].slot[i] = b
              /\ Become(cell)

Clear(a, i) == /\ held[a] > 0
               /\ UNCHANGED held
               /\ cell[a].slot[i] # none
               /\ Become([cell EXCEPT ![a].slot[i] = none])

Drop(a) == /\ held[a] > 0
           /\ held' = [held EXCEPT ![a] = @ - 1]
           /\ Become(cell)

\* Counting, collecting and freeing: nothing a program can see.
Manage == UNCHANGED vars

Next == \/ Manage
        \/ \E a \in Cell :
              \/ \E k \in Shape : New(a, k)
              \/ \E i \in Slot, b \in Cell : Store(a, i, b)
              \/ \E i \in Slot : Load(a, i) \/ Clear(a, i)
              \/ Drop(a)

Spec == Init /\ [][Next]_vars
=============================================================================
