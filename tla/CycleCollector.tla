--------------------------- MODULE CycleCollector ---------------------------
(***************************************************************************)
(* torajs-cycle: reference counts, the buffer of candidate roots, trial    *)
(* deletion over it and the deferred free of what it finds.  A release     *)
(* that leaves references nominates the cell, and the nomination that      *)
(* fills the buffer collects at once: in the middle of a scope's exit, of  *)
(* a cell being dismantled further up the stack, of anything.              *)
(*                                                                         *)
(* Five layouts stand for the runtime's:                                   *)
(*   "obj"   a class instance: one that dies while buffered stays          *)
(*           allocated, black, for the next root walk to free;             *)
(*   "env"   a closure environment or async frame: it dies as an obj does, *)
(*           and as a corpse of the collector it runs its own destructor;  *)
(*   "arr"   an array: it leaves the buffer before its children go;        *)
(*   "bag"   a promise: it leaves the buffer after its children went; as a *)
(*           corpse it runs its own destructor, and its second slot is one *)
(*           the walk cannot read (the argument of an opaque callback      *)
(*           record);                                                      *)
(*   "leaf"  a string: no slots, never a candidate.                        *)
(*                                                                         *)
(* A phase of the collector runs no code but its own and is one step; the  *)
(* frees after it run destructors and are a step each.  A cell's children  *)
(* are released one step each, with the rest of the heap moving below.     *)
(* Near the end of the machine stack, which may be any nested release, the *)
(* last one of a cell is put off, to a loop in the outermost one put off.  *)
(* Left out: anonymous structs (never candidates), static literals (never  *)
(* counted), weak observers, and the threshold's rise with more than four  *)
(* times its floor of live cells (retune_threshold).                       *)
(***************************************************************************)
EXTENDS Integers, Sequences, FiniteSets, SequencesExt, Filtering

CONSTANTS Cell,         \* heap blocks
          Shape,        \* the layouts in use
          HandleBound,  \* references of the program's scopes on one object
          Threshold,    \* CYCLE_AUTO_COLLECT_THRESHOLD
          EdgeBound,    \* slots the program fills before it empties one
          none          \* an empty slot, NULL

ASSUME CellAssumption == IsFiniteSet(Cell) /\ none \notin Cell
ASSUME ShapeAssumption == Shape \subseteq {"obj", "env", "arr", "bag", "leaf"}
ASSUME BoundAssumption == {HandleBound, Threshold, EdgeBound} \subseteq Nat \ {0}

VARIABLES held,       \* references the program's scopes hold
          shape,      \* the layout of a cell; "free" while not allocated
          slot,       \* its slots, the stale ones of dead cells included
          rc,         \* its refcount
          color,      \* its colour bits
          buffered,   \* FLAG_BUFFERED
          buffer,     \* G_BUFFER's first G_BUFFER_LEN entries
          stack,      \* drops in progress and the collect, innermost last
          processed,  \* entries the running collect took on
          corpses,    \* D_LIST: swept and not yet freed
          pending,    \* the drop guard's releases put off
          phase       \* "run", "drain" or "over"

vars == <<held, shape, slot, rc, color, buffered, buffer, stack, processed,
          corpses, pending, phase>>

Graph == INSTANCE Reachable

Slot == 1..2
NoSlots == [i \in Slot |-> none]

Init == /\ held = [c \in Cell |-> 0]
        /\ shape = [c \in Cell |-> "free"]
        /\ slot = [c \in Cell |-> NoSlots]
        /\ rc = [c \in Cell |-> 0]
        /\ color = [c \in Cell |-> "black"]
        /\ buffered = [c \in Cell |-> FALSE]
        /\ buffer = <<>>
        /\ stack = <<>>
        /\ processed = 0
        /\ corpses = {}
        /\ pending = <<>>
        /\ phase = "run"

Walkable(c) == shape[c] \notin {"free", "leaf"}
Parks(c) == shape[c] \in {"obj", "env"}
OwnDestructor(c) == shape[c] \in {"env", "bag"}
Walked(c) == IF shape[c] = "bag" THEN {1} ELSE Slot

\* The walkable children the walk is told of.
Children(a) == {b \in {slot[a][i] : i \in Walked(a)} \ {none} : Walkable(b)}

\* The cells a walk from those of roots visits: the least set with the roots and
\* the children of its own.
Reached(roots) ==
    {c \in Cell : \A S \in SUBSET Cell :
        roots \subseteq S /\ (\A a \in S : Children(a) \subseteq S) => c \in S}

\* The edges from cells of from into c; as many cells (a mutant: a child held
\* twice is one edge).
EdgesOnce(from, c) ==
    Cardinality({a \in from : \E i \in Walked(a) : slot[a][i] = c})
EdgesInto(from, c) ==
    Cardinality({e \in from \X Slot :
                   e[2] \in Walked(e[1]) /\ slot[e[1]][e[2]] = c})

Top == stack[Len(stack)]
Below == Front(stack)
At(step) == stack # <<>> /\ Top.step = step
Active(step) == \E i \in DOMAIN stack : stack[i].step = step
InCollect == \E step \in {"mark", "scan", "sweep", "free"} : Active(step)
Drop(c) == [step |-> "drop", cell |-> c, next |-> 1]
Collect == [step |-> "mark", cell |-> none, next |-> 1]
Loop == [step |-> "loop", cell |-> none, next |-> 1]

-----------------------------------------------------------------------------
(***************************************************************************)
(* Releasing one reference.                                                *)
(***************************************************************************)

\* A mutant: no candidates while a collect runs.
NominateOutside(c, rest) ==
    /\ UNCHANGED shape
    /\ IF buffered[c] \/ ~Walkable(c) \/ InCollect
       THEN /\ stack' = rest
            /\ UNCHANGED <<color, buffered, buffer>>
       ELSE /\ color' = [color EXCEPT ![c] = "purple"]
            /\ buffered' = [buffered EXCEPT ![c] = TRUE]
            /\ buffer' = Append(buffer, c)
            /\ stack' = IF Len(buffer') >= Threshold THEN Append(rest, Collect) ELSE rest

\* A reference remains: the cell becomes a candidate root, once.
Nominate(c, rest) ==
    /\ UNCHANGED shape
    /\ IF buffered[c] \/ ~Walkable(c)
       THEN /\ stack' = rest
            /\ UNCHANGED <<color, buffered, buffer>>
       ELSE /\ color' = [color EXCEPT ![c] = "purple"]
            /\ buffered' = [buffered EXCEPT ![c] = TRUE]
            /\ buffer' = Append(buffer, c)
            /\ stack' = IF Len(buffer') >= Threshold /\ ~InCollect
                        THEN Append(rest, Collect) ELSE rest

\* The buffer without c, and outside a collect without an empty tail.
Scrubbed(c) ==
    LET emptied == [i \in DOMAIN buffer |->
                      IF buffer[i] = c THEN none ELSE buffer[i]]
        full == {i \in DOMAIN buffer : emptied[i] # none}
    IN  IF InCollect THEN emptied
        ELSE SubSeq(emptied, 1, Max(full \cup {0}))

\* The last reference went.
Die(c, rest) ==
    /\ IF Walkable(c)
       THEN /\ UNCHANGED shape
            /\ stack' = Append(rest, Drop(c))
       ELSE /\ shape' = [shape EXCEPT ![c] = "free"]
            /\ stack' = rest
    /\ IF buffered[c] /\ shape[c] = "arr"
       THEN /\ buffered' = [buffered EXCEPT ![c] = FALSE]
            /\ buffer' = Scrubbed(c)
       ELSE UNCHANGED <<buffered, buffer>>
    /\ UNCHANGED color

Decrement(c, rest) ==
    /\ rc' = [rc EXCEPT ![c] = @ - 1]
    /\ IF rc[c] = 1 THEN Die(c, rest) ELSE Nominate(c, rest)

\* The drop guard keeps the last reference for later.
Defer(c, rest) ==
    /\ pending' = Append(pending, c)
    /\ stack' = IF Active("loop") THEN rest ELSE Append(rest, Loop)

Release(c, rest) ==
    \/ /\ Decrement(c, rest)
       /\ UNCHANGED pending
    \/ /\ rest # <<>>
       /\ rc[c] = 1 /\ Walkable(c)
       /\ Defer(c, rest)
       /\ UNCHANGED <<shape, rc, color, buffered, buffer>>

\* The outermost deferral's loop runs what was put off, the last first.
LoopStep ==
    /\ At("loop")
    /\ pending # <<>>
    /\ pending' = Front(pending)
    /\ Decrement(Last(pending), stack)
    /\ UNCHANGED <<held, slot, processed, corpses, phase>>

LoopEnd ==
    /\ At("loop")
    /\ pending = <<>>
    /\ stack' = Below
    /\ UNCHANGED <<held, shape, slot, rc, color, buffered, buffer, processed, corpses, pending, phase>>

\* The drop of the cell on top releases its next child.
DropChild ==
    /\ At("drop")
    /\ \E i \in Top.next..2 :
         /\ slot[Top.cell][i] # none
         /\ \A j \in Top.next..(i - 1) : slot[Top.cell][j] = none
         /\ Release(slot[Top.cell][i], Append(Below, [Top EXCEPT !.next = i + 1]))
    /\ UNCHANGED <<held, slot, processed, corpses, phase>>

Free(cs) == /\ shape' = [c \in Cell |-> IF c \in cs THEN "free" ELSE shape[c]]
            /\ slot' = [c \in Cell |-> IF c \in cs THEN NoSlots ELSE slot[c]]

\* Its children are gone: it is freed, or stays for the next root walk.
DropEnd ==
    /\ At("drop")
    /\ \A i \in Top.next..2 : slot[Top.cell][i] = none
    /\ stack' = Below
    /\ color' = [color EXCEPT ![Top.cell] = "black"]
    /\ IF buffered[Top.cell] /\ Parks(Top.cell)
       THEN UNCHANGED <<shape, slot, buffered, buffer>>
       ELSE /\ Free({Top.cell})
            /\ buffered' = [buffered EXCEPT ![Top.cell] = FALSE]
            /\ buffer' = IF buffered[Top.cell] THEN Scrubbed(Top.cell) ELSE buffer
    /\ UNCHANGED <<held, rc, processed, corpses, phase, pending>>

-----------------------------------------------------------------------------
(***************************************************************************)
(* The collector.                                                          *)
(***************************************************************************)

Then(step) == stack' = Append(Below, [Top EXCEPT !.step = step])

\* The entries whose cells finished dying in the buffer; with those still
\* being dismantled further up the stack (a mutant).
DeadOrDying == {i \in DOMAIN buffer : buffer[i] # none /\ rc[buffer[i]] = 0}
Dead == {i \in DOMAIN buffer :
           /\ buffer[i] # none
           /\ rc[buffer[i]] = 0
           /\ color[buffer[i]] = "black"}

\* The root walk frees the dead, passes over the dying, and takes from each
\* cell the rest reaches the edges that come out of them.
Mark ==
    /\ At("mark")
    /\ LET dead == {buffer[i] : i \in Dead}
           roots == {c \in Range(buffer) \ {none} : rc[c] # 0 /\ color[c] = "purple"}
           gray == Reached(roots)
       IN  /\ buffer' = [i \in DOMAIN buffer |-> IF i \in Dead THEN none ELSE buffer[i]]
           /\ Free(dead)
           /\ buffered' = [c \in Cell |-> buffered[c] /\ c \notin dead]
           /\ color' = [c \in Cell |-> IF c \in gray THEN "gray" ELSE color[c]]
           /\ rc' = [c \in Cell |-> IF Walkable(c) THEN rc[c] - EdgesInto(gray, c)
                                    ELSE rc[c]]
    /\ processed' = Len(buffer)
    /\ Then("scan")
    /\ UNCHANGED <<held, corpses, phase, pending>>

\* What a gray cell with references left reaches; the cell alone (a mutant).
LiveAlone(gray) == {c \in gray : rc[c] # 0}
Live(gray) == Reached({c \in gray : rc[c] # 0})

\* The live gray cells get their edges back; the others are garbage.
Scan ==
    /\ At("scan")
    /\ LET gray == {c \in Cell : color[c] = "gray"}
           live == Live(gray)
       IN  /\ color' = [c \in Cell |-> IF c \in live THEN "black"
                                       ELSE IF c \in gray THEN "white" ELSE color[c]]
           /\ rc' = [c \in Cell |-> IF Walkable(c) THEN rc[c] + EdgesInto(live, c)
                                    ELSE rc[c]]
    /\ Then("sweep")
    /\ UNCHANGED <<held, shape, slot, buffered, buffer, processed, corpses, phase, pending>>

\* Whether the trial has paid for slot i of a white cell a with a destructor,
\* which must not release it again: any walkable child; only a fellow corpse
\* (a mutant).
PaidIfCorpse(a, i) == i \in Walked(a) /\ slot[a][i] # none
                      /\ Walkable(slot[a][i]) /\ rc[slot[a][i]] = 0
Paid(a, i) == i \in Walked(a) /\ slot[a][i] # none /\ Walkable(slot[a][i])

\* The white cells become corpses.  An obj or arr releases its leaves here;
\* the others keep theirs, and what the walk cannot read, for their
\* destructors.
Sweep ==
    /\ At("sweep")
    /\ LET white == {c \in Cell : color[c] = "white"}
           bare == {c \in white : ~OwnDestructor(c)}
           left == [c \in Cell |-> rc[c] - IF Walkable(c) THEN 0 ELSE EdgesInto(bare, c)]
       IN  /\ corpses' = white
           /\ color' = [c \in Cell |-> IF c \in white THEN "black" ELSE color[c]]
           /\ buffered' = [c \in Cell |-> buffered[c] /\ c \notin Range(buffer) \cup white]
           /\ rc' = left
           /\ shape' = [c \in Cell |-> IF rc[c] # 0 /\ left[c] = 0 THEN "free" ELSE shape[c]]
           /\ slot' = [c \in Cell |-> [i \in Slot |->
                         IF c \in white \ bare /\ Paid(c, i) THEN none ELSE slot[c][i]]]
    /\ Then("free")
    /\ UNCHANGED <<held, buffer, processed, phase, pending>>

\* finalize_all frees a corpse or hands it to its destructor.
Finalize(c) ==
    /\ At("free")
    /\ c \in corpses
    /\ corpses' = corpses \ {c}
    /\ \/ /\ OwnDestructor(c)
          /\ stack' = Append(stack, Drop(c))
          /\ UNCHANGED <<shape, slot, rc, pending>>
       \/ /\ shape[c] = "bag"
          /\ rc' = [rc EXCEPT ![c] = 1]
          /\ Defer(c, stack)
          /\ UNCHANGED <<shape, slot>>
       \/ /\ ~OwnDestructor(c)
          /\ Free({c})
          /\ UNCHANGED <<stack, rc, pending>>
    /\ UNCHANGED <<held, color, buffered, buffer, processed, phase>>

\* A mutant: the whole buffer is dropped.
CollectEndBlank ==
    /\ At("free")
    /\ corpses = {}
    /\ buffer' = <<>>
    /\ processed' = 0
    /\ stack' = Below
    /\ UNCHANGED <<held, shape, slot, rc, color, buffered, corpses, phase, pending>>

\* The candidates nominated since the collect began are the next one's.
CollectEnd ==
    /\ At("free")
    /\ corpses = {}
    /\ buffer' = Filter(SubSeq(buffer, processed + 1, Len(buffer)), Cell)
    /\ processed' = 0
    /\ stack' = Below
    /\ UNCHANGED <<held, shape, slot, rc, color, buffered, corpses, phase, pending>>

-----------------------------------------------------------------------------
(***************************************************************************)
(* The program, and main's exit.                                           *)
(***************************************************************************)

Running == stack = <<>> /\ phase = "run"

New(c, k) ==
    /\ Running
    /\ shape[c] = "free"
    /\ held' = [held EXCEPT ![c] = 1]
    /\ shape' = [shape EXCEPT ![c] = k]
    /\ rc' = [rc EXCEPT ![c] = 1]
    /\ UNCHANGED <<slot, color, buffered, buffer, stack, processed, corpses, phase, pending>>

Store(a, i, b) ==
    /\ Running
    /\ held[a] > 0 /\ Walkable(a) /\ slot[a][i] = none
    /\ held[b] > 0
    /\ Cardinality({e \in Cell \X Slot : slot[e[1]][e[2]] # none}) < EdgeBound
    /\ slot' = [slot EXCEPT ![a][i] = b]
    /\ rc' = [rc EXCEPT ![b] = @ + 1]
    /\ UNCHANGED <<held, shape, color, buffered, buffer, stack, processed, corpses, phase, pending>>

Load(a, i) ==
    /\ Running
    /\ held[a] > 0 /\ slot[a][i] # none /\ held[slot[a][i]] < HandleBound
    /\ held' = [held EXCEPT ![slot[a][i]] = @ + 1]
    /\ rc' = [rc EXCEPT ![slot[a][i]] = @ + 1]
    /\ UNCHANGED <<shape, slot, color, buffered, buffer, stack, processed, corpses, phase, pending>>

Clear(a, i) ==
    /\ Running
    /\ held[a] > 0 /\ slot[a][i] # none
    /\ slot' = [slot EXCEPT ![a][i] = none]
    /\ Release(slot[a][i], stack)
    /\ UNCHANGED <<held, processed, corpses, phase>>

DropHandle(a) ==
    /\ Running
    /\ held[a] > 0
    /\ held' = [held EXCEPT ![a] = @ - 1]
    /\ Release(a, stack)
    /\ UNCHANGED <<slot, processed, corpses, phase>>

\* A mutant: a last entry alone is not worth a collect.
StartCollectPastOne ==
    /\ stack = <<>>
    /\ phase # "over"
    /\ Len(buffer) > 1
    /\ stack' = <<Collect>>
    /\ UNCHANGED <<held, shape, slot, rc, color, buffered, buffer, processed, corpses, phase, pending>>

\* gc(), and a round of the drain at exit.
StartCollect ==
    /\ stack = <<>>
    /\ phase # "over"
    /\ buffer # <<>>
    /\ stack' = <<Collect>>
    /\ UNCHANGED <<held, shape, slot, rc, color, buffered, buffer, processed, corpses, phase, pending>>

\* Every scope's drops have run.
Exit ==
    /\ Running
    /\ \A c \in Cell : held[c] = 0
    /\ phase' = "drain"
    /\ UNCHANGED <<held, shape, slot, rc, color, buffered, buffer, stack, processed, corpses, pending>>

Drained ==
    /\ phase = "drain"
    /\ stack = <<>>
    /\ buffer = <<>>
    /\ phase' = "over"
    /\ UNCHANGED <<held, shape, slot, rc, color, buffered, buffer, stack, processed, corpses, pending>>

Runtime == \/ DropChild
           \/ DropEnd
           \/ LoopStep
           \/ LoopEnd
           \/ Mark
           \/ Scan
           \/ Sweep
           \/ \E c \in Cell : Finalize(c)
           \/ CollectEnd
           \/ (phase = "drain" /\ StartCollect)
           \/ Drained

Next == \/ \E c \in Cell :
              \/ \E k \in Shape : New(c, k)
              \/ \E i \in Slot, b \in Cell : Store(c, i, b)
              \/ \E i \in Slot : Load(c, i) \/ Clear(c, i)
              \/ DropHandle(c)
        \/ (phase = "run" /\ StartCollect)
        \/ Exit
        \/ Runtime

Spec == Init /\ [][Next]_vars /\ WF_vars(Runtime)

-----------------------------------------------------------------------------
(***************************************************************************)
(* What is promised.                                                       *)
(***************************************************************************)

\* The variables keep their types; no count goes below zero and no cell is
\* gray or white but inside the phase that says so.
TypeOK ==
    /\ held \in [Cell -> 0..HandleBound]
    /\ shape \in [Cell -> Shape \cup {"free"}]
    /\ slot \in [Cell -> [Slot -> Cell \cup {none}]]
    /\ rc \in [Cell -> Nat]
    /\ color \in [Cell -> {"black", "purple"}
                        \cup (IF At("scan") THEN {"gray"} ELSE {})
                        \cup (IF At("sweep") THEN {"white"} ELSE {})]
    /\ buffered \in [Cell -> BOOLEAN]
    /\ buffer \in Seq(Cell \cup {none})
    /\ pending \in Seq(Cell)
    /\ stack \in Seq([step : {"drop", "loop", "mark", "scan", "sweep", "free"},
                      cell : Cell \cup {none}, next : 1..3])
    /\ processed \in 0..Len(buffer)
    /\ corpses \subseteq Cell
    /\ phase \in {"run", "drain", "over"}

\* Whether slot i of a still stands for a reference: a's own while it lives
\* (its count on trial included),
\* its drop's or its destructor's when it dies, nobody's after that.
Owns(a, i) ==
    \/ shape[a] # "free" /\ (rc[a] # 0 \/ color[a] = "gray")
    \/ \E f \in DOMAIN stack : stack[f].cell = a /\ i >= stack[f].next
    \/ a \in corpses /\ OwnDestructor(a)

Owners(c, from) ==
    held[c] + Cardinality({n \in DOMAIN pending : pending[n] = c})
        + Cardinality({e \in from : Owns(e[1], e[2]) /\ slot[e[1]][e[2]] = c})

\* Between the phases that move counts, a refcount is the number of scopes,
\* slots and pending releases on the cell: dropping the same edge twice, or
\* never, as a corpse's parent and as the trial, shows here at once.
CountsOwners ==
    ~At("scan") /\ ~At("sweep") =>
        \A c \in Cell : rc[c] = Owners(c, Cell \X Slot)

\* After the mark, what is left of a gray cell's count are the references
\* from outside the gray cells: one at 0 is held by garbage or by a cell the
\* scan will find live, never by a scope or a cell the walk cannot read
\* ("any node whose rc is 0 is a confirmed cycle (no external refs)").
TrialLeavesOutsiders ==
    At("scan") =>
        \A c \in Cell : color[c] = "gray" =>
            rc[c] = Owners(c, {e \in Cell \X Slot : color[e[1]] # "gray"
                                                  \/ e[2] \notin Walked(e[1])})

\* The buffer and FLAG_BUFFERED agree: every entry to come is allocated and
\* flagged, no cell is entered twice, no flagged cell is without an entry (it
\* could never be nominated again), and the root walk can tell a cell that is
\* dead from one being dismantled further up the stack.
BufferSound ==
    ~At("sweep") =>
    LET kept == {i \in DOMAIN buffer :
                   buffer[i] # none /\ (Active("free") => i > processed)}
    IN  /\ \A i \in kept : shape[buffer[i]] # "free" /\ buffered[buffer[i]]
        /\ \A i, j \in kept : buffer[i] = buffer[j] => i = j
        /\ \A c \in Cell : buffered[c] => \E i \in kept : buffer[i] = c
        /\ \A f \in DOMAIN stack :
              stack[f].step = "drop" /\ buffered[stack[f].cell] => color[stack[f].cell] # "black"

\* When the drain is over nothing is allocated that could be released: what
\* is left hangs on a cycle through a slot the walk cannot read.
NothingLeaks ==
    phase = "over" =>
        LET opaque == {c \in Cell : shape[c] = "bag" /\ slot[c][2] # none}
            edges == [c \in Cell |-> {slot[c][i] : i \in Slot} \ {none}]
            ring == {c \in opaque : c \in Graph!Reach(edges, {slot[c][2]})}
        IN  {c \in Cell : shape[c] # "free"} \subseteq Graph!Reach(edges, ring)

\* The drain at main's exit ends, though a round may nominate cells for the
\* next ("loop until quiescent.  Terminates: ...").
DrainEnds == phase = "drain" ~> phase = "over"

\* What the program reaches is what it would reach with no memory management:
\* no release, collect or destructor frees or cuts a cell somebody still
\* reaches, and no allocation hands one out again.
Program == INSTANCE ObjectGraph WITH cell <- Graph!View(held, shape, slot)
ImplementsGraph == Program!Spec
=============================================================================
