----------------------- MODULE CycleCollector_proofs -----------------------
(***************************************************************************)
(* Every refcount is the number of its owners, the trial leaves a cell on  *)
(* trial what it has from outside, and the buffer and FLAG_BUFFERED agree: *)
(* for every finite set of cells, every threshold and every bound.         *)
(*                                                                         *)
(* The invariant counts edges.  An edge, a slot of a cell, stands for a    *)
(* reference while the cell lives, is on trial or waits for its destructor *)
(* (Whole), or while a drop has it yet to release (HasFrame).  The sum of  *)
(* CollectInv, Counted, holds in every phase: what the trial has taken off *)
(* a count is the walked edges out of gray or white cells (PaidFor).  It   *)
(* needs the other conjuncts: where a drop can be and of what (Frames),    *)
(* what a corpse is (Corpses), what gray and white mean (Trial) and what   *)
(* the buffer holds (Buffer), each of which needs the sum in turn: a cell  *)
(* is not freed under a drop because the drop's cell has no owner, and has *)
(* none because its count is 0.                                            *)
(***************************************************************************)
EXTENDS CycleCollector, Filtering_proofs

-----------------------------------------------------------------------------
(* The inductive invariant.                                                *)

\* The slots of all cells; the stack's frames; the collect's phases; the colours
\* of the trial.
Edge == Cell \X Slot
Frame == [step : {"drop", "loop", "mark", "scan", "sweep", "free"},
          cell : Cell \cup {none}, next : 1..3]
Phases == {"mark", "scan", "sweep", "free"}
Tracing == {"mark", "scan", "sweep"}
Trying == {"gray", "white"}

\* A frame of the stack s has slot i of a yet to release.
HasFrame(s, a, i) == \E f \in DOMAIN s : s[f].cell = a /\ i >= s[f].next

\* Every slot of a stands for a reference.
Whole(a) == \/ rc[a] # 0
            \/ color[a] \in Trying
            \/ a \in corpses /\ OwnDestructor(a)

\* Slot e stands for a reference, with the stack s.
Owned(s, e) == Whole(e[1]) \/ HasFrame(s, e[1], e[2])

\* The references on c that the slots are, with the stack s and the slots v;
\* those the trial has taken off its count; those put off in p.
EdgesOf(s, v, c) == {e \in Edge : Owned(s, e) /\ v[e[1]][e[2]] = c}
PaidFor(c) == {e \in Edge : /\ color[e[1]] \in Trying
                            /\ e[2] \in Walked(e[1])
                            /\ slot[e[1]][e[2]] = c
                            /\ Walkable(c)}
Late(p, c) == {n \in DOMAIN p : p[n] = c}

\* A freed block has no count; what the walk knows nothing of has no slots and
\* is no candidate.
Shapes ==
    \A c \in Cell :
        /\ shape[c] = "free" => rc[c] = 0
        /\ ~Walkable(c) => slot[c] = NoSlots /\ ~buffered[c] /\ color[c] = "black"

\* A drop is of one walkable cell without references, off trial and no corpse;
\* no cell is dropped twice at a time; one collect runs, on top while it traces.
Frames ==
    /\ \A f \in DOMAIN stack :
          IF stack[f].step = "drop"
          THEN /\ stack[f].cell \in Cell
               /\ Walkable(stack[f].cell)
               /\ rc[stack[f].cell] = 0
               /\ stack[f].cell \notin corpses
               /\ color[stack[f].cell] \notin Trying
          ELSE stack[f].cell = none
    /\ \A f, g \in DOMAIN stack :
          stack[f].step = "drop" /\ stack[g].step = "drop"
             /\ stack[f].cell = stack[g].cell => f = g
    /\ \A f, g \in DOMAIN stack :
          stack[f].step \in Phases /\ stack[g].step \in Phases => f = g
    /\ \A f \in DOMAIN stack : stack[f].step \in Tracing => f = Len(stack)

\* A corpse is black, out of the buffer and has no count.
Corpses ==
    /\ corpses # {} => Active("free")
    /\ \A c \in corpses :
          Walkable(c) /\ rc[c] = 0 /\ color[c] = "black" /\ ~buffered[c]

\* White has no count left; a walk from gray stays in gray.
Trial ==
    /\ \A c \in Cell : color[c] = "white" => rc[c] = 0
    /\ \A c \in Cell : color[c] = "gray" =>
          \A b \in Children(c) : color[b] = "gray"

\* The entries of the buffer still to be looked at.
Kept == {i \in DOMAIN buffer :
           buffer[i] # none /\ (Active("free") => i > processed)}

\* The entries to come are the flagged cells, once each; a flagged cell that
\* is being dismantled is purple, and so is one that has a count, but during a trial.
Buffer ==
    /\ ~InCollect => processed = 0
    /\ \A i \in Kept : buffered[buffer[i]]
    /\ \A i, j \in Kept : buffer[i] = buffer[j] => i = j
    /\ \A c \in Cell : buffered[c] => \E i \in Kept : buffer[i] = c
    /\ \A f \in DOMAIN stack :
          stack[f].step = "drop" /\ buffered[stack[f].cell]
             => color[stack[f].cell] = "purple"
    /\ ~At("scan") /\ ~At("sweep") =>
          \A c \in Cell : buffered[c] /\ rc[c] # 0 => color[c] = "purple"
    /\ At("scan") \/ At("sweep") => processed = Len(buffer)

\* A count, and what the trial took off it, is what holds the cell.
Counted ==
    \A c \in Cell :
        rc[c] + Cardinality(PaidFor(c))
           = held[c] + Cardinality(Late(pending, c))
                 + Cardinality(EdgesOf(stack, slot, c))

CollectInv == Shapes /\ Frames /\ Corpses /\ Trial /\ Buffer /\ Counted

-----------------------------------------------------------------------------
(* Counting edges.                                                         *)

\* An edge is a slot of a cell.
LEMMA EdgeIs ==
  /\ \A e \in Edge : e[1] \in Cell /\ e[2] \in Slot /\ e = <<e[1], e[2]>>
  /\ \A a \in Cell, i \in Slot : /\ <<a, i>> \in Edge
                                 /\ <<a, i>>[1] = a
                                 /\ <<a, i>>[2] = i
BY DEF Edge

\* There are finitely many: two slots for each of finitely many cells.
LEMMA EdgeFinite == IsFiniteSet(Edge)
<1>1. IsFiniteSet(Slot)
  <2>1. Slot = {1} \cup {2}
    BY DEF Slot
  <2>2. IsFiniteSet({1})
    BY FS_Singleton
  <2>3. \A x : IsFiniteSet({1} \cup {x})
    BY <2>2, FS_AddElement
  <2>. QED
    BY <2>1, <2>3
<1>. QED
  BY <1>1, CellAssumption, FS_Product DEF Edge

\* A set of edges is finite; counts of two of them.
LEMMA EdgesNat ==
  ASSUME NEW S \in SUBSET Edge
  PROVE  /\ IsFiniteSet(S)
         /\ Cardinality(S) \in Nat
         /\ Cardinality(S) = 0 <=> S = {}
         /\ \A T \in SUBSET S : /\ Cardinality(T) \in Nat
                                /\ Cardinality(T) <= Cardinality(S)
                                /\ Cardinality(S \ T) = Cardinality(S) - Cardinality(T)
<1>1. IsFiniteSet(S)
  BY EdgeFinite, FS_Subset
<1>2. Cardinality(S) \in Nat /\ (Cardinality(S) = 0 <=> S = {})
  BY <1>1, FS_CardinalityType, FS_EmptySet
<1>3. ASSUME NEW T \in SUBSET S
      PROVE  /\ Cardinality(T) \in Nat
             /\ Cardinality(T) <= Cardinality(S)
             /\ Cardinality(S \ T) = Cardinality(S) - Cardinality(T)
  <2>1. IsFiniteSet(T) /\ Cardinality(T) <= Cardinality(S)
    BY <1>1, FS_Subset
  <2>2. IsFiniteSet(S \ T)
    BY <1>1, FS_Subset
  <2>3. Cardinality(T) \in Nat /\ Cardinality(S \ T) \in Nat
    BY <2>1, <2>2, FS_CardinalityType
  <2>4. Cardinality((S \ T) \cup T)
           = Cardinality(S \ T) + Cardinality(T) - Cardinality((S \ T) \cap T)
    BY <2>1, <2>2, FS_Union
  <2>5. (S \ T) \cup T = S /\ (S \ T) \cap T = {}
    OBVIOUS
  <2>6. Cardinality(S) = Cardinality(S \ T) + Cardinality(T) - 0
    BY <2>4, <2>5, FS_EmptySet
  <2>. QED
    BY <1>2, <2>1, <2>3, <2>6
<1>. QED
  BY <1>1, <1>2, <1>3

\* One edge more.
LEMMA EdgeMore ==
  ASSUME NEW S \in SUBSET Edge, NEW e \in Edge, e \notin S
  PROVE  Cardinality(S \cup {e}) = Cardinality(S) + 1
BY EdgesNat, FS_AddElement

\* One edge fewer.
LEMMA EdgeLess ==
  ASSUME NEW S \in SUBSET Edge, NEW e \in S
  PROVE  Cardinality(S \ {e}) = Cardinality(S) - 1
BY EdgesNat, FS_RemoveElement

\* The edges the collector counts.
LEMMA EdgesIntoIs ==
  ASSUME NEW from \in SUBSET Cell, NEW c
  PROVE  EdgesInto(from, c)
            = Cardinality({e \in Edge : /\ e[1] \in from
                                        /\ e[2] \in Walked(e[1])
                                        /\ slot[e[1]][e[2]] = c})
<1>1. {e \in from \X Slot : e[2] \in Walked(e[1]) /\ slot[e[1]][e[2]] = c}
        = {e \in Edge : /\ e[1] \in from
                        /\ e[2] \in Walked(e[1])
                        /\ slot[e[1]][e[2]] = c}
  <2>1. \A e : e \in from \X Slot <=> e \in Edge /\ e[1] \in from
    BY DEF Edge
  <2>. QED
    BY <2>1
<1>. QED
  BY <1>1 DEF EdgesInto

-----------------------------------------------------------------------------
(* Counting what was put off.                                              *)

\* What was put off on one cell is counted, and is not nothing if it is there.
LEMMA LateNat ==
  ASSUME NEW p \in Seq(Cell), NEW c
  PROVE  /\ IsFiniteSet(Late(p, c))
         /\ Cardinality(Late(p, c)) \in Nat
         /\ (\E n \in DOMAIN p : p[n] = c) => Cardinality(Late(p, c)) >= 1
<1>1. Late(p, c) \subseteq 1 .. Len(p) /\ Len(p) \in Nat
  BY DEF Late
<1>0. IsFiniteSet(1 .. Len(p))
  BY <1>1, FS_Interval
<1>2. IsFiniteSet(Late(p, c))
  BY <1>0, <1>1, FS_Subset
<1>3. Cardinality(Late(p, c)) \in Nat /\ (Cardinality(Late(p, c)) = 0 <=> Late(p, c) = {})
  BY <1>2, FS_CardinalityType, FS_EmptySet
<1>4. (\E n \in DOMAIN p : p[n] = c) => Late(p, c) # {}
  BY DEF Late
<1>. QED
  BY <1>2, <1>3, <1>4

\* Deferring the last reference on x (run_deferred's push) is one more on x alone.
LEMMA LateAppend ==
  ASSUME NEW p \in Seq(Cell), NEW c \in Cell, NEW x \in Cell
  PROVE  Cardinality(Late(Append(p, x), c))
            = Cardinality(Late(p, c)) + (IF x = c THEN 1 ELSE 0)
<1>1. /\ Len(p) \in Nat /\ DOMAIN p = 1 .. Len(p)
      /\ DOMAIN Append(p, x) = 1 .. Len(p) + 1
      /\ Append(p, x)[Len(p) + 1] = x
      /\ \A n \in 1 .. Len(p) : Append(p, x)[n] = p[n]
  OBVIOUS
<1>2. Late(Append(p, x), c) = IF x = c THEN Late(p, c) \cup {Len(p) + 1} ELSE Late(p, c)
  BY <1>1 DEF Late
<1>3. Len(p) + 1 \notin Late(p, c)
  BY <1>1 DEF Late
<1>4. IsFiniteSet(Late(p, c)) /\ Cardinality(Late(p, c)) \in Nat
  BY LateNat
<1>5. Cardinality(Late(p, c) \cup {Len(p) + 1}) = Cardinality(Late(p, c)) + 1
  BY <1>3, <1>4, FS_AddElement
<1>. QED
  BY <1>2, <1>4, <1>5

\* What is left of a sequence without its last element.
LEMMA FrontIs ==
  ASSUME NEW S, NEW s \in Seq(S), s # <<>>
  PROVE  /\ Len(s) \in Nat \ {0} /\ DOMAIN s = 1 .. Len(s) /\ Len(s) \in DOMAIN s
         /\ s[Len(s)] \in S
         /\ Front(s) \in Seq(S)
         /\ DOMAIN Front(s) = 1 .. Len(s) - 1
         /\ Len(Front(s)) = Len(s) - 1
         /\ \A n \in 1 .. Len(s) - 1 : Front(s)[n] = s[n]
<1>1. Len(s) \in Nat \ {0} /\ DOMAIN s = 1 .. Len(s) /\ Len(s) \in DOMAIN s
  OBVIOUS
<1>. DEFINE m == Len(s) - 1
<1>2. m \in Nat /\ m + 1 = Len(s) /\ \A i \in 1 .. m : s[i] \in S
  BY <1>1
<1>. HIDE DEF m
<1>3. /\ SubSeq(s, 1, m) \in Seq(S)
      /\ Len(SubSeq(s, 1, m)) = IF 1 <= m THEN m - 1 + 1 ELSE 0
      /\ \A i \in 1 .. m - 1 + 1 : SubSeq(s, 1, m)[i] = s[1 + i - 1]
  BY <1>2, SubSeqProperties
<1>4. Len(SubSeq(s, 1, m)) = m /\ \A i \in 1 .. m : SubSeq(s, 1, m)[i] = s[i]
  BY <1>2, <1>3
<1>5. DOMAIN SubSeq(s, 1, m) = 1 .. m
  BY <1>3, <1>4
<1>6. Front(s) = SubSeq(s, 1, m)
  BY DEF Front, m
<1>. QED
  BY <1>1, <1>2, <1>3, <1>4, <1>5, <1>6 DEF m

\* Taking the last release put off is one fewer on its cell alone.
LEMMA LateFront ==
  ASSUME NEW p \in Seq(Cell), p # <<>>, NEW c \in Cell
  PROVE  /\ Front(p) \in Seq(Cell) /\ Last(p) \in Cell
         /\ Cardinality(Late(p, c))
              = Cardinality(Late(Front(p), c)) + (IF Last(p) = c THEN 1 ELSE 0)
<1>1. /\ Front(p) \in Seq(Cell) /\ Last(p) \in Cell
      /\ Len(p) \in Nat \ {0} /\ DOMAIN p = 1 .. Len(p)
      /\ DOMAIN Front(p) = 1 .. Len(p) - 1
      /\ \A n \in 1 .. Len(p) - 1 : Front(p)[n] = p[n]
  BY FrontIs DEF Last
<1>2. Late(p, c) = IF Last(p) = c THEN Late(Front(p), c) \cup {Len(p)} ELSE Late(Front(p), c)
  BY <1>1 DEF Late, Last
<1>3. Len(p) \notin Late(Front(p), c)
  BY <1>1 DEF Late
<1>4. IsFiniteSet(Late(Front(p), c)) /\ Cardinality(Late(Front(p), c)) \in Nat
  BY <1>1, LateNat
<1>5. Cardinality(Late(Front(p), c) \cup {Len(p)}) = Cardinality(Late(Front(p), c)) + 1
  BY <1>3, <1>4, FS_AddElement
<1>. QED
  BY <1>1, <1>2, <1>4, <1>5

-----------------------------------------------------------------------------
(* The stack.                                                              *)

\* The stack s has the frames of stack, each perhaps further on.
SameFrames(s) ==
    /\ s \in Seq(Frame)
    /\ DOMAIN s = DOMAIN stack
    /\ \A f \in DOMAIN s : s[f].step = stack[f].step /\ s[f].cell = stack[f].cell

\* What Frames asks of one frame, after the step.
GoodAfter(x) ==
    IF x.step = "drop"
    THEN /\ x.cell \in Cell
         /\ shape'[x.cell] \notin {"free", "leaf"}
         /\ rc'[x.cell] = 0
         /\ x.cell \notin corpses'
         /\ color'[x.cell] \notin Trying
    ELSE x.cell = none

\* The frames the code pushes: a drop at its first slot, a collect, a loop.
LEMMA FrameIs ==
  /\ \A x \in Frame : /\ x.step \in {"drop", "loop", "mark", "scan", "sweep", "free"}
                      /\ x.cell \in Cell \cup {none}
                      /\ x.next \in 1..3
  /\ \A c \in Cell : /\ Drop(c) \in Frame /\ Drop(c).step = "drop"
                     /\ Drop(c).cell = c /\ Drop(c).next = 1
  /\ Collect \in Frame /\ Collect.step = "mark" /\ Collect.cell = none
  /\ Loop \in Frame /\ Loop.step = "loop" /\ Loop.cell = none
<1>1. \A x \in Frame : /\ x.step \in {"drop", "loop", "mark", "scan", "sweep", "free"}
                       /\ x.cell \in Cell \cup {none}
                       /\ x.next \in 1..3
  BY DEF Frame
<1>2. \A c \in Cell : /\ Drop(c) \in Frame /\ Drop(c).step = "drop"
                      /\ Drop(c).cell = c /\ Drop(c).next = 1
  BY DEF Frame, Drop
<1>3. Collect \in Frame /\ Collect.step = "mark" /\ Collect.cell = none
  BY DEF Frame, Collect
<1>4. Loop \in Frame /\ Loop.step = "loop" /\ Loop.cell = none
  BY DEF Frame, Loop
<1>. QED
  BY <1>1, <1>2, <1>3, <1>4

\* The stack is a sequence of frames, the innermost on top.
LEMMA StackIs ==
  ASSUME TypeOK
  PROVE  /\ stack \in Seq(Frame)
         /\ Len(stack) \in Nat /\ DOMAIN stack = 1 .. Len(stack)
         /\ \A f \in DOMAIN stack : stack[f] \in Frame
         /\ SameFrames(stack)
         /\ stack # <<>> => /\ Len(stack) \in DOMAIN stack
                            /\ Top = stack[Len(stack)]
                            /\ Top \in Frame
<1>1. stack \in Seq(Frame)
  BY DEF TypeOK, Frame
<1>2. Len(stack) \in Nat /\ DOMAIN stack = 1 .. Len(stack)
      /\ \A f \in DOMAIN stack : stack[f] \in Frame
  BY <1>1
<1>3. stack # <<>> => Len(stack) \in DOMAIN stack
  BY <1>1
<1>. QED
  BY <1>1, <1>2, <1>3 DEF SameFrames, Top

\* A frame pushed on s: what it has yet to release is added to what s had.
LEMMA PushIs ==
  ASSUME NEW s \in Seq(Frame), NEW x \in Frame
  PROVE  /\ Append(s, x) \in Seq(Frame) /\ Append(s, x) # <<>>
         /\ Len(s) \in Nat /\ DOMAIN s = 1 .. Len(s)
         /\ Len(Append(s, x)) = Len(s) + 1
         /\ DOMAIN Append(s, x) = DOMAIN s \cup {Len(s) + 1}
         /\ Len(s) + 1 \notin DOMAIN s
         /\ Append(s, x)[Len(s) + 1] = x
         /\ \A f \in DOMAIN s : Append(s, x)[f] = s[f]
         /\ \A a, i : HasFrame(Append(s, x), a, i)
                         <=> HasFrame(s, a, i) \/ (x.cell = a /\ i >= x.next)
<1>1. /\ Append(s, x) \in Seq(Frame) /\ Append(s, x) # <<>>
      /\ Len(s) \in Nat /\ DOMAIN s = 1 .. Len(s)
      /\ Len(Append(s, x)) = Len(s) + 1
      /\ DOMAIN Append(s, x) = 1 .. Len(s) + 1
      /\ Append(s, x)[Len(s) + 1] = x
      /\ \A f \in 1 .. Len(s) : Append(s, x)[f] = s[f]
  OBVIOUS
<1>2. 1 .. Len(s) + 1 = (1 .. Len(s)) \cup {Len(s) + 1} /\ Len(s) + 1 \notin 1 .. Len(s)
  BY <1>1
<1>3. \A a, i : HasFrame(Append(s, x), a, i)
                   <=> HasFrame(s, a, i) \/ (x.cell = a /\ i >= x.next)
  BY <1>1, <1>2 DEF HasFrame
<1>. QED
  BY <1>1, <1>2, <1>3

\* The last frame gone, or replaced.
LEMMA PopIs ==
  ASSUME TypeOK, stack # <<>>
  PROVE  /\ Below \in Seq(Frame) /\ DOMAIN stack = DOMAIN Below \cup {Len(stack)}
         /\ Len(stack) \notin DOMAIN Below
         /\ Len(Below) + 1 = Len(stack)
         /\ \A f \in DOMAIN Below : Below[f] = stack[f]
         /\ Top = stack[Len(stack)] /\ Top \in Frame
         /\ \A a, i : HasFrame(stack, a, i)
                         <=> HasFrame(Below, a, i) \/ (Top.cell = a /\ i >= Top.next)
<1>1. stack \in Seq(Frame) /\ Top = stack[Len(stack)] /\ Top \in Frame
  BY StackIs
<1>2. /\ Len(stack) \in Nat \ {0} /\ DOMAIN stack = 1 .. Len(stack)
      /\ Below \in Seq(Frame)
      /\ DOMAIN Below = 1 .. Len(stack) - 1
      /\ Len(Below) = Len(stack) - 1
      /\ \A n \in 1 .. Len(stack) - 1 : Below[n] = stack[n]
  BY <1>1, FrontIs DEF Below
<1>3. /\ DOMAIN stack = DOMAIN Below \cup {Len(stack)}
      /\ Len(stack) \notin DOMAIN Below
      /\ \A f \in DOMAIN Below : Below[f] = stack[f]
      /\ Len(Below) + 1 = Len(stack)
  BY <1>2
<1>4. \A a, i : HasFrame(stack, a, i)
                   <=> HasFrame(Below, a, i) \/ (Top.cell = a /\ i >= Top.next)
  BY <1>1, <1>3 DEF HasFrame
<1>. QED
  BY <1>1, <1>2, <1>3, <1>4

\* The frame on top goes on, those under it stay.
LEMMA ReplaceIs ==
  ASSUME TypeOK, stack # <<>>, NEW x \in Frame
  PROVE  /\ Append(Below, x) \in Seq(Frame)
         /\ DOMAIN Append(Below, x) = DOMAIN stack
         /\ Len(Append(Below, x)) = Len(stack)
         /\ Append(Below, x)[Len(stack)] = x
         /\ \A f \in DOMAIN stack : f # Len(stack) => Append(Below, x)[f] = stack[f]
<1>1. /\ Below \in Seq(Frame) /\ DOMAIN stack = DOMAIN Below \cup {Len(stack)}
      /\ Len(stack) \notin DOMAIN Below
      /\ Len(Below) + 1 = Len(stack)
      /\ \A f \in DOMAIN Below : Below[f] = stack[f]
  BY PopIs
<1>2. /\ Append(Below, x) \in Seq(Frame)
      /\ Len(Append(Below, x)) = Len(Below) + 1
      /\ DOMAIN Append(Below, x) = DOMAIN Below \cup {Len(Below) + 1}
      /\ Append(Below, x)[Len(Below) + 1] = x
      /\ \A f \in DOMAIN Below : Append(Below, x)[f] = Below[f]
  BY <1>1, PushIs
<1>. QED
  BY <1>1, <1>2

\* Which steps are under way with a frame of s as before, and one more.
LEMMA SameActive ==
  ASSUME TypeOK, NEW s, SameFrames(s), stack' = s
  PROVE  /\ \A step : (Active(step)' <=> Active(step)) /\ (At(step)' <=> At(step))
         /\ InCollect' <=> InCollect
<1>1. /\ stack' \in Seq(Frame) /\ DOMAIN stack' = DOMAIN stack
      /\ \A f \in DOMAIN stack : stack'[f].step = stack[f].step
  BY DEF SameFrames
<1>2. \A step : Active(step)' <=> Active(step)
  BY <1>1 DEF Active
<1>3. stack \in Seq(Frame)
  BY StackIs
<1>4. Len(stack') = Len(stack) /\ (stack' = <<>> <=> stack = <<>>)
      /\ (stack # <<>> => Len(stack) \in DOMAIN stack)
  BY <1>1, <1>3
<1>5. \A step : At(step)' <=> At(step)
  BY <1>1, <1>4 DEF At, Top
<1>. QED
  BY <1>2, <1>5 DEF InCollect

\* A frame pushed: what runs and what is on top.
LEMMA PushActive ==
  ASSUME NEW s, SameFrames(s), NEW x \in Frame, stack' = Append(s, x)
  PROVE  /\ \A step : /\ Active(step)' <=> Active(step) \/ x.step = step
                      /\ At(step)' <=> x.step = step
         /\ InCollect' <=> InCollect \/ x.step \in Phases
<1>1. /\ s \in Seq(Frame) /\ DOMAIN s = DOMAIN stack
      /\ \A f \in DOMAIN stack : s[f].step = stack[f].step
  BY DEF SameFrames
<1>2. /\ stack' # <<>> /\ Len(stack') = Len(s) + 1
      /\ DOMAIN stack' = DOMAIN s \cup {Len(s) + 1}
      /\ stack'[Len(s) + 1] = x
      /\ \A f \in DOMAIN s : stack'[f] = s[f]
  BY <1>1, PushIs
<1>3. \A step : Active(step)' <=> Active(step) \/ x.step = step
  BY <1>1, <1>2 DEF Active
<1>4. \A step : At(step)' <=> x.step = step
  BY <1>2 DEF At, Top
<1>5. InCollect' <=> InCollect \/ x.step \in Phases
  BY <1>3 DEF InCollect, Phases
<1>. QED
  BY <1>3, <1>4, <1>5

\* The frame on top returned: no phase that traces is under it, and no
\* collect either if it was one itself (in_collect keeps collects from nesting).
LEMMA PopActive ==
  ASSUME TypeOK, Frames, stack # <<>>, stack' = Below
  PROVE  /\ \A step : step # Top.step => (Active(step)' <=> Active(step))
         /\ ~At("mark")' /\ ~At("scan")' /\ ~At("sweep")'
         /\ Top.step \notin Phases => (InCollect' <=> InCollect)
         /\ Top.step \in Phases => ~InCollect'
         /\ stack' \in Seq(Frame)
         /\ \A f \in DOMAIN stack' : f \in DOMAIN stack /\ stack'[f] = stack[f]
<1>1. /\ Below \in Seq(Frame) /\ DOMAIN stack = DOMAIN Below \cup {Len(stack)}
      /\ Len(stack) \notin DOMAIN Below
      /\ \A f \in DOMAIN Below : Below[f] = stack[f]
      /\ Top = stack[Len(stack)]
  BY PopIs
<1>2. \A step : step # Top.step => (Active(step)' <=> Active(step))
  BY <1>1 DEF Active
<1>3. \A f \in DOMAIN stack' : stack'[f].step \notin Tracing
  BY <1>1 DEF Frames
<1>4. stack' # <<>> => Len(stack') \in DOMAIN stack'
  BY <1>1
<1>5. ~At("mark")' /\ ~At("scan")' /\ ~At("sweep")'
  BY <1>3, <1>4 DEF At, Top, Tracing
<1>6. Top.step \notin Phases => (InCollect' <=> InCollect)
  BY <1>2 DEF InCollect, Phases
<1>7. Top.step \in Phases => ~InCollect'
  BY <1>1 DEF InCollect, Active, Frames, Phases
<1>. QED
  BY <1>1, <1>2, <1>5, <1>6, <1>7

\* A return leaves the other frames as they should be.
LEMMA FramesPop ==
  ASSUME TypeOK, Frames, stack # <<>>, stack' = Below,
         \A f \in DOMAIN stack' : GoodAfter(stack'[f])
  PROVE  Frames'
<1>1. /\ DOMAIN stack = DOMAIN Below \cup {Len(stack)}
      /\ Len(stack) \notin DOMAIN Below
      /\ \A f \in DOMAIN Below : Below[f] = stack[f]
  BY PopIs
<1>2. \A f \in DOMAIN stack' :
         f \in DOMAIN stack /\ f # Len(stack) /\ stack'[f] = stack[f]
  BY <1>1
<1>3. \A f, g \in DOMAIN stack' :
         stack'[f].step = "drop" /\ stack'[g].step = "drop"
            /\ stack'[f].cell = stack'[g].cell => f = g
  BY <1>2 DEF Frames
<1>4. \A f, g \in DOMAIN stack' :
         stack'[f].step \in Phases /\ stack'[g].step \in Phases => f = g
  BY <1>2 DEF Frames
<1>5. \A f \in DOMAIN stack' : stack'[f].step \notin Tracing
  BY <1>2 DEF Frames
<1>. QED
  BY <1>3, <1>4, <1>5 DEF Frames, GoodAfter, Walkable

-----------------------------------------------------------------------------
(* Cells.                                                                  *)

\* The fields of one cell.
LEMMA CellIs ==
  ASSUME TypeOK, NEW c \in Cell
  PROVE  /\ rc[c] \in Nat /\ held[c] \in 0 .. HandleBound /\ held[c] \in Nat
         /\ shape[c] \in Shape \cup {"free"}
         /\ slot[c] \in [Slot -> Cell \cup {none}]
         /\ \A i \in Slot : slot[c][i] \in Cell \cup {none}
         /\ color[c] \in {"black", "purple", "gray", "white"}
         /\ color[c] = "gray" => At("scan")
         /\ color[c] = "white" => At("sweep")
         /\ buffered[c] \in BOOLEAN
         /\ c # none
<1>1. /\ rc[c] \in Nat /\ held[c] \in 0 .. HandleBound
      /\ shape[c] \in Shape \cup {"free"}
      /\ slot[c] \in [Slot -> Cell \cup {none}]
      /\ buffered[c] \in BOOLEAN
  BY DEF TypeOK
<1>2. color[c] \in {"black", "purple"} \cup (IF At("scan") THEN {"gray"} ELSE {})
                                       \cup (IF At("sweep") THEN {"white"} ELSE {})
  BY DEF TypeOK
<1>3. HandleBound \in Nat
  BY BoundAssumption
<1>4. \A i \in Slot : slot[c][i] \in Cell \cup {none}
  BY <1>1
<1>5. /\ color[c] \in {"black", "purple", "gray", "white"}
      /\ color[c] = "gray" => At("scan")
      /\ color[c] = "white" => At("sweep")
  BY <1>2
<1>. QED
  BY <1>1, <1>3, <1>4, <1>5, CellAssumption

\* Outside the scan and the sweep no cell is gray or white: the trial has
\* taken nothing off any count.
LEMMA NoTrial ==
  ASSUME TypeOK, ~At("scan"), ~At("sweep")
  PROVE  /\ \A c \in Cell : color[c] \in {"black", "purple"} /\ color[c] \notin Trying
         /\ color \in [Cell -> {"black", "purple"}]
         /\ \A c : PaidFor(c) = {} /\ Cardinality(PaidFor(c)) = 0
<1>1. \A c \in Cell : color[c] \in {"black", "purple"} /\ color[c] \notin Trying
  BY CellIs DEF Trying
<1>2. \A c : PaidFor(c) = {}
  BY <1>1, EdgeIs DEF PaidFor
<1>3. color \in [Cell -> {"black", "purple"}]
  <2>1. color \in [Cell -> {color[x] : x \in Cell}]
    BY DEF TypeOK
  <2>. QED
    BY <1>1, <2>1
<1>. QED
  BY <1>1, <1>2, <1>3, FS_EmptySet

\* The types, after a step that leaves no trial.
LEMMA TypesAfter ==
  ASSUME held' \in [Cell -> 0..HandleBound],
         shape' \in [Cell -> Shape \cup {"free"}],
         slot' \in [Cell -> [Slot -> Cell \cup {none}]],
         rc' \in [Cell -> Nat],
         color' \in [Cell -> {"black", "purple"}],
         buffered' \in [Cell -> BOOLEAN],
         buffer' \in Seq(Cell \cup {none}),
         pending' \in Seq(Cell),
         stack' \in Seq(Frame),
         processed' \in 0..Len(buffer'),
         corpses' \subseteq Cell,
         phase' \in {"run", "drain", "over"}
  PROVE  TypeOK'
<1>1. color' \in [Cell -> {"black", "purple"}
                            \cup (IF At("scan")' THEN {"gray"} ELSE {})
                            \cup (IF At("sweep")' THEN {"white"} ELSE {})]
  OBVIOUS
<1>. QED
  BY <1>1 DEF TypeOK, Frame

-----------------------------------------------------------------------------
(* The buffer.                                                             *)

\* The greatest of a bounded set.
LEMMA MaxIs ==
  ASSUME NEW S \in SUBSET Nat, 0 \in S, NEW n \in Nat, \A x \in S : x <= n
  PROVE  Max(S) \in S /\ \A x \in S : x <= Max(S)
<1>. DEFINE T == {m \in Nat : \A x \in S : x <= m}
<1>1. T \in SUBSET Nat /\ T # {}
  OBVIOUS
<1>2. PICK m \in T : \A k \in T : m <= k
  BY <1>1, LeastNatural
<1>3. m \in S
  <2>1. SUFFICES ASSUME m \notin S PROVE FALSE
    OBVIOUS
  <2>2. \A x \in S : x <= m - 1
    BY <2>1
  <2>3. m - 1 \in Nat
    BY <2>2
  <2>4. m - 1 \in T
    BY <2>2, <2>3
  <2>. QED
    BY <1>2, <2>4
<1>4. \E x \in S : \A y \in S : x >= y
  BY <1>3
<1>5. Max(S) \in S /\ \A y \in S : Max(S) >= y
  BY <1>4 DEF Max
<1>. QED
  BY <1>5

\* The entries to come are positions of the buffer that hold cells.
LEMMA KeptIs ==
  ASSUME TypeOK
  PROVE  /\ \A i \in Kept : i \in DOMAIN buffer /\ i \in Nat /\ buffer[i] \in Cell
         /\ buffer \in Seq(Cell \cup {none}) /\ Len(buffer) \in Nat
         /\ DOMAIN buffer = 1 .. Len(buffer)
         /\ processed \in 0 .. Len(buffer)
<1>1. /\ buffer \in Seq(Cell \cup {none}) /\ processed \in 0 .. Len(buffer)
  BY DEF TypeOK
<1>2. Len(buffer) \in Nat /\ DOMAIN buffer = 1 .. Len(buffer)
      /\ \A i \in DOMAIN buffer : buffer[i] \in Cell \cup {none}
  BY <1>1
<1>. QED
  BY <1>1, <1>2 DEF Kept

\* The buffer without c (__torajs_cycle_unbuffer): entry by entry the same but
\* for c's own, and nothing of the others is cut off with the empty tail.
LEMMA ScrubbedIs ==
  ASSUME TypeOK, NEW c \in Cell
  PROVE  /\ Scrubbed(c) \in Seq(Cell \cup {none})
         /\ DOMAIN Scrubbed(c) \subseteq DOMAIN buffer
         /\ InCollect => Len(Scrubbed(c)) = Len(buffer)
         /\ \A i \in DOMAIN Scrubbed(c) :
               Scrubbed(c)[i] = IF buffer[i] = c THEN none ELSE buffer[i]
         /\ \A i \in DOMAIN buffer :
               buffer[i] # c /\ buffer[i] # none => i \in DOMAIN Scrubbed(c)
<1>. DEFINE b == [i \in DOMAIN buffer |-> IF buffer[i] = c THEN none ELSE buffer[i]]
            full == {i \in DOMAIN buffer : b[i] # none}
            m == Max(full \cup {0})
<1>1. /\ buffer \in Seq(Cell \cup {none})
      /\ Len(buffer) \in Nat /\ DOMAIN buffer = 1 .. Len(buffer)
  BY DEF TypeOK
<1>2. /\ b \in Seq(Cell \cup {none}) /\ DOMAIN b = DOMAIN buffer /\ Len(b) = Len(buffer)
      /\ \A i \in DOMAIN buffer : b[i] = IF buffer[i] = c THEN none ELSE buffer[i]
  BY <1>1
<1>3. full \subseteq DOMAIN buffer /\ \A i \in DOMAIN buffer : i \in full <=> b[i] # none
  OBVIOUS
<1>4. Scrubbed(c) = IF InCollect THEN b ELSE SubSeq(b, 1, m)
  BY DEF Scrubbed
<1>. HIDE DEF b, full
<1>5. /\ full \cup {0} \in SUBSET Nat /\ 0 \in full \cup {0}
      /\ \A x \in full \cup {0} : x <= Len(buffer)
  BY <1>1, <1>3
<1>6. m \in full \cup {0} /\ \A x \in full \cup {0} : x <= m
  BY <1>1, <1>5, MaxIs
<1>. HIDE DEF m
<1>7. m \in Nat /\ m <= Len(buffer) /\ \A i \in full : i <= m
  BY <1>1, <1>3, <1>5, <1>6
<1>8. \A i \in 1 .. m : b[i] \in Cell \cup {none}
  BY <1>1, <1>2, <1>7
<1>9. /\ SubSeq(b, 1, m) \in Seq(Cell \cup {none})
      /\ Len(SubSeq(b, 1, m)) = IF 1 <= m THEN m - 1 + 1 ELSE 0
      /\ \A i \in 1 .. m - 1 + 1 : SubSeq(b, 1, m)[i] = b[1 + i - 1]
  BY <1>7, <1>8, SubSeqProperties
<1>10. Len(SubSeq(b, 1, m)) = m /\ \A i \in 1 .. m : SubSeq(b, 1, m)[i] = b[i]
  BY <1>7, <1>9
<1>11. DOMAIN SubSeq(b, 1, m) = 1 .. m
  BY <1>9, <1>10
<1>12. CASE InCollect
  BY <1>2, <1>4, <1>12
<1>13. CASE ~InCollect
  <2>1. Scrubbed(c) = SubSeq(b, 1, m)
    BY <1>4, <1>13
  <2>2. 1 .. m \subseteq DOMAIN buffer
    BY <1>1, <1>7
  <2>3. \A i \in DOMAIN buffer : buffer[i] # c /\ buffer[i] # none => i \in 1 .. m
    BY <1>1, <1>2, <1>3, <1>7
  <2>. QED
    BY <1>2, <1>9, <1>10, <1>11, <1>13, <2>1, <2>2, <2>3
<1>. QED
  BY <1>12, <1>13

\* What is left to look at when c leaves the buffer.
LEMMA ScrubbedKept ==
  ASSUME TypeOK, NEW c \in Cell, ~InCollect => processed = 0,
         buffer' = Scrubbed(c), processed' = processed,
         Active("free")' <=> Active("free")
  PROVE  /\ buffer' \in Seq(Cell \cup {none})
         /\ processed' \in 0 .. Len(buffer')
         /\ \A i : i \in Kept' <=> i \in Kept /\ buffer[i] # c
         /\ \A i \in Kept' : buffer'[i] = buffer[i]
<1>1. /\ buffer' \in Seq(Cell \cup {none})
      /\ DOMAIN buffer' \subseteq DOMAIN buffer
      /\ InCollect => Len(buffer') = Len(buffer)
      /\ \A i \in DOMAIN buffer' :
            buffer'[i] = IF buffer[i] = c THEN none ELSE buffer[i]
      /\ \A i \in DOMAIN buffer :
            buffer[i] # c /\ buffer[i] # none => i \in DOMAIN buffer'
  BY ScrubbedIs
<1>2. processed \in 0 .. Len(buffer) /\ Len(buffer') \in Nat
  BY <1>1 DEF TypeOK
<1>3. processed' \in 0 .. Len(buffer')
  BY <1>1, <1>2
<1>4. \A i : i \in Kept' <=> i \in Kept /\ buffer[i] # c
  BY <1>1 DEF Kept
<1>5. \A i \in Kept' : buffer'[i] = buffer[i]
  BY <1>1, <1>4 DEF Kept
<1>. QED
  BY <1>1, <1>3, <1>4, <1>5

-----------------------------------------------------------------------------
(* A reference let go of.                                                  *)

\* A step that has a reference on c in hand, the one its count is over by,
\* with the frames s and the releases p put off: whatever it was in is already
\* without it.
Letting(s, p, c) ==
    /\ c \in Cell
    /\ p \in Seq(Cell)
    /\ SameFrames(s)
    /\ ~At("mark") /\ ~At("scan") /\ ~At("sweep")
    /\ held' \in [Cell -> 0..HandleBound]
    /\ slot' \in [Cell -> [Slot -> Cell \cup {none}]]
    /\ \A x \in Cell : ~Walkable(x) => slot'[x] = NoSlots
    /\ \A x \in Cell :
          rc[x] = held'[x] + Cardinality(Late(p, x))
                     + Cardinality(EdgesOf(s, slot', x)) + (IF x = c THEN 1 ELSE 0)
    /\ UNCHANGED <<processed, corpses, phase>>

\* A cell with a reference in hand has a count.
LEMMA LettingRc ==
  ASSUME TypeOK, NEW s, NEW p, NEW c, Letting(s, p, c)
  PROVE  rc[c] \in Nat \ {0}
<1>1. /\ c \in Cell /\ held'[c] \in Nat /\ rc[c] \in Nat
      /\ rc[c] = held'[c] + Cardinality(Late(p, c))
                    + Cardinality(EdgesOf(s, slot', c)) + 1
  BY CellIs, BoundAssumption DEF Letting
<1>2. Cardinality(Late(p, c)) \in Nat
  BY LateNat DEF Letting
<1>3. Cardinality(EdgesOf(s, slot', c)) \in Nat
  BY EdgesNat DEF EdgesOf
<1>. QED
  BY <1>1, <1>2, <1>3

\* What a decrement changes.
LEMMA DecrementIs ==
  ASSUME TypeOK, Shapes, NEW s, NEW p, NEW c, Letting(s, p, c), Decrement(c, s)
  PROVE  /\ rc' \in [Cell -> Nat]
         /\ rc[c] \in Nat \ {0} /\ rc'[c] = rc[c] - 1
         /\ \A x \in Cell : x # c => rc'[x] = rc[x]
         /\ shape' \in [Cell -> Shape \cup {"free"}]
         /\ \A x \in Cell : /\ Walkable(x)' <=> Walkable(x)
                            /\ Walkable(x) => shape'[x] = shape[x]
                            /\ OwnDestructor(x)' <=> OwnDestructor(x)
                            /\ shape'[x] = "free" => rc'[x] = 0
         /\ \A x \in Cell : x # c => /\ color'[x] = color[x]
                                     /\ buffered'[x] = buffered[x]
         /\ color' \in [Cell -> {"black", "purple"}]
         /\ buffered' \in [Cell -> BOOLEAN]
         /\ ~Walkable(c) => color'[c] = color[c] /\ buffered'[c] = buffered[c]
         /\ \/ stack' = s /\ (rc[c] # 1 \/ ~Walkable(c))
            \/ stack' = Append(s, Collect) /\ rc[c] # 1 /\ ~InCollect
            \/ stack' = Append(s, Drop(c)) /\ rc[c] = 1 /\ Walkable(c)
<1>. c \in Cell
  BY DEF Letting
<1>1. rc[c] \in Nat \ {0}
  BY LettingRc
<1>2. /\ rc \in [Cell -> Nat] /\ rc' = [rc EXCEPT ![c] = @ - 1]
      /\ shape \in [Cell -> Shape \cup {"free"}]
      /\ buffered \in [Cell -> BOOLEAN]
  BY DEF Decrement, TypeOK
<1>3. rc' \in [Cell -> Nat] /\ rc'[c] = rc[c] - 1 /\ \A x \in Cell : x # c => rc'[x] = rc[x]
  BY <1>1, <1>2
<1>4. color \in [Cell -> {"black", "purple"}]
  <2>1. color \in [Cell -> {"black", "purple"}
                        \cup (IF At("scan") THEN {"gray"} ELSE {})
                        \cup (IF At("sweep") THEN {"white"} ELSE {})]
    BY DEF TypeOK
  <2>2. ~At("scan") /\ ~At("sweep")
    BY DEF Letting
  <2>. QED
    BY <2>1, <2>2
<1>5. CASE rc[c] = 1 /\ Walkable(c)
  <2>1. Die(c, s)
    BY <1>5 DEF Decrement
  <2>2. /\ shape' = shape /\ stack' = Append(s, Drop(c)) /\ color' = color
        /\ buffered' = [buffered EXCEPT ![c] = FALSE] \/ buffered' = buffered
    BY <1>5, <2>1 DEF Die
  <2>3. \A x \in Cell : shape[x] = "free" => x # c /\ rc[x] = 0
    BY <1>5 DEF Shapes, Walkable
  <2>. QED
    BY <1>1, <1>2, <1>3, <1>4, <1>5, <2>2, <2>3 DEF Walkable, OwnDestructor
<1>6. CASE rc[c] = 1 /\ ~Walkable(c)
  <2>1. Die(c, s)
    BY <1>6 DEF Decrement
  <2>2. /\ shape' = [shape EXCEPT ![c] = "free"] /\ stack' = s /\ color' = color
        /\ buffered' = [buffered EXCEPT ![c] = FALSE] \/ buffered' = buffered
        /\ ~buffered[c]
    BY <1>6, <2>1 DEF Die, Shapes
  <2>3. \A x \in Cell : shape'[x] = IF x = c THEN "free" ELSE shape[x]
    BY <1>2, <2>2
  <2>4. shape[c] \in {"free", "leaf"}
    BY <1>6 DEF Walkable
  <2>5. rc'[c] = 0 /\ \A x \in Cell : shape'[x] = "free" => rc'[x] = 0
    BY <1>3, <1>6, <2>3 DEF Shapes
  <2>6. \A x \in Cell : /\ Walkable(x)' <=> Walkable(x)
                        /\ Walkable(x) => shape'[x] = shape[x]
                        /\ OwnDestructor(x)' <=> OwnDestructor(x)
    BY <2>3, <2>4 DEF Walkable, OwnDestructor
  <2>7. shape' \in [Cell -> Shape \cup {"free"}]
    BY <1>2, <2>2
  <2>8. /\ \A x \in Cell : x # c => buffered'[x] = buffered[x]
        /\ buffered' \in [Cell -> BOOLEAN]
        /\ buffered'[c] = buffered[c]
    BY <1>2, <2>2
  <2>9. stack' = s /\ color' = color
    BY <2>2
  <2>. QED
    BY <1>1, <1>3, <1>4, <1>6, <2>5, <2>6, <2>7, <2>8, <2>9
<1>7. CASE rc[c] # 1
  <2>1. Nominate(c, s)
    BY <1>7 DEF Decrement
  <2>2. /\ shape' = shape
        /\ \/ color' = color /\ buffered' = buffered /\ stack' = s
           \/ /\ Walkable(c)
              /\ color' = [color EXCEPT ![c] = "purple"]
              /\ buffered' = [buffered EXCEPT ![c] = TRUE]
              /\ \/ stack' = Append(s, Collect) /\ ~InCollect
                 \/ stack' = s
    BY <2>1 DEF Nominate
  <2>3. \A x \in Cell : shape[x] = "free" => x # c /\ rc[x] = 0
    BY <1>1 DEF Shapes
  <2>. QED
    BY <1>1, <1>2, <1>3, <1>4, <1>7, <2>2, <2>3 DEF Walkable, OwnDestructor
<1>. QED
  BY <1>5, <1>6, <1>7

\* What it does to the buffer.
LEMMA DecrementBuffers ==
  ASSUME TypeOK, Shapes, NEW s, NEW p, NEW c, Letting(s, p, c), Decrement(c, s)
  PROVE  \/ UNCHANGED <<buffered, buffer>>
         \/ /\ rc[c] # 1 /\ ~buffered[c] /\ Walkable(c)
            /\ color'[c] = "purple" /\ buffered'[c] /\ buffer' = Append(buffer, c)
         \/ rc[c] = 1 /\ buffered[c] /\ ~buffered'[c] /\ buffer' = Scrubbed(c)
<1>. c \in Cell
  BY DEF Letting
<1>1. buffered \in [Cell -> BOOLEAN] /\ color \in [Cell -> {color[x] : x \in Cell}]
  BY DEF TypeOK
<1>5. CASE rc[c] = 1
  <2>1. Die(c, s)
    BY <1>5 DEF Decrement
  <2>. QED
    BY <1>1, <1>5, <2>1 DEF Die
<1>7. CASE rc[c] # 1
  <2>1. Nominate(c, s)
    BY <1>7 DEF Decrement
  <2>. QED
    BY <1>1, <1>7, <2>1 DEF Nominate
<1>. QED
  BY <1>5, <1>7

\* The stack after a release: as it was, or with one frame more.
LEMMA LetActive ==
  ASSUME TypeOK, NEW s, NEW p, NEW c, Letting(s, p, c),
         \/ stack' = s
         \/ stack' = Append(s, Collect) /\ ~InCollect
         \/ stack' = Append(s, Drop(c))
         \/ stack' = Append(s, Loop)
  PROVE  /\ stack' \in Seq(Frame)
         /\ Active("free")' <=> Active("free")
         /\ ~At("scan")' /\ ~At("sweep")'
         /\ InCollect => InCollect'
<1>. c \in Cell /\ SameFrames(s) /\ s \in Seq(Frame) /\ ~At("scan") /\ ~At("sweep")
  BY DEF Letting, SameFrames
<1>1. CASE stack' = s
  BY <1>1, SameActive
<1>2. CASE stack' = Append(s, Collect) /\ ~InCollect
  <2>1. Collect \in Frame /\ Collect.step = "mark"
    BY FrameIs
  <2>. QED
    BY <1>2, <2>1, PushActive, PushIs
<1>3. CASE stack' = Append(s, Drop(c))
  <2>1. Drop(c) \in Frame /\ Drop(c).step = "drop"
    BY FrameIs
  <2>. QED
    BY <1>3, <2>1, PushActive, PushIs
<1>4. CASE stack' = Append(s, Loop)
  <2>1. Loop \in Frame /\ Loop.step = "loop"
    BY FrameIs
  <2>. QED
    BY <1>4, <2>1, PushActive, PushIs
<1>. QED
  BY <1>1, <1>2, <1>3, <1>4

\* The frames that were there, after a step that lets those cells be.
LEMMA FramesStay ==
  ASSUME TypeOK, Frames, NEW s, SameFrames(s),
         \A x \in Cell :
            Walkable(x) /\ rc[x] = 0 /\ color[x] \notin Trying /\ x \notin corpses
               => /\ shape'[x] \notin {"free", "leaf"} /\ rc'[x] = 0
                  /\ color'[x] \notin Trying /\ x \notin corpses'
  PROVE  \A f \in DOMAIN s : /\ GoodAfter(s[f])
                             /\ s[f].step = "drop" => rc[s[f].cell] = 0
BY DEF Frames, SameFrames, GoodAfter

\* One frame more, of a cell that had none or of another kind.
LEMMA FramesPush ==
  ASSUME TypeOK, Frames, NEW s, SameFrames(s), NEW x \in Frame,
         stack' = Append(s, x),
         \A f \in DOMAIN s : GoodAfter(s[f]),
         GoodAfter(x),
         x.step = "drop" => \A f \in DOMAIN s : s[f].step = "drop" => s[f].cell # x.cell,
         x.step \in Phases => ~InCollect,
         ~At("mark"), ~At("scan"), ~At("sweep")
  PROVE  Frames'
<1>. DEFINE n == Len(s) + 1
<1>1. /\ s \in Seq(Frame) /\ DOMAIN s = DOMAIN stack
      /\ \A f \in DOMAIN s : s[f].step = stack[f].step /\ s[f].cell = stack[f].cell
  BY DEF SameFrames
<1>2. /\ DOMAIN stack' = DOMAIN s \cup {n} /\ n \notin DOMAIN s
      /\ stack'[n] = x /\ \A f \in DOMAIN s : stack'[f] = s[f]
  BY <1>1, PushIs
<1>. HIDE DEF n
<1>3. \A f \in DOMAIN stack' : GoodAfter(stack'[f])
  BY <1>2
<1>4. \A f, g \in DOMAIN stack' :
         stack'[f].step = "drop" /\ stack'[g].step = "drop"
            /\ stack'[f].cell = stack'[g].cell => f = g
  <2>1. \A f, g \in DOMAIN s :
           s[f].step = "drop" /\ s[g].step = "drop" /\ s[f].cell = s[g].cell => f = g
    BY <1>1 DEF Frames
  <2>. QED
    BY <1>2, <2>1
<1>5. \A f, g \in DOMAIN stack' :
         stack'[f].step \in Phases /\ stack'[g].step \in Phases => f = g
  <2>1. \A f, g \in DOMAIN s : s[f].step \in Phases /\ s[g].step \in Phases => f = g
    BY <1>1 DEF Frames
  <2>2. x.step \in Phases => \A f \in DOMAIN s : s[f].step \notin Phases
    BY <1>1 DEF InCollect, Active, Phases
  <2>. QED
    BY <1>2, <2>1, <2>2
<1>6. \A f \in DOMAIN stack' : stack'[f].step \in Tracing => f = Len(stack')
  <2>1. \A f \in DOMAIN s : s[f].step \notin Tracing
    <3>1. stack # <<>> => Top = stack[Len(stack)] /\ Len(stack) \in DOMAIN stack
      BY StackIs
    <3>2. stack = <<>> => DOMAIN stack = {}
      OBVIOUS
    <3>. QED
      BY <1>1, <3>1, <3>2 DEF Frames, At, Tracing
  <2>2. Len(stack') = n
    BY <1>1, PushIs DEF n
  <2>. QED
    BY <1>2, <2>1, <2>2
<1>. QED
  BY <1>3, <1>4, <1>5, <1>6 DEF Frames, GoodAfter, Walkable

\* A step that leaves the frames leaves what is asked of them, if their cells
\* are as they should be.
LEMMA FramesSame ==
  ASSUME TypeOK, Frames, NEW s, SameFrames(s), stack' = s,
         \A f \in DOMAIN s : GoodAfter(s[f])
  PROVE  Frames'
<1>1. /\ DOMAIN stack' = DOMAIN stack
      /\ \A f \in DOMAIN stack : stack'[f].step = stack[f].step /\ stack'[f].cell = stack[f].cell
  BY DEF SameFrames
<1>2. /\ \A f, g \in DOMAIN stack' :
            stack'[f].step = "drop" /\ stack'[g].step = "drop"
               /\ stack'[f].cell = stack'[g].cell => f = g
      /\ \A f, g \in DOMAIN stack' :
            stack'[f].step \in Phases /\ stack'[g].step \in Phases => f = g
  BY <1>1 DEF Frames
<1>3. \A f \in DOMAIN stack' : GoodAfter(stack'[f])
  OBVIOUS
<1>4. \A f \in DOMAIN stack' : stack'[f].step \in Tracing => f = Len(stack')
  <2>1. stack \in Seq(Frame) /\ stack' \in Seq(Frame)
    BY StackIs DEF SameFrames
  <2>2. Len(stack') = Len(stack)
    BY <1>1, <2>1
  <2>. QED
    BY <1>1, <2>2 DEF Frames
<1>. QED
  BY <1>2, <1>3, <1>4 DEF Frames, GoodAfter, Walkable

-----------------------------------------------------------------------------
(* A decrement keeps the invariant.                                        *)

\* Whatever a decrement does, the collect that may be running under it goes on.
LEMMA DecrementStack ==
  ASSUME TypeOK, Shapes, NEW s, NEW p, NEW c, Letting(s, p, c), Decrement(c, s)
  PROVE  /\ stack' \in Seq(Frame)
         /\ Active("free")' <=> Active("free")
         /\ ~At("scan")' /\ ~At("sweep")'
         /\ InCollect => InCollect'
BY DecrementIs, LetActive

\* A decrement keeps the cells, the frames, the corpses and the trial: a cell
\* that begins to die is not dying already, and a collect begins only when none runs.
LEMMA DecrementPlaces ==
  ASSUME TypeOK, CollectInv, NEW s, NEW p, NEW c, Letting(s, p, c), Decrement(c, s)
  PROVE  Shapes' /\ Frames' /\ Corpses' /\ Trial'
<1>. USE DEF CollectInv
<1>. c \in Cell /\ SameFrames(s) /\ corpses' = corpses
     /\ ~At("mark") /\ ~At("scan") /\ ~At("sweep")
     /\ \A x \in Cell : ~Walkable(x) => slot'[x] = NoSlots
  BY DEF Letting
<1>1. /\ rc' \in [Cell -> Nat]
      /\ rc[c] \in Nat \ {0} /\ rc'[c] = rc[c] - 1
      /\ \A x \in Cell : x # c => rc'[x] = rc[x]
      /\ \A x \in Cell : /\ Walkable(x)' <=> Walkable(x)
                         /\ shape'[x] = "free" => rc'[x] = 0
      /\ \A x \in Cell : x # c => color'[x] = color[x] /\ buffered'[x] = buffered[x]
      /\ color' \in [Cell -> {"black", "purple"}]
      /\ ~Walkable(c) => color'[c] = color[c] /\ buffered'[c] = buffered[c]
  BY DecrementIs
<1>2. /\ Active("free")' <=> Active("free")
      /\ InCollect => InCollect'
  BY DecrementStack
<1>3. Shapes'
  BY <1>1 DEF Shapes
<1>4. \A x \in Cell : color'[x] \notin Trying /\ color'[x] # "gray" /\ color'[x] # "white"
  BY <1>1 DEF Trying
<1>5. Frames'
  <2>1. \A x \in Cell :
            Walkable(x) /\ rc[x] = 0 /\ color[x] \notin Trying /\ x \notin corpses
               => /\ shape'[x] \notin {"free", "leaf"} /\ rc'[x] = 0
                  /\ color'[x] \notin Trying /\ x \notin corpses'
    BY <1>1, <1>4 DEF Walkable
  <2>2. \A f \in DOMAIN s : /\ GoodAfter(s[f])
                            /\ s[f].step = "drop" => rc[s[f].cell] = 0
    BY <2>1, FramesStay
  <2>3. CASE stack' = s
    BY <2>2, <2>3, FramesSame
  <2>4. CASE stack' = Append(s, Collect) /\ ~InCollect
    <3>1. Collect \in Frame /\ Collect.step = "mark" /\ Collect.cell = none
      BY FrameIs
    <3>2. GoodAfter(Collect)
      BY <3>1 DEF GoodAfter
    <3>. HIDE DEF Collect
    <3>. QED
      BY <2>2, <2>4, <3>1, <3>2, FramesPush
  <2>5. CASE stack' = Append(s, Drop(c)) /\ rc[c] = 1 /\ Walkable(c)
    <3>1. Drop(c) \in Frame /\ Drop(c).step = "drop" /\ Drop(c).cell = c
      BY FrameIs
    <3>2. c \notin corpses
      BY <1>1 DEF Corpses
    <3>3. GoodAfter(Drop(c))
      BY <1>1, <1>4, <2>5, <3>1, <3>2 DEF GoodAfter, Walkable
    <3>4. \A f \in DOMAIN s : s[f].step = "drop" => s[f].cell # Drop(c).cell
      BY <2>2, <2>5, <3>1
    <3>. QED
      BY <2>2, <2>5, <3>1, <3>3, <3>4, FramesPush DEF Phases
  <2>. QED
    BY <2>3, <2>4, <2>5, DecrementIs
<1>6. Corpses'
  <2>1. c \notin corpses /\ corpses \subseteq Cell
    BY <1>1 DEF Corpses, TypeOK
  <2>. QED
    BY <1>1, <1>2, <2>1 DEF Corpses
<1>7. Trial'
  BY <1>4 DEF Trial
<1>. QED
  BY <1>3, <1>5, <1>6, <1>7

\* A decrement keeps the buffer and FLAG_BUFFERED in agreement: it nominates
\* a cell that is not in, or takes a dying array out.
LEMMA DecrementBuffer ==
  ASSUME TypeOK, CollectInv, NEW s, NEW p, NEW c, Letting(s, p, c), Decrement(c, s)
  PROVE  /\ Buffer'
         /\ buffer' \in Seq(Cell \cup {none})
         /\ processed' \in 0 .. Len(buffer')
<1>. USE DEF CollectInv
<1>. c \in Cell /\ SameFrames(s) /\ processed' = processed /\ ~At("scan") /\ ~At("sweep")
  BY DEF Letting
<1>1. /\ rc' \in [Cell -> Nat]
      /\ rc[c] \in Nat \ {0} /\ rc'[c] = rc[c] - 1
      /\ \A x \in Cell : x # c => rc'[x] = rc[x]
      /\ \A x \in Cell : x # c => color'[x] = color[x] /\ buffered'[x] = buffered[x]
      /\ ~Walkable(c) => color'[c] = color[c] /\ buffered'[c] = buffered[c]
      /\ buffered' \in [Cell -> BOOLEAN]
  BY DecrementIs
<1>2. /\ Active("free")' <=> Active("free")
      /\ InCollect => InCollect'
      /\ ~At("scan")' /\ ~At("sweep")'
  BY DecrementStack
<1>3. /\ buffer \in Seq(Cell \cup {none}) /\ Len(buffer) \in Nat
      /\ DOMAIN buffer = 1 .. Len(buffer)
      /\ processed \in 0 .. Len(buffer)
      /\ \A x \in Cell : buffered[x] \in BOOLEAN
  BY DEF TypeOK
<1>4. ~InCollect' => processed' = 0
  BY <1>2 DEF Buffer
\* No cell being dismantled is c; none is black in the buffer.
<1>5. /\ \A f \in DOMAIN s : s[f].step = "drop" =>
            s[f].cell \in Cell /\ s[f].cell # c
               /\ (buffered[s[f].cell] => color[s[f].cell] = "purple")
      /\ buffered[c] => color[c] = "purple"
  <2>1. buffered[c] => color[c] = "purple"
    BY <1>1 DEF Buffer
  <2>2. ASSUME NEW f \in DOMAIN s, s[f].step = "drop"
        PROVE  /\ s[f].cell \in Cell /\ s[f].cell # c
               /\ buffered[s[f].cell] => color[s[f].cell] = "purple"
    <3>1. f \in DOMAIN stack /\ stack[f].step = "drop" /\ stack[f].cell = s[f].cell
      BY <2>2 DEF SameFrames
    <3>2. stack[f].cell \in Cell /\ rc[stack[f].cell] = 0
      BY <3>1 DEF Frames
    <3>3. buffered[stack[f].cell] => color[stack[f].cell] = "purple"
      BY <3>1 DEF Buffer
    <3>. QED
      BY <1>1, <3>1, <3>2, <3>3
  <2>. QED
    BY <2>1, <2>2
<1>6. /\ color'[c] = "purple" \/ ~buffered'[c]
      /\ rc[c] = 1 => color' = color
  <2>1. CASE rc[c] = 1
    BY <1>1, <1>5, <2>1, DecrementBuffers DEF Decrement, Die
  <2>2. CASE rc[c] # 1
    <3>1. Nominate(c, s)
      BY <2>2 DEF Decrement
    <3>. QED
      BY <1>5, <2>2, <3>1 DEF Nominate, TypeOK
  <2>. QED
    BY <2>1, <2>2
<1>7. \A f \in DOMAIN stack' :
         stack'[f].step = "drop" /\ buffered'[stack'[f].cell]
            => color'[stack'[f].cell] = "purple"
  <2>1. \A f \in DOMAIN s : s[f].step = "drop" /\ buffered'[s[f].cell]
                                => color'[s[f].cell] = "purple"
    BY <1>1, <1>5
  <2>2. CASE stack' = s
    BY <2>1, <2>2
  <2>3. CASE stack' = Append(s, Collect) \/ stack' = Append(s, Drop(c))
    <3>1. s \in Seq(Frame) /\ Collect \in Frame /\ Drop(c) \in Frame
          /\ Collect.step = "mark" /\ Drop(c).cell = c
      BY FrameIs DEF SameFrames
    <3>2. PICK x \in Frame : stack' = Append(s, x) /\ (x.step = "drop" => x.cell = c)
      BY <2>3, <3>1
    <3>3. /\ DOMAIN stack' = DOMAIN s \cup {Len(s) + 1}
          /\ stack'[Len(s) + 1] = x
          /\ \A f \in DOMAIN s : stack'[f] = s[f]
      BY <3>1, <3>2, PushIs
    <3>. QED
      BY <1>6, <2>1, <3>2, <3>3
  <2>. QED
    BY <2>2, <2>3, DecrementIs
<1>8. \A x \in Cell : buffered'[x] /\ rc'[x] # 0 => color'[x] = "purple"
  BY <1>1, <1>6 DEF Buffer
<1>9. CASE UNCHANGED <<buffered, buffer>>
  <2>1. Kept' = Kept
    BY <1>2, <1>9 DEF Kept
  <2>. QED
    BY <1>2, <1>3, <1>4, <1>7, <1>8, <1>9, <2>1 DEF Buffer
<1>10. CASE /\ rc[c] # 1 /\ ~buffered[c] /\ Walkable(c)
            /\ color'[c] = "purple" /\ buffered'[c] /\ buffer' = Append(buffer, c)
  <2>. DEFINE n == Len(buffer) + 1
  <2>1. /\ buffer' \in Seq(Cell \cup {none}) /\ Len(buffer') = n
        /\ DOMAIN buffer' = DOMAIN buffer \cup {n}
        /\ n \notin DOMAIN buffer /\ n > processed
        /\ buffer'[n] = c /\ \A i \in DOMAIN buffer : buffer'[i] = buffer[i]
    BY <1>3, <1>10
  <2>2. processed' \in 0 .. Len(buffer')
    BY <1>3, <2>1
  <2>. HIDE DEF n
  <2>3. Kept' = Kept \cup {n} /\ Kept \subseteq DOMAIN buffer /\ n \notin Kept
    BY <1>2, <2>1, CellAssumption DEF Kept
  <2>4. \A i \in Kept : buffer[i] # c
    BY <1>10 DEF Buffer
  <2>5. \A i \in Kept' : buffered'[buffer'[i]]
    <3>1. \A i \in Kept : buffer[i] \in Cell /\ buffered[buffer[i]]
      BY KeptIs DEF Buffer
    <3>2. \A i \in Kept : buffer'[i] = buffer[i] /\ buffered'[buffer[i]]
      BY <1>1, <2>1, <2>3, <2>4, <3>1
    <3>. QED
      BY <1>10, <2>1, <2>3, <3>2
  <2>6. \A i, j \in Kept' : buffer'[i] = buffer'[j] => i = j
    BY <2>1, <2>3, <2>4 DEF Buffer
  <2>7. \A x \in Cell : buffered'[x] => \E i \in Kept' : buffer'[i] = x
    <3>1. SUFFICES ASSUME NEW x \in Cell, buffered'[x]
                   PROVE  \E i \in Kept' : buffer'[i] = x
      OBVIOUS
    <3>2. CASE x = c
      BY <2>1, <2>3, <3>2
    <3>3. CASE x # c
      <4>1. PICK i \in Kept : buffer[i] = x
        BY <1>1, <3>1, <3>3 DEF Buffer
      <4>. QED
        BY <2>1, <2>3, <4>1
    <3>. QED
      BY <3>2, <3>3
  <2>. QED
    BY <1>2, <1>4, <1>7, <1>8, <2>1, <2>2, <2>5, <2>6, <2>7 DEF Buffer
<1>11. CASE rc[c] = 1 /\ buffered[c] /\ ~buffered'[c] /\ buffer' = Scrubbed(c)
  <2>1. /\ buffer' \in Seq(Cell \cup {none})
        /\ processed' \in 0 .. Len(buffer')
        /\ \A i : i \in Kept' <=> i \in Kept /\ buffer[i] # c
        /\ \A i \in Kept' : buffer'[i] = buffer[i]
    BY <1>2, <1>11, ScrubbedKept DEF Buffer
  <2>2. \A i \in Kept' : buffered'[buffer'[i]]
    <3>1. \A i \in Kept : buffer[i] \in Cell /\ buffered[buffer[i]]
      BY KeptIs DEF Buffer
    <3>. QED
      BY <1>1, <2>1, <3>1
  <2>3. \A i, j \in Kept' : buffer'[i] = buffer'[j] => i = j
    BY <2>1 DEF Buffer
  <2>4. \A x \in Cell : buffered'[x] => \E i \in Kept' : buffer'[i] = x
    <3>1. SUFFICES ASSUME NEW x \in Cell, buffered'[x]
                   PROVE  \E i \in Kept' : buffer'[i] = x
      OBVIOUS
    <3>2. x # c /\ buffered[x]
      BY <1>1, <1>11, <3>1
    <3>3. PICK i \in Kept : buffer[i] = x
      BY <3>2 DEF Buffer
    <3>. QED
      BY <2>1, <3>2, <3>3
  <2>. QED
    BY <1>2, <1>4, <1>7, <1>8, <2>1, <2>2, <2>3, <2>4 DEF Buffer
<1>. QED
  BY <1>9, <1>10, <1>11, DecrementBuffers

\* The invariant's sums, when no trial runs.
Sums ==
    \A c \in Cell :
        rc[c] = held[c] + Cardinality(Late(pending, c))
                   + Cardinality(EdgesOf(stack, slot, c))

\* Without a trial nothing is paid for, and the invariant's sums are Sums.
LEMMA CountedIs ==
  TypeOK /\ ~At("scan") /\ ~At("sweep") => (Counted <=> Sums)
<1>. SUFFICES ASSUME TypeOK, ~At("scan"), ~At("sweep")
              PROVE  Counted <=> Sums
  OBVIOUS
<1>1. \A c \in Cell : rc[c] \in Nat /\ Cardinality(PaidFor(c)) = 0
  BY CellIs, NoTrial
<1>2. \A c \in Cell : rc[c] + Cardinality(PaidFor(c)) = rc[c]
  BY <1>1
<1>. QED
  BY <1>2 DEF Counted, Sums

\* The same after a step.
LEMMA CountedAfter ==
  TypeOK' /\ ~At("scan")' /\ ~At("sweep")' => (Counted' <=> Sums')
BY CountedIs, PTL

\* A decrement keeps the types.
LEMMA DecrementTypes ==
  ASSUME TypeOK, CollectInv, NEW s, NEW p, NEW c, Letting(s, p, c), Decrement(c, s),
         pending' = p
  PROVE  TypeOK'
<1>1. stack' \in Seq(Frame) /\ ~At("scan")' /\ ~At("sweep")'
  BY DecrementStack DEF CollectInv
<1>2. /\ rc' \in [Cell -> Nat]
      /\ shape' \in [Cell -> Shape \cup {"free"}]
      /\ color' \in [Cell -> {"black", "purple"}]
      /\ buffered' \in [Cell -> BOOLEAN]
  BY DecrementIs DEF CollectInv
<1>3. buffer' \in Seq(Cell \cup {none}) /\ processed' \in 0 .. Len(buffer')
  BY DecrementBuffer
<1>4. /\ held' \in [Cell -> 0..HandleBound]
      /\ slot' \in [Cell -> [Slot -> Cell \cup {none}]]
      /\ corpses' = corpses /\ phase' = phase
  BY DEF Letting
<1>5. color' \in [Cell -> {"black", "purple"}
                            \cup (IF At("scan")' THEN {"gray"} ELSE {})
                            \cup (IF At("sweep")' THEN {"white"} ELSE {})]
  BY <1>1, <1>2
<1>6. stack' \in Seq([step : {"drop", "loop", "mark", "scan", "sweep", "free"},
                      cell : Cell \cup {none}, next : 1..3])
  BY <1>1 DEF Frame
<1>7. pending' \in Seq(Cell) /\ corpses' \subseteq Cell /\ phase' \in {"run", "drain", "over"}
  BY <1>4 DEF TypeOK, Letting
<1>. QED
  BY <1>2, <1>3, <1>4, <1>5, <1>6, <1>7 DEF TypeOK

\* A decrement keeps the counts: the reference in hand is gone from both sides,
\* and a cell that begins to die keeps its slots as its drop's.
LEMMA DecrementCounts ==
  ASSUME TypeOK, TypeOK', CollectInv, NEW s, NEW p, NEW c, Letting(s, p, c), Decrement(c, s),
         pending' = p
  PROVE  Counted'
<1>. c \in Cell /\ SameFrames(s) /\ s \in Seq(Frame) /\ corpses' = corpses
     /\ ~At("mark") /\ ~At("scan") /\ ~At("sweep")
     /\ \A x \in Cell : ~Walkable(x) => slot'[x] = NoSlots
  BY DEF Letting, SameFrames
<1>1. /\ rc' \in [Cell -> Nat]
      /\ rc[c] \in Nat \ {0} /\ rc'[c] = rc[c] - 1
      /\ \A x \in Cell : x # c => rc'[x] = rc[x]
      /\ \A x \in Cell : /\ Walkable(x)' <=> Walkable(x)
                         /\ OwnDestructor(x)' <=> OwnDestructor(x)
      /\ color' \in [Cell -> {"black", "purple"}]
      /\ \/ stack' = s /\ (rc[c] # 1 \/ ~Walkable(c))
         \/ stack' = Append(s, Collect) /\ rc[c] # 1 /\ ~InCollect
         \/ stack' = Append(s, Drop(c)) /\ rc[c] = 1 /\ Walkable(c)
  BY DecrementIs DEF CollectInv
<1>2. \A x \in Cell : color'[x] \notin Trying /\ color[x] \notin Trying
  BY <1>1, NoTrial DEF Trying
<1>3. \A x \in Cell : x # c \/ rc[c] # 1 => (Whole(x)' <=> Whole(x))
  BY <1>1, <1>2 DEF Whole
<1>4. Whole(c)
  BY <1>1 DEF Whole
<1>5. \A x \in Cell, i \in Slot :
         HasFrame(stack', x, i)
            <=> \/ HasFrame(s, x, i)
                \/ x = c /\ rc[c] = 1 /\ Walkable(c)
  <2>1. CASE stack' = s /\ (rc[c] # 1 \/ ~Walkable(c))
    BY <2>1
  <2>2. CASE stack' = Append(s, Collect) /\ rc[c] # 1
    BY <2>2, FrameIs, PushIs, CellAssumption
  <2>3. CASE stack' = Append(s, Drop(c)) /\ rc[c] = 1 /\ Walkable(c)
    <3>1. \A i \in Slot : i >= 1
      BY DEF Slot
    <3>. QED
      BY <2>3, <3>1, FrameIs, PushIs
  <2>. QED
    BY <1>1, <2>1, <2>2, <2>3
<1>6. \A x \in Cell : EdgesOf(stack, slot, x)' = EdgesOf(s, slot', x)
  <2>1. SUFFICES ASSUME NEW x \in Cell, NEW e \in Edge, slot'[e[1]][e[2]] = x
                 PROVE  Owned(stack, e)' <=> Owned(s, e)
    BY DEF EdgesOf
  <2>2. e[1] \in Cell /\ e[2] \in Slot
    BY EdgeIs
  <2>3. CASE e[1] # c \/ rc[c] # 1
    BY <1>3, <1>5, <2>2, <2>3 DEF Owned
  <2>4. CASE e[1] = c /\ rc[c] = 1 /\ Walkable(c)
    BY <1>4, <1>5, <2>2, <2>4 DEF Owned
  <2>5. CASE e[1] = c /\ ~Walkable(c)
    <3>1. slot'[e[1]][e[2]] = none
      BY <2>2, <2>5 DEF NoSlots
    <3>. QED
      BY <2>1, <3>1, CellAssumption
  <2>. QED
    BY <2>3, <2>4, <2>5
<1>7. \A x \in Cell :
         rc'[x] = held'[x] + Cardinality(Late(p, x))
                     + Cardinality(EdgesOf(s, slot', x))
  <2>1. SUFFICES ASSUME NEW x \in Cell
                 PROVE  rc'[x] = held'[x] + Cardinality(Late(p, x))
                                    + Cardinality(EdgesOf(s, slot', x))
    OBVIOUS
  <2>. DEFINE h == held'[x]
              l == Cardinality(Late(p, x))
              e == Cardinality(EdgesOf(s, slot', x))
  <2>2. h \in Nat /\ rc[x] \in Nat /\ rc[x] = h + l + e + (IF x = c THEN 1 ELSE 0)
    BY CellIs, BoundAssumption DEF Letting
  <2>3. l \in Nat
    BY LateNat DEF Letting
  <2>4. e \in Nat
    BY EdgesNat DEF EdgesOf
  <2>. HIDE DEF h, l, e
  <2>5. rc'[x] = h + l + e
    BY <1>1, <2>2, <2>3, <2>4
  <2>. QED
    BY <2>5 DEF h, l, e
<1>8. ~At("scan")' /\ ~At("sweep")'
  BY DecrementStack DEF CollectInv
<1>9. \A x \in Cell : Cardinality(Late(pending, x)') = Cardinality(Late(p, x))
  BY DEF Late
<1>10. Sums'
  BY <1>6, <1>7, <1>9 DEF Sums
<1>. QED
  BY <1>8, <1>10, CountedAfter

\* A decrement (__torajs_rc_dec and what follows it) keeps the invariant.
LEMMA DecrementKeeps ==
  ASSUME TypeOK, CollectInv, NEW s, NEW p, NEW c, Letting(s, p, c), Decrement(c, s),
         pending' = p
  PROVE  TypeOK' /\ CollectInv'
BY DecrementTypes, DecrementPlaces, DecrementBuffer, DecrementCounts DEF CollectInv

-----------------------------------------------------------------------------
(* A release put off keeps the invariant.                                  *)

\* The buffer, with the same cells under the same flags.
LEMMA BufferStays ==
  ASSUME TypeOK, Buffer, UNCHANGED <<buffered, buffer, processed>>,
         Active("free")' <=> Active("free"),
         InCollect => InCollect',
         ~At("scan")' /\ ~At("sweep")',
         \A x \in Cell : buffered[x] /\ rc'[x] # 0 => color'[x] = "purple",
         \A f \in DOMAIN stack' : stack'[f].step = "drop" /\ buffered[stack'[f].cell]
                                     => color'[stack'[f].cell] = "purple"
  PROVE  Buffer'
<1>1. Kept' = Kept
  BY DEF Kept
<1>. QED
  BY <1>1 DEF Buffer

\* A deferral keeps the invariant: the reference in hand becomes one put off.
LEMMA DeferKeeps ==
  ASSUME TypeOK, CollectInv, NEW s, NEW c, Letting(s, pending, c),
         rc[c] = 1, Walkable(c), Defer(c, s),
         UNCHANGED <<shape, rc, color, buffered, buffer>>
  PROVE  TypeOK' /\ CollectInv'
<1>. USE DEF CollectInv
<1>. /\ c \in Cell /\ SameFrames(s) /\ s \in Seq(Frame)
     /\ ~At("mark") /\ ~At("scan") /\ ~At("sweep")
     /\ processed' = processed /\ corpses' = corpses /\ phase' = phase
     /\ \A x \in Cell : ~Walkable(x) => slot'[x] = NoSlots
  BY DEF Letting, SameFrames
<1>1. /\ pending' = Append(pending, c)
      /\ stack' = s \/ stack' = Append(s, Loop)
  BY DEF Defer
<1>2. /\ stack' \in Seq(Frame)
      /\ Active("free")' <=> Active("free")
      /\ ~At("scan")' /\ ~At("sweep")'
      /\ InCollect => InCollect'
  BY <1>1, LetActive
<1>3. Loop \in Frame /\ Loop.step = "loop" /\ Loop.cell = none
  BY FrameIs
<1>4. \A x \in Cell : color[x] \in {"black", "purple"} /\ color[x] \notin Trying
  BY NoTrial
<1>5. TypeOK'
  <2>1. color' \in [Cell -> {"black", "purple"}
                              \cup (IF At("scan")' THEN {"gray"} ELSE {})
                              \cup (IF At("sweep")' THEN {"white"} ELSE {})]
    <3>1. color' = color /\ color \in [Cell -> {color[x] : x \in Cell}]
      BY DEF TypeOK
    <3>2. color \in [Cell -> {"black", "purple"}]
      BY <1>4, <3>1
    <3>. QED
      BY <3>1, <3>2
  <2>2. stack' \in Seq([step : {"drop", "loop", "mark", "scan", "sweep", "free"},
                        cell : Cell \cup {none}, next : 1..3])
    BY <1>2 DEF Frame
  <2>3. pending' \in Seq(Cell)
    BY <1>1 DEF TypeOK
  <2>4. /\ held' \in [Cell -> 0..HandleBound]
        /\ slot' \in [Cell -> [Slot -> Cell \cup {none}]]
    BY DEF Letting
  <2>. QED
    BY <2>1, <2>2, <2>3, <2>4 DEF TypeOK
<1>6. Shapes'
  BY DEF Shapes, Walkable
<1>7. Frames'
  <2>1. \A x \in Cell :
            Walkable(x) /\ rc[x] = 0 /\ color[x] \notin Trying /\ x \notin corpses
               => /\ shape'[x] \notin {"free", "leaf"} /\ rc'[x] = 0
                  /\ color'[x] \notin Trying /\ x \notin corpses'
    BY DEF Walkable
  <2>2. \A f \in DOMAIN s : GoodAfter(s[f])
    BY <2>1, FramesStay
  <2>3. GoodAfter(Loop)
    BY <1>3 DEF GoodAfter
  <2>. HIDE DEF Loop
  <2>. QED
    BY <1>1, <1>3, <2>2, <2>3, FramesSame, FramesPush DEF Phases
<1>8. Corpses'
  BY <1>2 DEF Corpses, Walkable
<1>9. Trial'
  BY <1>4 DEF Trial, Trying
<1>10. Buffer'
  <2>1. \A f \in DOMAIN s : s[f].step = "drop" /\ buffered[s[f].cell]
                               => color'[s[f].cell] = "purple"
    BY DEF Buffer, SameFrames
  <2>2. \A f \in DOMAIN stack' : stack'[f].step = "drop" /\ buffered[stack'[f].cell]
                                    => color'[stack'[f].cell] = "purple"
    <3>1. CASE stack' = s
      BY <2>1, <3>1
    <3>2. CASE stack' = Append(s, Loop)
      <4>1. /\ DOMAIN stack' = DOMAIN s \cup {Len(s) + 1}
            /\ stack'[Len(s) + 1] = Loop
            /\ \A f \in DOMAIN s : stack'[f] = s[f]
        BY <1>3, <3>2, PushIs
      <4>. QED
        BY <1>3, <2>1, <4>1
    <3>. QED
      BY <1>1, <3>1, <3>2
  <2>3. \A x \in Cell : buffered[x] /\ rc'[x] # 0 => color'[x] = "purple"
    BY DEF Buffer
  <2>. QED
    BY <1>2, <2>2, <2>3, BufferStays
<1>11. Counted'
  <2>1. \A x \in Cell, i \in Slot : HasFrame(stack', x, i) <=> HasFrame(s, x, i)
    <3>1. \A x \in Cell : Loop.cell # x
      BY <1>3, CellAssumption
    <3>2. CASE stack' = s
      BY <3>2
    <3>3. CASE stack' = Append(s, Loop)
      <4>1. \A x, i : HasFrame(stack', x, i)
                         <=> HasFrame(s, x, i) \/ (Loop.cell = x /\ i >= Loop.next)
        BY <1>3, <3>3, PushIs
      <4>. QED
        BY <3>1, <4>1
    <3>. QED
      BY <1>1, <3>2, <3>3
  <2>2. \A x \in Cell : Whole(x)' <=> Whole(x)
    BY DEF Whole, OwnDestructor
  <2>3. \A x \in Cell : EdgesOf(stack, slot, x)' = EdgesOf(s, slot', x)
    BY <2>1, <2>2, EdgeIs DEF EdgesOf, Owned
  <2>4. \A x \in Cell : rc'[x] = held'[x] + Cardinality(Late(pending, x)')
                                    + Cardinality(EdgesOf(s, slot', x))
    <3>1. SUFFICES ASSUME NEW x \in Cell
                   PROVE  rc'[x] = held'[x] + Cardinality(Late(pending, x)')
                                      + Cardinality(EdgesOf(s, slot', x))
      OBVIOUS
    <3>. DEFINE h == held'[x]
                l == Cardinality(Late(pending, x))
                m == Cardinality(Late(pending, x)')
                e == Cardinality(EdgesOf(s, slot', x))
    <3>2. h \in Nat /\ rc[x] = h + l + e + (IF x = c THEN 1 ELSE 0)
      BY CellIs, BoundAssumption DEF Letting
    <3>3. l \in Nat /\ m = l + (IF c = x THEN 1 ELSE 0)
      <4>1. pending \in Seq(Cell)
        BY DEF Letting
      <4>2. Late(pending, x)' = Late(Append(pending, c), x)
        BY <1>1 DEF Late
      <4>. QED
        BY <4>1, <4>2, LateNat, LateAppend
    <3>4. e \in Nat
      BY EdgesNat DEF EdgesOf
    <3>5. rc'[x] = rc[x]
      OBVIOUS
    <3>. HIDE DEF h, l, m, e
    <3>6. rc'[x] = h + m + e
      BY <3>2, <3>3, <3>4, <3>5
    <3>. QED
      BY <3>6 DEF h, m, e
  <2>5. Sums'
    BY <2>3, <2>4 DEF Sums
  <2>. QED
    BY <1>2, <1>5, <2>5, CountedAfter
<1>. QED
  BY <1>5, <1>6, <1>7, <1>8, <1>9, <1>10, <1>11

\* A release keeps it either way.
LEMMA ReleaseKeeps ==
  ASSUME TypeOK, CollectInv, NEW s, NEW c, Letting(s, pending, c), Release(c, s)
  PROVE  TypeOK' /\ CollectInv'
<1>1. CASE Decrement(c, s) /\ UNCHANGED pending
  BY <1>1, DecrementKeeps
<1>2. CASE /\ rc[c] = 1 /\ Walkable(c)
           /\ Defer(c, s)
           /\ UNCHANGED <<shape, rc, color, buffered, buffer>>
  BY <1>2, DeferKeeps
<1>. QED
  BY <1>1, <1>2 DEF Release

-----------------------------------------------------------------------------
(* The steps that release.                                                 *)

\* A reference taken out of an edge.
LEMMA LettingEdge ==
  ASSUME TypeOK, Sums, NEW c \in Cell, NEW e, e \in EdgesOf(stack, slot, c),
         NEW s, held' = held,
         \A x \in Cell : EdgesOf(s, slot', x) = EdgesOf(stack, slot, x) \ {e}
  PROVE  \A x \in Cell :
            rc[x] = held'[x] + Cardinality(Late(pending, x))
                       + Cardinality(EdgesOf(s, slot', x)) + (IF x = c THEN 1 ELSE 0)
<1>1. SUFFICES ASSUME NEW x \in Cell
               PROVE  rc[x] = held'[x] + Cardinality(Late(pending, x))
                         + Cardinality(EdgesOf(s, slot', x)) + (IF x = c THEN 1 ELSE 0)
  OBVIOUS
<1>. DEFINE l == Cardinality(Late(pending, x))
            m == Cardinality(EdgesOf(stack, slot, x))
            n == Cardinality(EdgesOf(s, slot', x))
<1>2. rc[x] = held[x] + l + m /\ held[x] \in Nat /\ held' = held
  BY CellIs DEF Sums
<1>3. l \in Nat
  BY LateNat DEF TypeOK
<1>4. EdgesOf(stack, slot, x) \in SUBSET Edge
  BY DEF EdgesOf
<1>5. m \in Nat
  BY <1>4, EdgesNat
<1>6. CASE x = c
  <2>1. n = m - 1
    BY <1>4, <1>6, EdgeLess
  <2>. HIDE DEF l, m, n
  <2>2. rc[x] = held'[x] + l + n + 1
    BY <1>2, <1>3, <1>5, <2>1
  <2>. QED
    BY <1>6, <2>2 DEF l, n
<1>7. CASE x # c
  <2>1. EdgesOf(s, slot', x) = EdgesOf(stack, slot, x)
    BY <1>7 DEF EdgesOf
  <2>2. n = m
    BY <2>1
  <2>. HIDE DEF l, m, n
  <2>3. rc[x] = held'[x] + l + n + 0
    BY <1>2, <1>3, <1>5, <2>2
  <2>. QED
    BY <1>7, <2>3 DEF l, n
<1>. QED
  BY <1>6, <1>7

\* The guard's loop takes the last release put off.
LEMMA LoopStepKeeps ==
  ASSUME TypeOK, CollectInv, LoopStep
  PROVE  TypeOK' /\ CollectInv'
<1>. USE DEF CollectInv
<1>1. /\ At("loop") /\ pending # <<>> /\ pending' = Front(pending)
      /\ Decrement(Last(pending), stack)
      /\ held' = held /\ slot' = slot
      /\ UNCHANGED <<processed, corpses, phase>>
  BY DEF LoopStep
<1>2. ~At("mark") /\ ~At("scan") /\ ~At("sweep")
  BY <1>1 DEF At
<1>3. /\ Front(pending) \in Seq(Cell) /\ Last(pending) \in Cell
      /\ \A x \in Cell : Cardinality(Late(pending, x))
            = Cardinality(Late(Front(pending), x)) + (IF Last(pending) = x THEN 1 ELSE 0)
  BY <1>1, LateFront DEF TypeOK
<1>4. Sums
  BY <1>2, CountedIs
<1>5. \A x \in Cell :
         rc[x] = held'[x] + Cardinality(Late(Front(pending), x))
                    + Cardinality(EdgesOf(stack, slot', x))
                    + (IF x = Last(pending) THEN 1 ELSE 0)
  <2>1. SUFFICES ASSUME NEW x \in Cell
                 PROVE  rc[x] = held'[x] + Cardinality(Late(Front(pending), x))
                           + Cardinality(EdgesOf(stack, slot', x))
                           + (IF x = Last(pending) THEN 1 ELSE 0)
    OBVIOUS
  <2>. DEFINE l == Cardinality(Late(pending, x))
              k == Cardinality(Late(Front(pending), x))
              m == Cardinality(EdgesOf(stack, slot, x))
              d == IF x = Last(pending) THEN 1 ELSE 0
  <2>2. rc[x] = held[x] + l + m /\ held[x] \in Nat
    BY <1>4, CellIs DEF Sums
  <2>3. l = k + d /\ d \in Nat
    BY <1>3
  <2>4. k \in Nat
    BY <1>3, LateNat
  <2>5. m \in Nat
    BY EdgesNat DEF EdgesOf
  <2>6. held' = held /\ slot' = slot
    BY <1>1
  <2>. HIDE DEF l, k, m, d
  <2>7. rc[x] = held'[x] + k + m + d
    BY <2>2, <2>3, <2>4, <2>5, <2>6
  <2>. QED
    BY <2>6, <2>7 DEF k, m, d
<1>6. Letting(stack, Front(pending), Last(pending))
  <2>1. SameFrames(stack)
    BY StackIs
  <2>2. /\ held' \in [Cell -> 0..HandleBound]
        /\ slot' \in [Cell -> [Slot -> Cell \cup {none}]]
    BY <1>1 DEF TypeOK
  <2>3. \A x \in Cell : ~Walkable(x) => slot'[x] = NoSlots
    BY <1>1 DEF Shapes
  <2>. QED
    BY <1>1, <1>2, <1>3, <1>5, <2>1, <2>2, <2>3 DEF Letting
<1>. QED
  BY <1>1, <1>6, DecrementKeeps

\* The program empties a slot.
LEMMA ClearKeeps ==
  ASSUME TypeOK, CollectInv, NEW a \in Cell, NEW i \in Slot, Clear(a, i)
  PROVE  TypeOK' /\ CollectInv'
<1>. USE DEF CollectInv
<1>. DEFINE c == slot[a][i]
<1>1. /\ stack = <<>> /\ held[a] > 0 /\ c # none
      /\ slot' = [slot EXCEPT ![a][i] = none]
      /\ Release(c, stack)
      /\ UNCHANGED <<held, processed, corpses, phase>>
  BY DEF Clear, Running
<1>2. ~At("mark") /\ ~At("scan") /\ ~At("sweep")
  BY <1>1 DEF At
<1>3. c \in Cell
  BY <1>1, CellIs
<1>4. Sums
  BY <1>2, CountedIs
<1>5. /\ slot' \in [Cell -> [Slot -> Cell \cup {none}]]
      /\ slot'[a][i] = none
      /\ \A x \in Cell : x # a => slot'[x] = slot[x]
      /\ \A j \in Slot : j # i => slot'[a][j] = slot[a][j]
  BY <1>1 DEF TypeOK
<1>6. rc[a] # 0
  <2>1. rc[a] = held[a] + Cardinality(Late(pending, a))
                   + Cardinality(EdgesOf(stack, slot, a))
    BY <1>4 DEF Sums
  <2>2. held[a] \in Nat /\ Cardinality(Late(pending, a)) \in Nat
    BY CellIs, LateNat DEF TypeOK
  <2>3. Cardinality(EdgesOf(stack, slot, a)) \in Nat
    BY EdgesNat DEF EdgesOf
  <2>. QED
    BY <1>1, <2>1, <2>2, <2>3
<1>7. <<a, i>> \in EdgesOf(stack, slot, c)
  BY <1>6, EdgeIs DEF EdgesOf, Owned, Whole
<1>8. \A x \in Cell : EdgesOf(stack, slot', x) = EdgesOf(stack, slot, x) \ {<<a, i>>}
  <2>1. SUFFICES ASSUME NEW x \in Cell, NEW e \in Edge
                 PROVE  slot'[e[1]][e[2]] = x <=> slot[e[1]][e[2]] = x /\ e # <<a, i>>
    BY DEF EdgesOf
  <2>2. e[1] \in Cell /\ e[2] \in Slot /\ e = <<e[1], e[2]>> /\ x # none
    BY EdgeIs, CellAssumption
  <2>3. <<a, i>>[1] = a /\ <<a, i>>[2] = i
    OBVIOUS
  <2>4. CASE e[1] = a /\ e[2] = i
    BY <1>5, <2>2, <2>4
  <2>5. CASE ~(e[1] = a /\ e[2] = i)
    BY <1>5, <2>2, <2>3, <2>5
  <2>. QED
    BY <2>4, <2>5
<1>9. Letting(stack, pending, c)
  <2>1. SameFrames(stack)
    BY StackIs
  <2>2. held' \in [Cell -> 0..HandleBound] /\ pending \in Seq(Cell)
    BY <1>1 DEF TypeOK
  <2>3. \A x \in Cell : ~Walkable(x) => slot'[x] = NoSlots
    <3>1. Walkable(a)
      BY <1>1 DEF Shapes, NoSlots
    <3>. QED
      BY <1>5, <3>1 DEF Shapes
  <2>4. \A x \in Cell :
            rc[x] = held'[x] + Cardinality(Late(pending, x))
                       + Cardinality(EdgesOf(stack, slot', x)) + (IF x = c THEN 1 ELSE 0)
    <3>. DEFINE e == <<a, i>>
    <3>1. e \in EdgesOf(stack, slot, c) /\ c \in Cell /\ held' = held
          /\ \A x \in Cell : EdgesOf(stack, slot', x) = EdgesOf(stack, slot, x) \ {e}
      BY <1>1, <1>3, <1>7, <1>8
    <3>. HIDE DEF c, e
    <3>. QED
      BY <1>4, <3>1, LettingEdge
  <2>. HIDE DEF c
  <2>. QED
    BY <1>1, <1>2, <1>3, <1>5, <2>1, <2>2, <2>3, <2>4 DEF Letting
<1>. QED
  BY <1>1, <1>9, ReleaseKeeps

\* A scope drops a reference.
LEMMA DropHandleKeeps ==
  ASSUME TypeOK, CollectInv, NEW a \in Cell, DropHandle(a)
  PROVE  TypeOK' /\ CollectInv'
<1>. USE DEF CollectInv
<1>1. /\ stack = <<>> /\ held[a] > 0
      /\ held' = [held EXCEPT ![a] = @ - 1] /\ slot' = slot
      /\ Release(a, stack)
      /\ UNCHANGED <<processed, corpses, phase>>
  BY DEF DropHandle, Running
<1>2. ~At("mark") /\ ~At("scan") /\ ~At("sweep")
  BY <1>1 DEF At
<1>3. Sums
  BY <1>2, CountedIs
<1>4. /\ held' \in [Cell -> 0..HandleBound]
      /\ held'[a] = held[a] - 1
      /\ \A x \in Cell : x # a => held'[x] = held[x]
  <2>1. held \in [Cell -> 0..HandleBound] /\ HandleBound \in Nat
    BY BoundAssumption DEF TypeOK
  <2>2. held[a] - 1 \in 0..HandleBound
    BY <1>1, <2>1
  <2>. QED
    BY <1>1, <2>1, <2>2
<1>5. Letting(stack, pending, a)
  <2>1. SameFrames(stack)
    BY StackIs
  <2>2. slot' \in [Cell -> [Slot -> Cell \cup {none}]] /\ pending \in Seq(Cell)
    BY <1>1 DEF TypeOK
  <2>3. \A x \in Cell : ~Walkable(x) => slot'[x] = NoSlots
    BY <1>1 DEF Shapes
  <2>4. \A x \in Cell :
            rc[x] = held'[x] + Cardinality(Late(pending, x))
                       + Cardinality(EdgesOf(stack, slot', x)) + (IF x = a THEN 1 ELSE 0)
    <3>1. SUFFICES ASSUME NEW x \in Cell
                   PROVE  rc[x] = held'[x] + Cardinality(Late(pending, x))
                             + Cardinality(EdgesOf(stack, slot', x))
                             + (IF x = a THEN 1 ELSE 0)
      OBVIOUS
    <3>. DEFINE l == Cardinality(Late(pending, x))
                m == Cardinality(EdgesOf(stack, slot, x))
    <3>2. rc[x] = held[x] + l + m /\ held[x] \in Nat
      BY <1>3, CellIs DEF Sums
    <3>3. l \in Nat
      BY LateNat DEF TypeOK
    <3>4. m \in Nat
      BY EdgesNat DEF EdgesOf
    <3>5. slot' = slot
      BY <1>1
    <3>. HIDE DEF l, m
    <3>6. rc[x] = held'[x] + l + m + (IF x = a THEN 1 ELSE 0)
      BY <1>1, <1>4, <3>2, <3>3, <3>4
    <3>. QED
      BY <3>5, <3>6 DEF l, m
  <2>. QED
    BY <1>1, <1>2, <1>4, <2>1, <2>2, <2>3, <2>4 DEF Letting
<1>. QED
  BY <1>1, <1>5, ReleaseKeeps

\* A drop releases the next child of its cell.
LEMMA DropChildKeeps ==
  ASSUME TypeOK, CollectInv, DropChild
  PROVE  TypeOK' /\ CollectInv'
<1>. USE DEF CollectInv
<1>. DEFINE t == Top.cell
<1>1. PICK i \in Top.next..2 :
         /\ slot[t][i] # none
         /\ \A j \in Top.next..(i - 1) : slot[t][j] = none
         /\ Release(slot[t][i], Append(Below, [Top EXCEPT !.next = i + 1]))
  BY DEF DropChild
<1>. DEFINE c == slot[t][i]
            x == [Top EXCEPT !.next = i + 1]
            s == Append(Below, x)
<1>2. At("drop") /\ stack # <<>> /\ Top.step = "drop"
      /\ held' = held /\ slot' = slot /\ UNCHANGED <<processed, corpses, phase>>
  BY DEF DropChild, At
<1>3. ~At("mark") /\ ~At("scan") /\ ~At("sweep")
  BY <1>2 DEF At
<1>4. /\ Below \in Seq(Frame) /\ DOMAIN stack = DOMAIN Below \cup {Len(stack)}
      /\ Len(stack) \notin DOMAIN Below
      /\ \A f \in DOMAIN Below : Below[f] = stack[f]
      /\ Top = stack[Len(stack)] /\ Top \in Frame
      /\ \A a, j : HasFrame(stack, a, j)
                      <=> HasFrame(Below, a, j) \/ (Top.cell = a /\ j >= Top.next)
  BY <1>2, PopIs
<1>5. /\ t \in Cell /\ Walkable(t) /\ rc[t] = 0 /\ t \notin corpses /\ color[t] \notin Trying
      /\ \A f \in DOMAIN Below : Below[f].cell # t
  <2>1. /\ t \in Cell /\ Walkable(t) /\ rc[t] = 0 /\ t \notin corpses
        /\ color[t] \notin Trying
    BY <1>2, <1>4 DEF Frames
  <2>2. \A f \in DOMAIN Below : stack[f].cell # t
    BY <1>2, <1>4, <2>1, CellAssumption DEF Frames
  <2>. QED
    BY <1>4, <2>1, <2>2
<1>6. Top.next \in 1..3 /\ i \in Slot /\ i + 1 \in 1..3 /\ i \in Nat
  BY <1>4, FrameIs DEF Slot
<1>7. x \in Frame /\ x.step = "drop" /\ x.cell = t /\ x.next = i + 1
  BY <1>2, <1>4, <1>6 DEF Frame
<1>8. c \in Cell
  BY <1>1, <1>5, <1>6, CellIs
<1>. HIDE DEF x
<1>9. SameFrames(s)
  <2>1. /\ s \in Seq(Frame)
        /\ DOMAIN s = DOMAIN stack
        /\ s[Len(stack)] = x
        /\ \A f \in DOMAIN stack : f # Len(stack) => s[f] = stack[f]
    BY <1>2, <1>7, ReplaceIs
  <2>. QED
    BY <1>2, <1>4, <1>7, <2>1 DEF SameFrames
<1>10. \A a, j : HasFrame(s, a, j) <=> HasFrame(Below, a, j) \/ (t = a /\ j >= i + 1)
  BY <1>4, <1>7, PushIs
<1>. HIDE DEF s
<1>11. ~Whole(t) /\ \A j : ~HasFrame(Below, t, j)
  BY <1>5 DEF Whole, HasFrame
<1>12. \A e \in Edge : slot[e[1]][e[2]] # none =>
          (Owned(s, e) <=> Owned(stack, e) /\ e # <<t, i>>)
  <2>1. SUFFICES ASSUME NEW e \in Edge, slot[e[1]][e[2]] # none
                 PROVE  Owned(s, e) <=> Owned(stack, e) /\ e # <<t, i>>
    OBVIOUS
  <2>2. e[1] \in Cell /\ e[2] \in Slot /\ e = <<e[1], e[2]>>
        /\ <<t, i>>[1] = t /\ <<t, i>>[2] = i
    BY EdgeIs
  <2>3. CASE e[1] # t
    BY <1>4, <1>10, <2>2, <2>3 DEF Owned
  <2>4. CASE e[1] = t
    <3>. DEFINE j == e[2]
    <3>1. Owned(s, e) <=> j >= i + 1
      BY <1>10, <1>11, <2>4 DEF Owned
    <3>2. Owned(stack, e) <=> j >= Top.next
      BY <1>4, <1>11, <2>4 DEF Owned
    <3>3. e # <<t, i>> <=> j # i
      BY <2>2, <2>4
    <3>4. j \in Nat /\ i >= Top.next /\ Top.next \in Nat
      BY <1>6, <2>2 DEF Slot
    <3>5. ~(j >= Top.next /\ j < i)
      <4>1. j >= Top.next /\ j < i => j \in Top.next..(i - 1)
        BY <1>6, <3>4
      <4>. QED
        BY <1>1, <2>1, <2>4, <4>1
    <3>. HIDE DEF j
    <3>6. j >= i + 1 <=> j >= Top.next /\ j # i
      BY <1>6, <3>4, <3>5
    <3>. QED
      BY <3>1, <3>2, <3>3, <3>6
  <2>. QED
    BY <2>3, <2>4
<1>13. <<t, i>> \in EdgesOf(stack, slot, c)
  <2>1. <<t, i>> \in Edge /\ <<t, i>>[1] = t /\ <<t, i>>[2] = i
    BY <1>5, <1>6, EdgeIs
  <2>2. HasFrame(stack, t, i)
    BY <1>4, <1>6
  <2>. QED
    BY <2>1, <2>2 DEF EdgesOf, Owned
<1>14. Letting(s, pending, c)
  <2>1. /\ held' \in [Cell -> 0..HandleBound] /\ pending \in Seq(Cell)
        /\ slot' \in [Cell -> [Slot -> Cell \cup {none}]]
    BY <1>2 DEF TypeOK
  <2>2. \A y \in Cell : ~Walkable(y) => slot'[y] = NoSlots
    BY <1>2 DEF Shapes
  <2>3. \A y \in Cell :
            rc[y] = held'[y] + Cardinality(Late(pending, y))
                       + Cardinality(EdgesOf(s, slot', y)) + (IF y = c THEN 1 ELSE 0)
    <3>. DEFINE e == <<t, i>>
    <3>1. Sums
      BY <1>3, CountedIs
    <3>2. \A y \in Cell : EdgesOf(s, slot', y) = EdgesOf(stack, slot, y) \ {e}
      <4>1. \A y \in Cell : y # none
        BY CellAssumption
      <4>2. \A y \in Cell : EdgesOf(s, slot, y) = EdgesOf(stack, slot, y) \ {e}
        BY <1>12, <4>1 DEF EdgesOf
      <4>. QED
        BY <1>2, <4>2
    <3>3. e \in EdgesOf(stack, slot, c) /\ c \in Cell /\ held' = held
      BY <1>2, <1>8, <1>13
    <3>. HIDE DEF c, e
    <3>. QED
      BY <3>1, <3>2, <3>3, LettingEdge
  <2>. HIDE DEF c
  <2>. QED
    BY <1>2, <1>3, <1>8, <1>9, <2>1, <2>2, <2>3 DEF Letting
<1>15. Release(c, s)
  BY <1>1 DEF s, x
<1>. HIDE DEF c
<1>. QED
  BY <1>14, <1>15, ReleaseKeeps

-----------------------------------------------------------------------------
(* Steps that leave the counts alone.                                      *)

\* A step that moves no count and no slot keeps the counts if the frames have
\* as much to release as before.
LEMMA QuietCounts ==
  ASSUME Counted, UNCHANGED <<held, shape, slot, rc, color, pending, corpses>>,
         \A x \in Cell, i \in Slot : HasFrame(stack', x, i) <=> HasFrame(stack, x, i)
  PROVE  Counted'
<1>1. \A x \in Cell : EdgesOf(stack, slot, x)' = EdgesOf(stack, slot, x)
  BY EdgeIs DEF EdgesOf, Owned, Whole, OwnDestructor
<1>2. \A x \in Cell : PaidFor(x)' = PaidFor(x)
  BY DEF PaidFor, Walked, Walkable
<1>3. \A x \in Cell : Late(pending, x)' = Late(pending, x)
  BY DEF Late
<1>. QED
  BY <1>1, <1>2, <1>3 DEF Counted

\* Nothing changes, or nothing but the phase of the program.
LEMMA IdleKeeps ==
  ASSUME TypeOK, CollectInv, phase' \in {"run", "drain", "over"},
         UNCHANGED <<held, shape, slot, rc, color, buffered, buffer, stack,
                     processed, corpses, pending>>
  PROVE  TypeOK' /\ CollectInv'
<1>. USE DEF CollectInv
<1>1. \A step : (At(step)' <=> At(step)) /\ (Active(step)' <=> Active(step))
  BY DEF At, Top, Active
<1>2. InCollect' <=> InCollect
  BY <1>1 DEF InCollect
<1>3. TypeOK'
  BY <1>1 DEF TypeOK
<1>4. Counted'
  BY QuietCounts
<1>5. Shapes' /\ Frames' /\ Corpses'
  BY <1>1 DEF Shapes, Frames, Corpses, Walkable
<1>6. Trial'
  BY DEF Trial, Children, Walked, Walkable
<1>7. Buffer'
  <2>1. Kept' = Kept
    BY <1>1 DEF Kept
  <2>. QED
    BY <1>1, <1>2, <2>1 DEF Buffer
<1>. QED
  BY <1>3, <1>4, <1>5, <1>6, <1>7

\* The guard's loop ends with nothing put off.
LEMMA LoopEndKeeps ==
  ASSUME TypeOK, CollectInv, LoopEnd
  PROVE  TypeOK' /\ CollectInv'
<1>. USE DEF CollectInv
<1>1. /\ At("loop") /\ stack # <<>> /\ Top.step = "loop" /\ stack' = Below
      /\ UNCHANGED <<held, shape, slot, rc, color, buffered, buffer, processed,
                     corpses, pending, phase>>
  BY DEF LoopEnd, At
<1>2. ~At("mark") /\ ~At("scan") /\ ~At("sweep")
  BY <1>1 DEF At
<1>3. /\ Active("free")' <=> Active("free")
      /\ ~At("mark")' /\ ~At("scan")' /\ ~At("sweep")'
      /\ InCollect' <=> InCollect
      /\ stack' \in Seq(Frame)
      /\ \A f \in DOMAIN stack' : f \in DOMAIN stack /\ stack'[f] = stack[f]
  BY <1>1, PopActive DEF Phases
<1>4. /\ color \in [Cell -> {"black", "purple"}]
      /\ \A c \in Cell : color[c] \notin Trying
  BY <1>2, NoTrial
<1>5. TypeOK'
  BY <1>1, <1>3, <1>4, TypesAfter DEF TypeOK
<1>6. Frames'
  <2>1. \A f \in DOMAIN stack' : GoodAfter(stack'[f])
    BY <1>1, <1>3 DEF Frames, GoodAfter, Walkable
  <2>. QED
    BY <1>1, <2>1, FramesPop
<1>7. Shapes' /\ Corpses'
  BY <1>1, <1>3 DEF Shapes, Corpses, Walkable
<1>8. Trial'
  BY <1>1, <1>4 DEF Trial, Trying
<1>9. Buffer'
  BY <1>1, <1>2, <1>3, BufferStays DEF Buffer
<1>10. Counted'
  <2>1. Top.cell = none
    BY <1>1, StackIs DEF Frames
  <2>2. \A x \in Cell, i \in Slot : HasFrame(stack', x, i) <=> HasFrame(stack, x, i)
    BY <1>1, <2>1, PopIs, CellAssumption
  <2>. QED
    BY <1>1, <2>2, QuietCounts
<1>. QED
  BY <1>5, <1>6, <1>7, <1>8, <1>9, <1>10

\* gc(), or a round of the drain at exit, begins a collect.
LEMMA StartCollectKeeps ==
  ASSUME TypeOK, CollectInv, StartCollect
  PROVE  TypeOK' /\ CollectInv'
<1>. USE DEF CollectInv
<1>1. /\ stack = <<>> /\ stack' = <<Collect>>
      /\ UNCHANGED <<held, shape, slot, rc, color, buffered, buffer, processed,
                     corpses, pending, phase>>
  BY DEF StartCollect
<1>2. ~At("mark") /\ ~At("scan") /\ ~At("sweep") /\ ~Active("free") /\ ~InCollect
  BY <1>1 DEF At, Active, InCollect
<1>3. Collect \in Frame /\ Collect.step = "mark" /\ Collect.cell = none
  BY FrameIs
<1>. HIDE DEF Collect
<1>4. stack' \in Seq(Frame) /\ DOMAIN stack' = {1} /\ Len(stack') = 1 /\ stack'[1] = Collect
      /\ stack' # <<>>
  BY <1>1, <1>3
<1>5. /\ ~Active("free")' /\ ~At("scan")' /\ ~At("sweep")' /\ InCollect'
  BY <1>3, <1>4 DEF Active, At, Top, InCollect
<1>6. /\ color \in [Cell -> {"black", "purple"}]
      /\ \A c \in Cell : color[c] \notin Trying
  BY <1>2, NoTrial
<1>7. TypeOK'
  BY <1>1, <1>4, <1>6, TypesAfter DEF TypeOK
<1>8. Frames'
  BY <1>3, <1>4 DEF Frames
<1>9. Shapes' /\ Corpses'
  BY <1>1, <1>2 DEF Shapes, Corpses, Walkable
<1>10. Trial'
  BY <1>1, <1>6 DEF Trial, Trying
<1>11. Buffer'
  BY <1>1, <1>2, <1>3, <1>4, <1>5, BufferStays DEF Buffer
<1>12. Counted'
  <2>1. \A x \in Cell, i \in Slot : ~HasFrame(stack', x, i) /\ ~HasFrame(stack, x, i)
    BY <1>1, <1>3, <1>4, CellAssumption DEF HasFrame
  <2>. QED
    BY <1>1, <2>1, QuietCounts
<1>. QED
  BY <1>7, <1>8, <1>9, <1>10, <1>11, <1>12

-----------------------------------------------------------------------------
(* The end of a drop.                                                      *)

\* The cell on top of the stack is nowhere else: what its frame has yet to
\* release is all that its slots stand for.
LEMMA TopDrop ==
  ASSUME TypeOK, Frames, At("drop")
  PROVE  /\ Top.cell \in Cell /\ Walkable(Top.cell) /\ rc[Top.cell] = 0
         /\ Top.cell \notin corpses /\ color[Top.cell] \notin Trying
         /\ stack # <<>> /\ Top.step = "drop"
         /\ ~Whole(Top.cell)
         /\ \A f \in DOMAIN Below : Below[f].cell # Top.cell
         /\ \A j : ~HasFrame(Below, Top.cell, j)
         /\ \A a, j : HasFrame(stack, a, j)
                         <=> HasFrame(Below, a, j) \/ (Top.cell = a /\ j >= Top.next)
<1>1. stack # <<>> /\ Top.step = "drop"
  BY DEF At
<1>2. /\ DOMAIN stack = DOMAIN Below \cup {Len(stack)}
      /\ Len(stack) \notin DOMAIN Below
      /\ \A f \in DOMAIN Below : Below[f] = stack[f]
      /\ Top = stack[Len(stack)]
      /\ \A a, j : HasFrame(stack, a, j)
                      <=> HasFrame(Below, a, j) \/ (Top.cell = a /\ j >= Top.next)
  BY <1>1, PopIs
<1>3. /\ Top.cell \in Cell /\ Walkable(Top.cell) /\ rc[Top.cell] = 0
      /\ Top.cell \notin corpses /\ color[Top.cell] \notin Trying
  BY <1>1, <1>2 DEF Frames
<1>4. \A f \in DOMAIN Below : stack[f].cell # Top.cell
  BY <1>1, <1>2, <1>3, CellAssumption DEF Frames
<1>5. ~Whole(Top.cell)
  BY <1>3 DEF Whole
<1>6. \A f \in DOMAIN Below : Below[f].cell # Top.cell
  BY <1>2, <1>4
<1>7. \A j : ~HasFrame(Below, Top.cell, j)
  BY <1>6 DEF HasFrame
<1>. QED
  BY <1>1, <1>2, <1>3, <1>5, <1>6, <1>7

\* A drop ends: its cell is freed, or stays black in the buffer for the next
\* root walk. Either way its slots, all released, are nobody's.
LEMMA DropEndKeeps ==
  ASSUME TypeOK, CollectInv, DropEnd
  PROVE  TypeOK' /\ CollectInv'
<1>. USE DEF CollectInv
<1>. DEFINE t == Top.cell
<1>1. /\ At("drop") /\ stack # <<>> /\ Top.step = "drop"
      /\ \A i \in Top.next..2 : slot[t][i] = none
      /\ stack' = Below
      /\ color' = [color EXCEPT ![t] = "black"]
      /\ UNCHANGED <<held, rc, processed, corpses, phase, pending>>
  BY DEF DropEnd, At
<1>2. ~At("mark") /\ ~At("scan") /\ ~At("sweep")
  BY <1>1 DEF At
<1>3. /\ Active("free")' <=> Active("free")
      /\ ~At("mark")' /\ ~At("scan")' /\ ~At("sweep")'
      /\ InCollect' <=> InCollect
      /\ stack' \in Seq(Frame)
      /\ \A f \in DOMAIN stack' : f \in DOMAIN stack /\ stack'[f] = stack[f]
  BY <1>1, PopActive DEF Phases
<1>4. /\ color \in [Cell -> {"black", "purple"}]
      /\ \A c \in Cell : color[c] \notin Trying
  BY <1>2, NoTrial
<1>5. /\ t \in Cell /\ Walkable(t) /\ rc[t] = 0 /\ t \notin corpses
      /\ ~Whole(t)
      /\ \A f \in DOMAIN stack' : stack'[f].cell # t
      /\ \A j : ~HasFrame(stack', t, j)
      /\ \A a, j : HasFrame(stack, a, j)
                      <=> HasFrame(stack', a, j) \/ (t = a /\ j >= Top.next)
  BY <1>1, TopDrop
<1>6. Top.next \in 1..3
  BY <1>1, StackIs, FrameIs
<1>. HIDE DEF t
<1>7. /\ color' \in [Cell -> {"black", "purple"}] /\ color'[t] = "black"
      /\ \A x \in Cell : color'[x] \notin Trying /\ (x # t => color'[x] = color[x])
  BY <1>1, <1>4, <1>5 DEF Trying
\* It stays for the root walk, or it is freed.
<1>8. /\ \A x \in Cell : x # t => /\ shape'[x] = shape[x] /\ slot'[x] = slot[x]
                                  /\ buffered'[x] = buffered[x]
      /\ shape' \in [Cell -> Shape \cup {"free"}]
      /\ slot' \in [Cell -> [Slot -> Cell \cup {none}]]
      /\ buffered' \in [Cell -> BOOLEAN]
      /\ \/ UNCHANGED <<shape, slot, buffered, buffer>>
         \/ /\ shape'[t] = "free" /\ slot'[t] = NoSlots /\ ~buffered'[t]
            /\ buffer' = IF buffered[t] THEN Scrubbed(t) ELSE buffer
  <2>1. /\ shape \in [Cell -> Shape \cup {"free"}]
        /\ slot \in [Cell -> [Slot -> Cell \cup {none}]]
        /\ buffered \in [Cell -> BOOLEAN]
    BY DEF TypeOK
  <2>2. CASE UNCHANGED <<shape, slot, buffered, buffer>>
    BY <2>1, <2>2
  <2>3. CASE /\ Free({t})
             /\ buffered' = [buffered EXCEPT ![t] = FALSE]
             /\ buffer' = IF buffered[t] THEN Scrubbed(t) ELSE buffer
    <3>1. NoSlots \in [Slot -> Cell \cup {none}]
      BY DEF NoSlots
    <3>2. /\ shape' = [x \in Cell |-> IF x \in {t} THEN "free" ELSE shape[x]]
          /\ slot' = [x \in Cell |-> IF x \in {t} THEN NoSlots ELSE slot[x]]
      BY <2>3 DEF Free
    <3>3. shape' \in [Cell -> Shape \cup {"free"}] /\ shape'[t] = "free"
      BY <1>5, <2>1, <3>2
    <3>4. slot' \in [Cell -> [Slot -> Cell \cup {none}]] /\ slot'[t] = NoSlots
      BY <1>5, <2>1, <3>1, <3>2
    <3>5. buffered' \in [Cell -> BOOLEAN] /\ ~buffered'[t]
          /\ \A x \in Cell : x # t => buffered'[x] = buffered[x]
      BY <1>5, <2>1, <2>3
    <3>6. \A x \in Cell : x # t => shape'[x] = shape[x] /\ slot'[x] = slot[x]
      BY <3>2
    <3>. QED
      BY <2>3, <3>3, <3>4, <3>5, <3>6
  <2>. QED
    BY <2>2, <2>3 DEF DropEnd, t
\* The entries that are not its own stay.
<1>9. /\ buffer' \in Seq(Cell \cup {none}) /\ processed' \in 0 .. Len(buffer')
      /\ \/ UNCHANGED <<buffered, buffer>>
         \/ /\ ~buffered'[t]
            /\ \A i : i \in Kept' <=> i \in Kept /\ buffer[i] # t
            /\ \A i \in Kept' : buffer'[i] = buffer[i]
  <2>1. CASE buffer' = buffer
    <3>1. Kept' = Kept
      BY <1>1, <1>3, <2>1 DEF Kept
    <3>2. ~buffered[t] => \A i \in Kept : buffer[i] # t
      BY DEF Buffer
    <3>3. buffered' = buffered \/ (~buffered[t] /\ ~buffered'[t])
      <4>1. CASE buffered[t] /\ buffer' = Scrubbed(t) /\ ~buffered'[t]
        <5>1. PICK i \in Kept : buffer[i] = t
          BY <1>5, <4>1 DEF Buffer
        <5>2. \A j \in Kept' : buffer[j] # t
          BY <1>1, <1>3, <1>5, <4>1, ScrubbedKept DEF Buffer
        <5>. QED
          BY <3>1, <5>1, <5>2
      <4>. QED
        BY <1>8, <4>1
    <3>. QED
      BY <1>1, <2>1, <3>1, <3>2, <3>3, KeptIs
  <2>2. CASE buffer' = Scrubbed(t) /\ ~buffered'[t]
    BY <1>1, <1>3, <1>5, <2>2, ScrubbedKept DEF Buffer
  <2>. QED
    BY <1>8, <2>1, <2>2
<1>10. TypeOK'
  BY <1>1, <1>3, <1>7, <1>8, <1>9, TypesAfter DEF TypeOK
<1>11. Shapes'
  <2>1. \A x \in Cell : shape'[x] = "free" => rc'[x] = 0
    BY <1>1, <1>5, <1>8 DEF Shapes
  <2>2. \A x \in Cell : ~Walkable(x)' => slot'[x] = NoSlots /\ ~buffered'[x]
                                           /\ color'[x] = "black"
    BY <1>5, <1>7, <1>8 DEF Shapes, Walkable
  <2>. QED
    BY <2>1, <2>2 DEF Shapes
<1>12. Frames'
  <2>1. \A f \in DOMAIN stack' : GoodAfter(stack'[f])
    BY <1>1, <1>3, <1>5, <1>7, <1>8 DEF Frames, GoodAfter, Walkable
  <2>. QED
    BY <1>1, <2>1, FramesPop
<1>13. Corpses'
  <2>1. \A x \in corpses : x # t /\ x \in Cell
    BY <1>5 DEF TypeOK
  <2>. QED
    BY <1>1, <1>3, <1>7, <1>8, <2>1 DEF Corpses, Walkable
<1>14. Trial'
  BY <1>7 DEF Trial, Trying
<1>15. Buffer'
  <2>1. ~InCollect' => processed' = 0
    BY <1>1, <1>3 DEF Buffer
  <2>2. \A f \in DOMAIN stack' : stack'[f].step = "drop" /\ buffered'[stack'[f].cell]
                                    => color'[stack'[f].cell] = "purple"
    BY <1>3, <1>5, <1>7, <1>8 DEF Frames, Buffer
  <2>3. \A x \in Cell : buffered'[x] /\ rc'[x] # 0 => color'[x] = "purple"
    BY <1>1, <1>2, <1>5, <1>7, <1>8 DEF Buffer
  <2>4. CASE UNCHANGED <<buffered, buffer>>
    BY <1>1, <1>3, <2>2, <2>3, <2>4, BufferStays
  <2>5. CASE /\ ~buffered'[t]
             /\ \A i : i \in Kept' <=> i \in Kept /\ buffer[i] # t
             /\ \A i \in Kept' : buffer'[i] = buffer[i]
    <3>1. \A i \in Kept' : buffered'[buffer'[i]]
      <4>1. \A i \in Kept : buffer[i] \in Cell /\ buffered[buffer[i]]
        BY KeptIs DEF Buffer
      <4>. QED
        BY <1>8, <2>5, <4>1
    <3>2. \A i, j \in Kept' : buffer'[i] = buffer'[j] => i = j
      BY <2>5 DEF Buffer
    <3>3. \A x \in Cell : buffered'[x] => \E i \in Kept' : buffer'[i] = x
      <4>1. SUFFICES ASSUME NEW x \in Cell, buffered'[x]
                     PROVE  \E i \in Kept' : buffer'[i] = x
        OBVIOUS
      <4>2. x # t /\ buffered[x]
        BY <1>8, <2>5, <4>1
      <4>3. PICK i \in Kept : buffer[i] = x
        BY <4>2 DEF Buffer
      <4>. QED
        BY <2>5, <4>2, <4>3
    <3>. QED
      BY <1>3, <2>1, <2>2, <2>3, <3>1, <3>2, <3>3 DEF Buffer
  <2>. QED
    BY <1>9, <2>4, <2>5
<1>16. Counted'
  <2>1. \A e \in Edge : e[1] # t => (Owned(stack, e)' <=> Owned(stack, e))
    <3>1. SUFFICES ASSUME NEW e \in Edge, e[1] # t
                   PROVE  Owned(stack, e)' <=> Owned(stack, e)
      OBVIOUS
    <3>2. e[1] \in Cell
      BY EdgeIs
    <3>3. Whole(e[1])' <=> Whole(e[1])
      BY <1>1, <1>4, <1>7, <1>8, <3>1, <3>2 DEF Whole, OwnDestructor
    <3>4. HasFrame(stack', e[1], e[2]) <=> HasFrame(stack, e[1], e[2])
      BY <1>5, <3>1
    <3>. QED
      BY <3>3, <3>4 DEF Owned
  <2>2. \A e \in Edge : e[1] = t => ~Owned(stack, e)'
    <3>1. \A x \in Cell : x = t => ~Whole(x)'
      BY <1>1, <1>5, <1>7 DEF Whole
    <3>2. \A e \in Edge : e[1] = t => ~Whole(e[1])' /\ ~HasFrame(stack', e[1], e[2])
      BY <1>5, <3>1, EdgeIs
    <3>. QED
      BY <3>2 DEF Owned
  <2>3. \A e \in Edge : e[1] = t /\ Owned(stack, e) => slot[e[1]][e[2]] = none
    <3>1. SUFFICES ASSUME NEW e \in Edge, e[1] = t, Owned(stack, e)
                   PROVE  slot[t][e[2]] = none
      OBVIOUS
    <3>2. e[2] \in Slot /\ e[2] >= Top.next
      BY <1>5, <3>1, EdgeIs DEF Owned
    <3>3. e[2] \in Top.next..2
      BY <1>6, <3>2 DEF Slot
    <3>. QED
      BY <1>1, <3>3 DEF t
  <2>4. \A x \in Cell : EdgesOf(stack, slot, x)' = EdgesOf(stack, slot, x)
    <3>1. SUFFICES ASSUME NEW x \in Cell, NEW e \in Edge
                   PROVE  Owned(stack, e)' /\ slot'[e[1]][e[2]] = x
                             <=> Owned(stack, e) /\ slot[e[1]][e[2]] = x
      BY DEF EdgesOf
    <3>2. e[1] \in Cell /\ x # none
      BY EdgeIs, CellAssumption
    <3>3. CASE e[1] = t
      BY <2>2, <2>3, <3>2, <3>3
    <3>4. CASE e[1] # t
      BY <1>8, <2>1, <3>2, <3>4
    <3>. QED
      BY <3>3, <3>4
  <2>5. \A x \in Cell : Late(pending, x)' = Late(pending, x)
    BY <1>1 DEF Late
  <2>6. Sums
    BY <1>2, CountedIs
  <2>7. Sums'
    BY <1>1, <2>4, <2>5, <2>6 DEF Sums
  <2>. QED
    BY <1>3, <1>10, <2>7, CountedAfter
<1>. QED
  BY <1>10, <1>11, <1>12, <1>13, <1>14, <1>15, <1>16

-----------------------------------------------------------------------------
(* The end of a collect, and its frees.                                    *)

\* The phase of the collector is the only one.
LEMMA TopPhase ==
  ASSUME TypeOK, Frames, stack # <<>>, Top.step \in Phases
  PROVE  /\ \A f \in DOMAIN Below : Below[f].step \notin Phases
         /\ Top.cell = none
         /\ InCollect
         /\ \A step \in Phases : Active(step) <=> Top.step = step
<1>1. /\ DOMAIN stack = DOMAIN Below \cup {Len(stack)}
      /\ Len(stack) \notin DOMAIN Below
      /\ \A f \in DOMAIN Below : Below[f] = stack[f]
      /\ Top = stack[Len(stack)]
  BY PopIs
<1>2. \A f \in DOMAIN stack : stack[f].step \in Phases => f = Len(stack)
  BY <1>1 DEF Frames
<1>3. Top.cell = none
  BY <1>1 DEF Frames, Phases
<1>4. \A step \in Phases : Active(step) <=> Top.step = step
  BY <1>1, <1>2 DEF Active
<1>5. InCollect
  BY <1>4 DEF InCollect, Phases
<1>6. \A f \in DOMAIN Below : Below[f].step \notin Phases
  BY <1>1, <1>2
<1>. QED
  BY <1>3, <1>4, <1>5, <1>6

\* The entries nominated meanwhile move to the front of the buffer.
LEMMA BufferRest ==
  ASSUME TypeOK, Buffer, Active("free"), ~InCollect',
         buffer' = Filter(SubSeq(buffer, processed + 1, Len(buffer)), Cell)
  PROVE  /\ buffer' \in Seq(Cell \cup {none})
         /\ Kept' = DOMAIN buffer'
         /\ \A i \in Kept' : \E k \in Kept : buffer'[i] = buffer[k]
         /\ \A k \in Kept : \E i \in Kept' : buffer'[i] = buffer[k]
         /\ \A i, j \in Kept' : buffer'[i] = buffer'[j] => i = j
<1>. DEFINE n == Len(buffer)
            d == n - processed
            r == SubSeq(buffer, processed + 1, Len(buffer))
<1>1. /\ buffer \in Seq(Cell \cup {none}) /\ n \in Nat /\ DOMAIN buffer = 1 .. n
      /\ processed \in Nat /\ processed <= n /\ d \in Nat /\ processed + d = n
  BY KeptIs
<1>. HIDE DEF d, n
<1>2. \A i \in processed + 1 .. n : buffer[i] \in Cell \cup {none}
  BY <1>1
<1>3. /\ r \in Seq(Cell \cup {none})
      /\ Len(r) = IF processed + 1 <= n THEN n - (processed + 1) + 1 ELSE 0
      /\ \A i \in 1 .. n - (processed + 1) + 1 : r[i] = buffer[processed + 1 + i - 1]
  BY <1>1, <1>2, SubSeqProperties DEF n
<1>. HIDE DEF r
<1>4. /\ Len(r) = d /\ DOMAIN r = 1 .. d
      /\ \A i \in 1 .. d : r[i] = buffer[processed + i] /\ processed + i \in DOMAIN buffer
                             /\ processed + i > processed
  BY <1>1, <1>3
<1>5. /\ buffer' = Filter(r, Cell)
      /\ buffer' \in Seq(Cell \cup {none})
      /\ DOMAIN buffer' = 1 .. Passed(r, Cell, Len(r))
      /\ \A j \in DOMAIN buffer' : buffer'[j] \in Cell
  BY <1>3, FilterSeq DEF r
<1>6. \A j \in DOMAIN buffer' :
         /\ Source(r, Cell, j) \in DOMAIN r
         /\ Passed(r, Cell, Source(r, Cell, j)) = j
         /\ buffer'[j] = r[Source(r, Cell, j)]
  BY <1>3, <1>5, SourceCorrect DEF Filter
<1>7. \A k : k \in Kept <=> k \in DOMAIN buffer /\ buffer[k] # none /\ k > processed
  BY DEF Kept
<1>8. \A j \in DOMAIN buffer' : /\ processed + Source(r, Cell, j) \in Kept
                                /\ buffer'[j] = buffer[processed + Source(r, Cell, j)]
  BY <1>4, <1>5, <1>6, <1>7, CellAssumption
<1>9. Kept' = DOMAIN buffer'
  <2>1. ~Active("free")'
    BY DEF InCollect
  <2>2. \A j \in DOMAIN buffer' : buffer'[j] # none
    BY <1>5, CellAssumption
  <2>. QED
    BY <2>1, <2>2 DEF Kept
<1>10. \A k \in Kept : \E i \in Kept' : buffer'[i] = buffer[k]
  <2>1. SUFFICES ASSUME NEW k \in Kept
                 PROVE  \E i \in DOMAIN buffer' : buffer'[i] = buffer[k]
    BY <1>9
  <2>. DEFINE i == k - processed
  <2>2. k \in 1 .. n /\ k > processed /\ buffer[k] \in Cell
    BY <1>1, <1>7, KeptIs
  <2>3. i \in 1 .. d /\ processed + i = k
    BY <1>1, <2>2
  <2>. HIDE DEF i
  <2>4. i \in DOMAIN r /\ r[i] = buffer[k] /\ r[i] \in Cell
    BY <1>4, <2>2, <2>3
  <2>5. /\ Passed(r, Cell, i) \in DOMAIN Filter(r, Cell)
        /\ Filter(r, Cell)[Passed(r, Cell, i)] = r[i]
    BY <1>3, <2>4, FilterKeeps
  <2>. QED
    BY <1>5, <2>4, <2>5
<1>11. \A i, j \in DOMAIN buffer' : buffer'[i] = buffer'[j] => i = j
  <2>1. SUFFICES ASSUME NEW i \in DOMAIN buffer', NEW j \in DOMAIN buffer',
                        buffer'[i] = buffer'[j]
                 PROVE  i = j
    OBVIOUS
  <2>. DEFINE a == Source(r, Cell, i)
              b == Source(r, Cell, j)
  <2>2. processed + a = processed + b
    BY <1>8, <2>1 DEF Buffer
  <2>3. a \in 1 .. d /\ b \in 1 .. d
    BY <1>4, <1>6
  <2>4. Passed(r, Cell, a) = i /\ Passed(r, Cell, b) = j
    BY <1>6
  <2>. HIDE DEF a, b
  <2>5. a = b
    BY <1>1, <2>2, <2>3
  <2>. QED
    BY <2>4, <2>5
<1>. QED
  BY <1>5, <1>8, <1>9, <1>10, <1>11

\* A collect ends (compact_from): the entries it took on go, those nominated
\* meanwhile stay and are all there is.
LEMMA CollectEndKeeps ==
  ASSUME TypeOK, CollectInv, CollectEnd
  PROVE  TypeOK' /\ CollectInv'
<1>. USE DEF CollectInv
<1>1. /\ At("free") /\ stack # <<>> /\ Top.step = "free" /\ stack' = Below
      /\ corpses = {} /\ processed' = 0
      /\ buffer' = Filter(SubSeq(buffer, processed + 1, Len(buffer)), Cell)
      /\ UNCHANGED <<held, shape, slot, rc, color, buffered, corpses, phase, pending>>
  BY DEF CollectEnd, At
<1>2. ~At("mark") /\ ~At("scan") /\ ~At("sweep")
  BY <1>1 DEF At
<1>3. /\ ~At("mark")' /\ ~At("scan")' /\ ~At("sweep")'
      /\ ~InCollect'
      /\ stack' \in Seq(Frame)
      /\ \A f \in DOMAIN stack' : f \in DOMAIN stack /\ stack'[f] = stack[f]
  BY <1>1, PopActive DEF Phases
<1>4. Top.cell = none /\ Active("free")
  BY <1>1, TopPhase DEF Phases
<1>5. /\ color \in [Cell -> {"black", "purple"}]
      /\ \A c \in Cell : color[c] \notin Trying
  BY <1>2, NoTrial
<1>6. /\ buffer' \in Seq(Cell \cup {none})
      /\ \A i \in Kept' : \E k \in Kept : buffer'[i] = buffer[k]
      /\ \A k \in Kept : \E i \in Kept' : buffer'[i] = buffer[k]
      /\ \A i, j \in Kept' : buffer'[i] = buffer'[j] => i = j
  BY <1>1, <1>3, <1>4, BufferRest
<1>7. TypeOK'
  <2>1. processed' \in 0 .. Len(buffer')
    BY <1>1, <1>6
  <2>. QED
    BY <1>1, <1>3, <1>5, <1>6, <2>1, TypesAfter DEF TypeOK
<1>8. Frames'
  <2>1. \A f \in DOMAIN stack' : GoodAfter(stack'[f])
    BY <1>1, <1>3 DEF Frames, GoodAfter, Walkable
  <2>. QED
    BY <1>1, <2>1, FramesPop
<1>9. Shapes' /\ Corpses'
  BY <1>1 DEF Shapes, Corpses, Walkable
<1>10. Trial'
  BY <1>1, <1>5 DEF Trial, Trying
<1>11. Buffer'
  <2>1. \A i \in Kept' : buffered'[buffer'[i]]
    BY <1>1, <1>6 DEF Buffer
  <2>2. \A x \in Cell : buffered'[x] => \E i \in Kept' : buffer'[i] = x
    BY <1>1, <1>6 DEF Buffer
  <2>3. \A f \in DOMAIN stack' : stack'[f].step = "drop" /\ buffered'[stack'[f].cell]
                                    => color'[stack'[f].cell] = "purple"
    BY <1>1, <1>3 DEF Buffer
  <2>4. \A x \in Cell : buffered'[x] /\ rc'[x] # 0 => color'[x] = "purple"
    BY <1>1, <1>2 DEF Buffer
  <2>. QED
    BY <1>1, <1>3, <1>6, <2>1, <2>2, <2>3, <2>4 DEF Buffer
<1>12. Counted'
  <2>1. \A x \in Cell, i \in Slot : HasFrame(stack', x, i) <=> HasFrame(stack, x, i)
    BY <1>1, <1>4, PopIs, CellAssumption
  <2>. QED
    BY <1>1, <2>1, QuietCounts
<1>. QED
  BY <1>7, <1>8, <1>9, <1>10, <1>11, <1>12

\* What is known when a corpse is finalized.
LEMMA FinalizeIs ==
  ASSUME TypeOK, CollectInv, NEW c \in Cell, Finalize(c)
  PROVE  /\ c \in corpses /\ corpses' = corpses \ {c}
         /\ UNCHANGED <<held, color, buffered, buffer, processed, phase>>
         /\ Walkable(c) /\ rc[c] = 0 /\ color[c] = "black" /\ ~buffered[c]
         /\ ~At("mark") /\ ~At("scan") /\ ~At("sweep")
         /\ Active("free") /\ InCollect
         /\ SameFrames(stack) /\ stack \in Seq(Frame)
         /\ color \in [Cell -> {"black", "purple"}]
         /\ \A x \in Cell : color[x] \notin Trying
         /\ Sums
         /\ \A f \in DOMAIN stack : stack[f].step = "drop" => stack[f].cell # c
         /\ \A j : ~HasFrame(stack, c, j)
         /\ OwnDestructor(c) <=> Whole(c)
         /\ pending \in Seq(Cell)
         /\ rc \in [Cell -> Nat] /\ shape \in [Cell -> Shape \cup {"free"}]
         /\ slot \in [Cell -> [Slot -> Cell \cup {none}]]
<1>. USE DEF CollectInv
<1>1. /\ At("free") /\ c \in corpses /\ corpses' = corpses \ {c}
      /\ UNCHANGED <<held, color, buffered, buffer, processed, phase>>
  BY DEF Finalize
<1>2. ~At("mark") /\ ~At("scan") /\ ~At("sweep")
  BY <1>1 DEF At
<1>3. Walkable(c) /\ rc[c] = 0 /\ color[c] = "black" /\ ~buffered[c] /\ Active("free")
  BY <1>1 DEF Corpses
<1>4. InCollect
  BY <1>3 DEF InCollect
<1>5. SameFrames(stack) /\ stack \in Seq(Frame)
  BY StackIs
<1>6. /\ color \in [Cell -> {"black", "purple"}]
      /\ \A x \in Cell : color[x] \notin Trying
  BY <1>2, NoTrial
<1>7. Sums
  BY <1>2, CountedIs
<1>8. \A f \in DOMAIN stack : stack[f].cell # c
  BY <1>1, CellAssumption DEF Frames
<1>9. \A j : ~HasFrame(stack, c, j)
  BY <1>8 DEF HasFrame
<1>10. OwnDestructor(c) <=> Whole(c)
  BY <1>1, <1>3, <1>6 DEF Whole
<1>11. /\ pending \in Seq(Cell)
       /\ rc \in [Cell -> Nat] /\ shape \in [Cell -> Shape \cup {"free"}]
       /\ slot \in [Cell -> [Slot -> Cell \cup {none}]]
  BY DEF TypeOK
<1>. QED
  BY <1>1, <1>2, <1>3, <1>4, <1>5, <1>6, <1>7, <1>8, <1>9, <1>10, <1>11

\* The corpse with a destructor of its own is dropped once more.
LEMMA FinalizeDrops ==
  ASSUME TypeOK, CollectInv, NEW c \in Cell, Finalize(c),
         OwnDestructor(c), stack' = Append(stack, Drop(c)),
         UNCHANGED <<shape, slot, rc, pending>>
  PROVE  TypeOK' /\ CollectInv'
<1>. USE DEF CollectInv
<1>1. /\ c \in corpses /\ corpses' = corpses \ {c}
      /\ UNCHANGED <<held, color, buffered, buffer, processed, phase>>
      /\ Walkable(c) /\ rc[c] = 0 /\ color[c] = "black" /\ ~buffered[c]
      /\ ~At("mark") /\ ~At("scan") /\ ~At("sweep")
      /\ Active("free") /\ InCollect
      /\ SameFrames(stack) /\ stack \in Seq(Frame)
      /\ color \in [Cell -> {"black", "purple"}]
      /\ \A x \in Cell : color[x] \notin Trying
      /\ Sums
      /\ \A f \in DOMAIN stack : stack[f].step = "drop" => stack[f].cell # c
      /\ OwnDestructor(c) <=> Whole(c)
  BY FinalizeIs
<1>2. Drop(c) \in Frame /\ Drop(c).step = "drop" /\ Drop(c).cell = c /\ Drop(c).next = 1
  BY FrameIs
<1>. HIDE DEF Drop
<1>3. /\ Active("free")' /\ InCollect'
      /\ ~At("mark")' /\ ~At("scan")' /\ ~At("sweep")'
  BY <1>1, <1>2, PushActive
<1>4. /\ stack' \in Seq(Frame)
      /\ DOMAIN stack' = DOMAIN stack \cup {Len(stack) + 1}
      /\ stack'[Len(stack) + 1] = Drop(c)
      /\ \A f \in DOMAIN stack : stack'[f] = stack[f]
      /\ \A a, i : HasFrame(stack', a, i)
                      <=> HasFrame(stack, a, i) \/ (Drop(c).cell = a /\ i >= Drop(c).next)
  BY <1>1, <1>2, PushIs
<1>5. TypeOK'
  BY <1>1, <1>4, TypesAfter DEF TypeOK
<1>6. Shapes' /\ Corpses' /\ Trial'
  BY <1>1, <1>3 DEF Shapes, Corpses, Walkable, Trial, Trying
<1>7. Frames'
  <2>1. \A f \in DOMAIN stack : GoodAfter(stack[f])
    BY <1>1 DEF Frames, GoodAfter, Walkable
  <2>2. GoodAfter(Drop(c))
    BY <1>1, <1>2 DEF GoodAfter, Walkable
  <2>. QED
    BY <1>1, <1>2, <2>1, <2>2, FramesPush DEF Phases
<1>8. Buffer'
  <2>1. \A f \in DOMAIN stack' : stack'[f].step = "drop" /\ buffered[stack'[f].cell]
                                    => color'[stack'[f].cell] = "purple"
    BY <1>1, <1>2, <1>4 DEF Buffer
  <2>. QED
    BY <1>1, <1>3, <2>1, BufferStays DEF Buffer
<1>9. Counted'
  <2>1. \A e \in Edge : Owned(stack, e)' <=> Owned(stack, e)
    <3>1. SUFFICES ASSUME NEW e \in Edge
                   PROVE  Owned(stack, e)' <=> Owned(stack, e)
      OBVIOUS
    <3>2. e[1] \in Cell /\ e[2] \in Slot /\ e[2] >= 1
      BY EdgeIs DEF Slot
    <3>3. CASE e[1] = c
      BY <1>1, <1>2, <1>4, <3>2, <3>3 DEF Owned
    <3>4. CASE e[1] # c
      <4>1. Whole(e[1])' <=> Whole(e[1])
        BY <1>1, <3>2, <3>4 DEF Whole, OwnDestructor
      <4>2. HasFrame(stack', e[1], e[2]) <=> HasFrame(stack, e[1], e[2])
        BY <1>2, <1>4, <3>4
      <4>. QED
        BY <4>1, <4>2 DEF Owned
    <3>. QED
      BY <3>3, <3>4
  <2>2. \A x \in Cell : EdgesOf(stack, slot, x)' = EdgesOf(stack, slot, x)
    BY <2>1 DEF EdgesOf
  <2>3. \A x \in Cell : Late(pending, x)' = Late(pending, x)
    BY DEF Late
  <2>4. Sums'
    BY <1>1, <2>2, <2>3 DEF Sums
  <2>. QED
    BY <1>3, <1>5, <2>4, CountedAfter
<1>. QED
  BY <1>5, <1>6, <1>7, <1>8, <1>9

\* Its last drop is put off.
LEMMA FinalizeDefers ==
  ASSUME TypeOK, CollectInv, NEW c \in Cell, Finalize(c),
         shape[c] = "bag", rc' = [rc EXCEPT ![c] = 1], Defer(c, stack),
         UNCHANGED <<shape, slot>>
  PROVE  TypeOK' /\ CollectInv'
<1>. USE DEF CollectInv
<1>1. /\ c \in corpses /\ corpses' = corpses \ {c}
      /\ UNCHANGED <<held, color, buffered, buffer, processed, phase>>
      /\ Walkable(c) /\ rc[c] = 0 /\ color[c] = "black" /\ ~buffered[c]
      /\ ~At("mark") /\ ~At("scan") /\ ~At("sweep")
      /\ Active("free") /\ InCollect
      /\ SameFrames(stack) /\ stack \in Seq(Frame)
      /\ color \in [Cell -> {"black", "purple"}]
      /\ \A x \in Cell : color[x] \notin Trying
      /\ Sums
      /\ \A f \in DOMAIN stack : stack[f].step = "drop" => stack[f].cell # c
      /\ OwnDestructor(c) <=> Whole(c)
      /\ pending \in Seq(Cell) /\ rc \in [Cell -> Nat]
  BY FinalizeIs
<1>2. Loop \in Frame /\ Loop.step = "loop" /\ Loop.cell = none
  BY FrameIs
<1>. HIDE DEF Loop
<1>3. /\ pending' = Append(pending, c)
      /\ stack' = stack \/ stack' = Append(stack, Loop)
  BY DEF Defer, Loop
<1>4. /\ Active("free")' /\ InCollect'
      /\ ~At("mark")' /\ ~At("scan")' /\ ~At("sweep")'
      /\ stack' \in Seq(Frame)
      /\ \A x \in Cell, i \in Slot : HasFrame(stack', x, i) <=> HasFrame(stack, x, i)
      /\ \A f \in DOMAIN stack' : stack'[f].step = "drop" =>
            f \in DOMAIN stack /\ stack'[f] = stack[f]
  <2>1. CASE stack' = stack
    <3>1. Active("free")' /\ InCollect' /\ ~At("mark")' /\ ~At("scan")' /\ ~At("sweep")'
      BY <1>1, <2>1, SameActive
    <3>. QED
      BY <1>1, <2>1, <3>1
  <2>2. CASE stack' = Append(stack, Loop)
    <3>1. Active("free")' /\ InCollect' /\ ~At("mark")' /\ ~At("scan")' /\ ~At("sweep")'
      BY <1>1, <1>2, <2>2, PushActive
    <3>2. /\ stack' \in Seq(Frame)
          /\ DOMAIN stack' = DOMAIN stack \cup {Len(stack) + 1}
          /\ stack'[Len(stack) + 1] = Loop
          /\ \A f \in DOMAIN stack : stack'[f] = stack[f]
          /\ \A a, i : HasFrame(stack', a, i)
                          <=> HasFrame(stack, a, i) \/ (Loop.cell = a /\ i >= Loop.next)
      BY <1>1, <1>2, <2>2, PushIs
    <3>3. \A x \in Cell : Loop.cell # x
      BY <1>2, CellAssumption
    <3>. QED
      BY <1>2, <3>1, <3>2, <3>3
  <2>. QED
    BY <1>3, <2>1, <2>2
<1>5. rc' \in [Cell -> Nat] /\ rc'[c] = 1 /\ \A x \in Cell : x # c => rc'[x] = rc[x]
  BY <1>1
<1>6. TypeOK'
  <2>1. pending' \in Seq(Cell)
    BY <1>1, <1>3
  <2>. QED
    BY <1>1, <1>4, <1>5, <2>1, TypesAfter DEF TypeOK
<1>7. Shapes' /\ Trial'
  BY <1>1, <1>5 DEF Shapes, Walkable, Trial, Trying
<1>8. Corpses'
  <2>1. corpses \subseteq Cell
    BY DEF TypeOK
  <2>. QED
    BY <1>1, <1>4, <1>5, <2>1 DEF Corpses, Walkable
<1>9. Frames'
  <2>1. \A f \in DOMAIN stack : GoodAfter(stack[f])
    BY <1>1, <1>5 DEF Frames, GoodAfter, Walkable
  <2>2. GoodAfter(Loop)
    BY <1>2 DEF GoodAfter
  <2>. QED
    BY <1>1, <1>2, <1>3, <2>1, <2>2, FramesSame, FramesPush DEF Phases
<1>10. Buffer'
  <2>1. \A f \in DOMAIN stack' : stack'[f].step = "drop" /\ buffered[stack'[f].cell]
                                    => color'[stack'[f].cell] = "purple"
    BY <1>1, <1>4 DEF Buffer
  <2>2. \A x \in Cell : buffered[x] /\ rc'[x] # 0 => color'[x] = "purple"
    BY <1>1, <1>5 DEF Buffer
  <2>. QED
    BY <1>1, <1>4, <2>1, <2>2, BufferStays
<1>11. Counted'
  <2>1. \A x \in Cell : Whole(x)' <=> Whole(x)
    BY <1>1, <1>5 DEF Whole, OwnDestructor
  <2>2. \A x \in Cell : EdgesOf(stack, slot, x)' = EdgesOf(stack, slot, x)
    BY <1>4, <2>1, EdgeIs DEF EdgesOf, Owned
  <2>3. \A x \in Cell :
           rc'[x] = held'[x] + Cardinality(Late(pending, x)')
                       + Cardinality(EdgesOf(stack, slot, x))
    <3>1. SUFFICES ASSUME NEW x \in Cell
                   PROVE  rc'[x] = held'[x] + Cardinality(Late(pending, x)')
                                      + Cardinality(EdgesOf(stack, slot, x))
      OBVIOUS
    <3>. DEFINE l == Cardinality(Late(pending, x))
                m == Cardinality(Late(pending, x)')
                e == Cardinality(EdgesOf(stack, slot, x))
    <3>2. rc[x] = held[x] + l + e /\ held[x] \in Nat
      BY <1>1, CellIs DEF Sums
    <3>3. l \in Nat /\ m = l + (IF c = x THEN 1 ELSE 0)
      <4>1. Late(pending, x)' = Late(Append(pending, c), x)
        BY <1>3 DEF Late
      <4>. QED
        BY <1>1, <4>1, LateNat, LateAppend
    <3>4. e \in Nat
      BY EdgesNat DEF EdgesOf
    <3>5. held' = held
      BY <1>1
    <3>. HIDE DEF l, m, e
    <3>6. rc'[x] = held'[x] + m + e
      BY <1>1, <1>5, <3>2, <3>3, <3>4, <3>5
    <3>. QED
      BY <3>6 DEF m, e
  <2>4. Sums'
    BY <2>2, <2>3 DEF Sums
  <2>. QED
    BY <1>4, <1>6, <2>4, CountedAfter
<1>. QED
  BY <1>6, <1>7, <1>8, <1>9, <1>10, <1>11

\* The other corpses are freed.
LEMMA FinalizeFrees ==
  ASSUME TypeOK, CollectInv, NEW c \in Cell, Finalize(c),
         ~OwnDestructor(c), Free({c}), UNCHANGED <<stack, rc, pending>>
  PROVE  TypeOK' /\ CollectInv'
<1>. USE DEF CollectInv
<1>1. /\ c \in corpses /\ corpses' = corpses \ {c}
      /\ UNCHANGED <<held, color, buffered, buffer, processed, phase>>
      /\ Walkable(c) /\ rc[c] = 0 /\ color[c] = "black" /\ ~buffered[c]
      /\ ~At("mark") /\ ~At("scan") /\ ~At("sweep")
      /\ Active("free") /\ InCollect
      /\ SameFrames(stack) /\ stack \in Seq(Frame)
      /\ color \in [Cell -> {"black", "purple"}]
      /\ \A x \in Cell : color[x] \notin Trying
      /\ Sums
      /\ \A f \in DOMAIN stack : stack[f].step = "drop" => stack[f].cell # c
      /\ \A j : ~HasFrame(stack, c, j)
      /\ ~Whole(c)
      /\ shape \in [Cell -> Shape \cup {"free"}]
      /\ slot \in [Cell -> [Slot -> Cell \cup {none}]]
  BY FinalizeIs
<1>2. /\ shape' = [x \in Cell |-> IF x \in {c} THEN "free" ELSE shape[x]]
      /\ slot' = [x \in Cell |-> IF x \in {c} THEN NoSlots ELSE slot[x]]
      /\ NoSlots \in [Slot -> Cell \cup {none}]
  BY DEF Free, NoSlots
<1>3. /\ shape' \in [Cell -> Shape \cup {"free"}] /\ shape'[c] = "free"
      /\ \A x \in Cell : x # c => shape'[x] = shape[x]
  BY <1>1, <1>2
<1>4. /\ slot' \in [Cell -> [Slot -> Cell \cup {none}]] /\ slot'[c] = NoSlots
      /\ \A x \in Cell : x # c => slot'[x] = slot[x]
  BY <1>1, <1>2
<1>5. /\ Active("free")' /\ InCollect'
      /\ ~At("mark")' /\ ~At("scan")' /\ ~At("sweep")'
  BY <1>1, SameActive
<1>6. TypeOK'
  BY <1>1, <1>3, <1>4, TypesAfter DEF TypeOK
<1>7. Shapes' /\ Trial'
  BY <1>1, <1>3, <1>4 DEF Shapes, Walkable, Trial, Trying
<1>8. Corpses'
  <2>1. corpses \subseteq Cell
    BY DEF TypeOK
  <2>. QED
    BY <1>1, <1>3, <1>5, <2>1 DEF Corpses, Walkable
<1>9. Frames'
  <2>1. \A f \in DOMAIN stack : GoodAfter(stack[f])
    BY <1>1, <1>3 DEF Frames, GoodAfter, Walkable
  <2>. QED
    BY <1>1, <2>1, FramesSame
<1>10. Buffer'
  BY <1>1, <1>5, BufferStays DEF Buffer
<1>11. Counted'
  <2>1. \A x \in Cell : x # c => (Whole(x)' <=> Whole(x))
    BY <1>1, <1>3 DEF Whole, OwnDestructor
  <2>2. \A x \in Cell : EdgesOf(stack, slot, x)' = EdgesOf(stack, slot, x)
    <3>1. SUFFICES ASSUME NEW x \in Cell, NEW e \in Edge
                   PROVE  Owned(stack, e)' /\ slot'[e[1]][e[2]] = x
                             <=> Owned(stack, e) /\ slot[e[1]][e[2]] = x
      BY DEF EdgesOf
    <3>2. e[1] \in Cell /\ e[2] \in Slot /\ x # none
      BY EdgeIs, CellAssumption
    <3>3. CASE e[1] = c
      <4>1. ~Owned(stack, e)
        BY <1>1, <3>3 DEF Owned
      <4>2. slot'[e[1]][e[2]] = none
        BY <1>4, <3>2, <3>3 DEF NoSlots
      <4>. QED
        BY <3>2, <4>1, <4>2
    <3>4. CASE e[1] # c
      <4>1. Owned(stack, e)' <=> Owned(stack, e)
        BY <1>1, <2>1, <3>2, <3>4 DEF Owned
      <4>. QED
        BY <1>4, <3>2, <3>4, <4>1
    <3>. QED
      BY <3>3, <3>4
  <2>3. \A x \in Cell : Late(pending, x)' = Late(pending, x)
    BY DEF Late
  <2>4. Sums'
    BY <1>1, <2>2, <2>3 DEF Sums
  <2>. QED
    BY <1>5, <1>6, <2>4, CountedAfter
<1>. QED
  BY <1>6, <1>7, <1>8, <1>9, <1>10, <1>11

\* Whatever finalize_all does with a corpse keeps the invariant.
LEMMA FinalizeKeeps ==
  ASSUME TypeOK, CollectInv, NEW c \in Cell, Finalize(c)
  PROVE  TypeOK' /\ CollectInv'
BY FinalizeDrops, FinalizeDefers, FinalizeFrees DEF Finalize

-----------------------------------------------------------------------------
(* The program's own steps.                                                *)

\* Between releases no cell is being dismantled, nothing is on trial and a
\* cell somebody holds has its slots.
LEMMA RunningIs ==
  ASSUME TypeOK, CollectInv, stack = <<>>
  PROVE  /\ ~At("mark") /\ ~At("scan") /\ ~At("sweep") /\ ~InCollect
         /\ \A step : ~Active(step)
         /\ corpses = {} /\ processed = 0
         /\ color \in [Cell -> {"black", "purple"}]
         /\ Sums
         /\ \A c : EdgesOf(stack, slot, c)
                      = {e \in Edge : rc[e[1]] # 0 /\ slot[e[1]][e[2]] = c}
         /\ \A c \in Cell : held[c] > 0 => rc[c] # 0
         /\ \A c \in Cell : rc[c] = 0 => /\ held[c] = 0
                                         /\ EdgesOf(stack, slot, c) = {}
                                         /\ Cardinality(Late(pending, c)) = 0
<1>. USE DEF CollectInv
<1>1. /\ ~At("mark") /\ ~At("scan") /\ ~At("sweep") /\ ~InCollect
      /\ \A step : ~Active(step)
      /\ \A a, i : ~HasFrame(stack, a, i)
  BY DEF At, Active, InCollect, HasFrame
<1>2. corpses = {} /\ processed = 0
  BY <1>1 DEF Corpses, Buffer
<1>3. /\ color \in [Cell -> {"black", "purple"}]
      /\ \A c \in Cell : color[c] \notin Trying
      /\ Sums
  BY <1>1, NoTrial, CountedIs
<1>4. \A c : EdgesOf(stack, slot, c)
                = {e \in Edge : rc[e[1]] # 0 /\ slot[e[1]][e[2]] = c}
  <2>1. \A e \in Edge : Owned(stack, e) <=> rc[e[1]] # 0
    BY <1>1, <1>2, <1>3, EdgeIs DEF Owned, Whole
  <2>. QED
    BY <2>1 DEF EdgesOf
<1>5. ASSUME NEW c \in Cell
      PROVE  /\ held[c] > 0 => rc[c] # 0
             /\ rc[c] = 0 => /\ held[c] = 0
                             /\ EdgesOf(stack, slot, c) = {}
                             /\ Cardinality(Late(pending, c)) = 0
  <2>. DEFINE l == Cardinality(Late(pending, c))
              E == EdgesOf(stack, slot, c)
              m == Cardinality(E)
  <2>1. rc[c] = held[c] + l + m /\ held[c] \in Nat
    BY <1>3, CellIs DEF Sums
  <2>2. l \in Nat
    BY LateNat DEF TypeOK
  <2>3. m \in Nat /\ (m = 0 => E = {})
    <3>1. E \in SUBSET Edge
      BY DEF EdgesOf
    <3>. HIDE DEF E
    <3>. QED
      BY <3>1, EdgesNat
  <2>. HIDE DEF l, m, E
  <2>4. (held[c] > 0 => rc[c] # 0) /\ (rc[c] = 0 => held[c] = 0 /\ l = 0 /\ m = 0)
    BY <2>1, <2>2, <2>3
  <2>. QED
    BY <2>3, <2>4 DEF l, E
<1>. QED
  BY <1>1, <1>2, <1>3, <1>4, <1>5

\* Such a step leaves the collector's own state alone.
LEMMA RunningKeeps ==
  ASSUME TypeOK, CollectInv, stack = <<>>,
         UNCHANGED <<color, buffered, buffer, stack, processed, corpses, phase, pending>>,
         held' \in [Cell -> 0..HandleBound],
         shape' \in [Cell -> Shape \cup {"free"}],
         slot' \in [Cell -> [Slot -> Cell \cup {none}]],
         rc' \in [Cell -> Nat],
         Shapes',
         \A x \in Cell : buffered[x] /\ rc'[x] # 0 => color[x] = "purple",
         \A x \in Cell : rc'[x] = held'[x] + Cardinality(Late(pending, x))
                            + Cardinality({e \in Edge : rc'[e[1]] # 0
                                                        /\ slot'[e[1]][e[2]] = x})
  PROVE  TypeOK' /\ CollectInv'
<1>. USE DEF CollectInv
<1>1. /\ ~InCollect
      /\ corpses = {} /\ processed = 0
      /\ color \in [Cell -> {"black", "purple"}]
      /\ \A c \in Cell : color[c] \notin Trying
  BY RunningIs, NoTrial
<1>2. /\ ~At("mark")' /\ ~At("scan")' /\ ~At("sweep")'
      /\ \A step : ~Active(step) /\ ~Active(step)'
      /\ \A a, i : ~HasFrame(stack', a, i)
      /\ stack' \in Seq(Frame) /\ DOMAIN stack' = {}
  BY DEF At, Active, HasFrame
<1>3. TypeOK'
  BY <1>1, <1>2, TypesAfter DEF TypeOK
<1>4. Frames' /\ Corpses'
  BY <1>1, <1>2 DEF Frames, Corpses
<1>5. Trial'
  BY <1>1 DEF Trial, Trying
<1>6. Buffer'
  BY <1>1, <1>2, BufferStays
<1>7. Counted'
  <2>1. \A e \in Edge : Owned(stack, e)' <=> rc'[e[1]] # 0
    BY <1>1, <1>2, EdgeIs DEF Owned, Whole
  <2>2. \A x : EdgesOf(stack, slot, x)'
                  = {e \in Edge : rc'[e[1]] # 0 /\ slot'[e[1]][e[2]] = x}
    BY <2>1 DEF EdgesOf
  <2>3. \A x : Late(pending, x)' = Late(pending, x)
    BY DEF Late
  <2>4. Sums'
    BY <2>2, <2>3 DEF Sums
  <2>. QED
    BY <1>2, <1>3, <2>4, CountedAfter
<1>. QED
  BY <1>3, <1>4, <1>5, <1>6, <1>7

\* An allocation: the block is in nobody's slots, and has none filled.
LEMMA NewKeeps ==
  ASSUME TypeOK, CollectInv, NEW c \in Cell, NEW k \in Shape, New(c, k)
  PROVE  TypeOK' /\ CollectInv'
<1>. USE DEF CollectInv
<1>1. /\ stack = <<>> /\ shape[c] = "free"
      /\ held' = [held EXCEPT ![c] = 1]
      /\ shape' = [shape EXCEPT ![c] = k]
      /\ rc' = [rc EXCEPT ![c] = 1]
      /\ UNCHANGED <<slot, color, buffered, buffer, stack, processed, corpses, phase, pending>>
  BY DEF New, Running
<1>2. /\ rc[c] = 0 /\ slot[c] = NoSlots /\ ~buffered[c] /\ color[c] = "black"
  BY <1>1 DEF Shapes, Walkable
<1>3. /\ Sums /\ held[c] = 0
      /\ ~At("scan") /\ ~At("sweep")
      /\ EdgesOf(stack, slot, c) = {} /\ Cardinality(Late(pending, c)) = 0
      /\ \A x : EdgesOf(stack, slot, x)
                   = {e \in Edge : rc[e[1]] # 0 /\ slot[e[1]][e[2]] = x}
  <2>1. stack = <<>>
    BY <1>1
  <2>. QED
    BY <1>2, <2>1, RunningIs
<1>4. /\ held' \in [Cell -> 0..HandleBound] /\ held'[c] = 1
      /\ \A x \in Cell : x # c => held'[x] = held[x]
  <2>1. held \in [Cell -> 0..HandleBound] /\ 1 \in 0..HandleBound
    BY BoundAssumption DEF TypeOK
  <2>. QED
    BY <1>1, <2>1
<1>5. /\ shape' \in [Cell -> Shape \cup {"free"}] /\ shape'[c] = k
      /\ \A x \in Cell : x # c => shape'[x] = shape[x]
      /\ rc' \in [Cell -> Nat] /\ rc'[c] = 1
      /\ \A x \in Cell : x # c => rc'[x] = rc[x]
      /\ slot' \in [Cell -> [Slot -> Cell \cup {none}]]
  BY <1>1 DEF TypeOK
<1>6. Shapes'
  BY <1>1, <1>2, <1>5, ShapeAssumption DEF Shapes, Walkable
<1>7. \A x \in Cell : buffered[x] /\ rc'[x] # 0 => color[x] = "purple"
  BY <1>2, <1>3, <1>5 DEF Buffer
<1>8. ASSUME NEW x \in Cell
      PROVE  rc'[x] = held'[x] + Cardinality(Late(pending, x))
                + Cardinality({e \in Edge : rc'[e[1]] # 0 /\ slot'[e[1]][e[2]] = x})
  <2>. DEFINE l == Cardinality(Late(pending, x))
              m == Cardinality(EdgesOf(stack, slot, x))
  <2>1. {e \in Edge : rc'[e[1]] # 0 /\ slot'[e[1]][e[2]] = x} = EdgesOf(stack, slot, x)
    <3>1. \A i \in Slot : slot[c][i] # x
      BY <1>2, CellAssumption DEF NoSlots
    <3>2. \A e \in Edge : rc'[e[1]] # 0 /\ slot'[e[1]][e[2]] = x
                             <=> rc[e[1]] # 0 /\ slot[e[1]][e[2]] = x
      BY <1>1, <1>5, <3>1, EdgeIs
    <3>. QED
      BY <1>3, <3>2
  <2>2. rc[x] = held[x] + l + m /\ held[x] \in Nat
    BY <1>3, CellIs DEF Sums
  <2>3. x = c => l = 0 /\ m = 0
    BY <1>3, FS_EmptySet
  <2>. HIDE DEF l, m
  <2>4. rc'[x] = held'[x] + l + m
    BY <1>2, <1>3, <1>4, <1>5, <2>2, <2>3
  <2>. QED
    BY <2>1, <2>4 DEF l, m
<1>. QED
  BY <1>1, <1>4, <1>5, <1>6, <1>7, <1>8, RunningKeeps

\* A store: one edge more on b, from a cell that is held.
LEMMA StoreKeeps ==
  ASSUME TypeOK, CollectInv, NEW a \in Cell, NEW i \in Slot, NEW b \in Cell, Store(a, i, b)
  PROVE  TypeOK' /\ CollectInv'
<1>. USE DEF CollectInv
<1>1. /\ stack = <<>> /\ held[a] > 0 /\ held[b] > 0
      /\ Walkable(a) /\ slot[a][i] = none
      /\ slot' = [slot EXCEPT ![a][i] = b]
      /\ rc' = [rc EXCEPT ![b] = @ + 1]
      /\ UNCHANGED <<held, shape, color, buffered, buffer, stack, processed, corpses, phase, pending>>
  BY DEF Store, Running
<1>2. /\ Sums /\ rc[a] # 0 /\ rc[b] # 0
      /\ ~At("scan") /\ ~At("sweep")
      /\ \A x : EdgesOf(stack, slot, x)
                   = {e \in Edge : rc[e[1]] # 0 /\ slot[e[1]][e[2]] = x}
  <2>1. stack = <<>> /\ held[a] > 0 /\ held[b] > 0
    BY <1>1
  <2>. QED
    BY <2>1, RunningIs
<1>3. /\ slot' \in [Cell -> [Slot -> Cell \cup {none}]]
      /\ slot'[a][i] = b
      /\ \A x \in Cell : x # a => slot'[x] = slot[x]
      /\ \A j \in Slot : j # i => slot'[a][j] = slot[a][j]
  BY <1>1 DEF TypeOK
<1>4. /\ rc' \in [Cell -> Nat] /\ rc'[b] = rc[b] + 1
      /\ \A x \in Cell : x # b => rc'[x] = rc[x]
      /\ \A x \in Cell : rc'[x] # 0 <=> rc[x] # 0
      /\ held' \in [Cell -> 0..HandleBound]
      /\ shape' \in [Cell -> Shape \cup {"free"}]
  <2>1. rc \in [Cell -> Nat] /\ rc[b] + 1 \in Nat
    BY CellIs DEF TypeOK
  <2>2. /\ rc' \in [Cell -> Nat] /\ rc'[b] = rc[b] + 1
        /\ \A x \in Cell : x # b => rc'[x] = rc[x]
    BY <1>1, <2>1
  <2>3. \A x \in Cell : rc'[x] # 0 <=> rc[x] # 0
    BY <1>2, <2>1, <2>2
  <2>. QED
    BY <1>1, <2>2, <2>3 DEF TypeOK
<1>5. Shapes'
  BY <1>1, <1>2, <1>3, <1>4 DEF Shapes, Walkable
<1>6. \A x \in Cell : buffered[x] /\ rc'[x] # 0 => color[x] = "purple"
  BY <1>2, <1>4 DEF Buffer
<1>7. <<a, i>> \in Edge /\ <<a, i>>[1] = a /\ <<a, i>>[2] = i
  BY EdgeIs
<1>8. ASSUME NEW x \in Cell
      PROVE  rc'[x] = held'[x] + Cardinality(Late(pending, x))
                + Cardinality({e \in Edge : rc'[e[1]] # 0 /\ slot'[e[1]][e[2]] = x})
  <2>. DEFINE l == Cardinality(Late(pending, x))
              E == EdgesOf(stack, slot, x)
              m == Cardinality(E)
              n == Cardinality({e \in Edge : rc'[e[1]] # 0 /\ slot'[e[1]][e[2]] = x})
  <2>1. {e \in Edge : rc'[e[1]] # 0 /\ slot'[e[1]][e[2]] = x}
           = IF x = b THEN E \cup {<<a, i>>} ELSE E
    <3>1. \A e \in Edge : rc'[e[1]] # 0 /\ slot'[e[1]][e[2]] = x
                             <=> \/ rc[e[1]] # 0 /\ slot[e[1]][e[2]] = x
                                 \/ e = <<a, i>> /\ x = b
      <4>1. SUFFICES ASSUME NEW e \in Edge
                     PROVE  rc'[e[1]] # 0 /\ slot'[e[1]][e[2]] = x
                             <=> \/ rc[e[1]] # 0 /\ slot[e[1]][e[2]] = x
                                 \/ e = <<a, i>> /\ x = b
        OBVIOUS
      <4>2. e[1] \in Cell /\ e[2] \in Slot /\ e = <<e[1], e[2]>> /\ x # none
        BY EdgeIs, CellAssumption
      <4>3. CASE e[1] = a /\ e[2] = i
        BY <1>1, <1>2, <1>3, <1>4, <4>2, <4>3
      <4>4. CASE ~(e[1] = a /\ e[2] = i)
        BY <1>3, <1>4, <1>7, <4>2, <4>4
      <4>. QED
        BY <4>3, <4>4
    <3>2. E = {e \in Edge : rc[e[1]] # 0 /\ slot[e[1]][e[2]] = x}
      BY <1>2
    <3>. HIDE DEF E
    <3>. QED
      BY <1>7, <3>1, <3>2
  <2>2. E \in SUBSET Edge /\ (x = b => <<a, i>> \notin E)
    BY <1>1, <1>7, CellAssumption DEF EdgesOf
  <2>3. rc[x] = held[x] + l + m /\ held[x] \in Nat
    BY <1>2, CellIs DEF Sums
  <2>4. l \in Nat
    BY LateNat DEF TypeOK
  <2>5. m \in Nat /\ n = m + (IF x = b THEN 1 ELSE 0)
    <3>. HIDE DEF E
    <3>1. CASE x = b
      BY <1>7, <2>1, <2>2, <3>1, EdgeMore, EdgesNat
    <3>2. CASE x # b
      <4>1. n = m
        BY <2>1, <3>2
      <4>2. m \in Nat
        BY <2>2, EdgesNat
      <4>. HIDE DEF m, n
      <4>. QED
        BY <3>2, <4>1, <4>2
    <3>. QED
      BY <3>1, <3>2
  <2>6. held' = held
    BY <1>1
  <2>. HIDE DEF l, m, n, E
  <2>7. rc'[x] = held'[x] + l + n
    BY <1>4, <2>3, <2>4, <2>5, <2>6
  <2>. QED
    BY <2>7 DEF l, n
<1>. QED
  BY <1>1, <1>3, <1>4, <1>5, <1>6, <1>8, RunningKeeps

\* A load: the reference in a held cell's slot is copied to a scope.
LEMMA LoadKeeps ==
  ASSUME TypeOK, CollectInv, NEW a \in Cell, NEW i \in Slot, Load(a, i)
  PROVE  TypeOK' /\ CollectInv'
<1>. USE DEF CollectInv
<1>. DEFINE b == slot[a][i]
<1>1. /\ stack = <<>> /\ held[a] > 0 /\ b # none /\ held[b] < HandleBound
      /\ held' = [held EXCEPT ![b] = @ + 1]
      /\ rc' = [rc EXCEPT ![b] = @ + 1]
      /\ UNCHANGED <<shape, slot, color, buffered, buffer, stack, processed, corpses, phase, pending>>
  BY DEF Load, Running
<1>2. /\ Sums /\ rc[a] # 0
      /\ ~At("scan") /\ ~At("sweep")
      /\ \A x : EdgesOf(stack, slot, x)
                   = {e \in Edge : rc[e[1]] # 0 /\ slot[e[1]][e[2]] = x}
      /\ \A x \in Cell : rc[x] = 0 => EdgesOf(stack, slot, x) = {}
  <2>1. stack = <<>> /\ held[a] > 0
    BY <1>1
  <2>. QED
    BY <2>1, RunningIs
<1>3. b \in Cell
  BY <1>1, CellIs
<1>4. rc[b] # 0
  <2>1. <<a, i>> \in EdgesOf(stack, slot, b)
    <3>1. <<a, i>> \in Edge /\ rc[<<a, i>>[1]] # 0 /\ slot[<<a, i>>[1]][<<a, i>>[2]] = b
      BY <1>2, EdgeIs
    <3>. QED
      BY <1>2, <3>1
  <2>. QED
    BY <1>2, <1>3, <2>1
<1>. HIDE DEF b
<1>5. /\ rc' \in [Cell -> Nat] /\ rc'[b] = rc[b] + 1
      /\ \A x \in Cell : x # b => rc'[x] = rc[x]
      /\ \A x \in Cell : rc'[x] # 0 <=> rc[x] # 0
  <2>1. rc \in [Cell -> Nat] /\ rc[b] + 1 \in Nat
    BY <1>3, CellIs DEF TypeOK
  <2>2. /\ rc' \in [Cell -> Nat] /\ rc'[b] = rc[b] + 1
        /\ \A x \in Cell : x # b => rc'[x] = rc[x]
    BY <1>1, <1>3, <2>1
  <2>3. \A x \in Cell : rc'[x] # 0 <=> rc[x] # 0
    BY <1>4, <2>1, <2>2
  <2>. QED
    BY <2>2, <2>3
<1>6. /\ held' \in [Cell -> 0..HandleBound] /\ held'[b] = held[b] + 1
      /\ \A x \in Cell : x # b => held'[x] = held[x]
  <2>1. held \in [Cell -> 0..HandleBound] /\ HandleBound \in Nat
    BY BoundAssumption DEF TypeOK
  <2>2. held[b] + 1 \in 0..HandleBound
    BY <1>1, <1>3, <2>1
  <2>. QED
    BY <1>1, <1>3, <2>1, <2>2
<1>7. Shapes'
  BY <1>1, <1>5 DEF Shapes, Walkable
<1>8. \A x \in Cell : buffered[x] /\ rc'[x] # 0 => color[x] = "purple"
  BY <1>2, <1>5 DEF Buffer
<1>9. ASSUME NEW x \in Cell
      PROVE  rc'[x] = held'[x] + Cardinality(Late(pending, x))
                + Cardinality({e \in Edge : rc'[e[1]] # 0 /\ slot'[e[1]][e[2]] = x})
  <2>. DEFINE l == Cardinality(Late(pending, x))
              m == Cardinality(EdgesOf(stack, slot, x))
  <2>1. {e \in Edge : rc'[e[1]] # 0 /\ slot'[e[1]][e[2]] = x} = EdgesOf(stack, slot, x)
    <3>1. \A e \in Edge : rc'[e[1]] # 0 /\ slot'[e[1]][e[2]] = x
                             <=> rc[e[1]] # 0 /\ slot[e[1]][e[2]] = x
      BY <1>1, <1>5, EdgeIs
    <3>. QED
      BY <1>2, <3>1
  <2>2. rc[x] = held[x] + l + m /\ held[x] \in Nat
    BY <1>2, CellIs DEF Sums
  <2>3. l \in Nat
    BY LateNat DEF TypeOK
  <2>4. m \in Nat
    BY EdgesNat DEF EdgesOf
  <2>. HIDE DEF l, m
  <2>5. rc'[x] = held'[x] + l + m
    BY <1>5, <1>6, <2>2, <2>3, <2>4
  <2>. QED
    BY <2>1, <2>5 DEF l, m
<1>10. slot' \in [Cell -> [Slot -> Cell \cup {none}]] /\ shape' \in [Cell -> Shape \cup {"free"}]
  BY <1>1 DEF TypeOK
<1>. QED
  BY <1>1, <1>5, <1>6, <1>7, <1>8, <1>9, <1>10, RunningKeeps

-----------------------------------------------------------------------------
(* The collector's phases.                                                 *)

\* The collect goes on to its next phase: its frame stays on top.
LEMMA ThenIs ==
  ASSUME TypeOK, Frames, stack # <<>>, Top.step \in Tracing,
         NEW step \in {"scan", "sweep", "free"}, Then(step)
  PROVE  /\ stack' \in Seq(Frame) /\ stack' # <<>>
         /\ DOMAIN stack' = DOMAIN stack /\ Len(stack') = Len(stack)
         /\ \A f \in DOMAIN stack : f # Len(stack) => stack'[f] = stack[f]
         /\ stack'[Len(stack)].step = step /\ stack'[Len(stack)].cell = none
         /\ \A x : At(x)' <=> x = step
         /\ \A x \in Phases : Active(x)' <=> x = step
         /\ InCollect /\ InCollect'
         /\ \A x \in Phases : Active(x) <=> Top.step = x
         /\ \A a \in Cell : \A i : HasFrame(stack', a, i) <=> HasFrame(stack, a, i)
         /\ \A f \in DOMAIN stack' : stack'[f].step = "drop" =>
               /\ f \in DOMAIN stack /\ stack'[f] = stack[f]
               /\ stack[f].step = "drop"
<1>. DEFINE x == [Top EXCEPT !.step = step]
<1>1. Top \in Frame /\ Top = stack[Len(stack)] /\ Len(stack) \in DOMAIN stack
  BY StackIs
<1>2. x \in Frame /\ x.step = step /\ x.cell = Top.cell /\ x.next = Top.next
  BY <1>1 DEF Frame
<1>3. stack' = Append(Below, x)
  BY DEF Then
<1>. HIDE DEF x
<1>4. /\ stack' \in Seq(Frame)
      /\ DOMAIN stack' = DOMAIN stack /\ Len(stack') = Len(stack)
      /\ stack'[Len(stack)] = x
      /\ \A f \in DOMAIN stack : f # Len(stack) => stack'[f] = stack[f]
  BY <1>2, <1>3, ReplaceIs
<1>5. stack' # <<>>
  BY <1>1, <1>4
<1>6. /\ Top.step \in Phases
      /\ Top.cell = none /\ InCollect
      /\ \A y \in Phases : Active(y) <=> Top.step = y
  <2>1. Top.step \in Phases
    BY DEF Tracing, Phases
  <2>. QED
    BY <2>1, TopPhase
<1>7. \A y : At(y)' <=> y = step
  BY <1>2, <1>4, <1>5 DEF At, Top
<1>8. \A f \in DOMAIN stack : f # Len(stack) => stack[f].step \notin Phases
  BY <1>1, <1>6 DEF Frames
<1>9. \A y \in Phases : Active(y)' <=> y = step
  BY <1>1, <1>2, <1>4, <1>8 DEF Active
<1>10. InCollect'
  BY <1>9 DEF InCollect, Phases
<1>11. \A a \in Cell : \A i : HasFrame(stack', a, i) <=> HasFrame(stack, a, i)
  <2>1. \A a \in Cell : x.cell # a /\ stack[Len(stack)].cell # a
    BY <1>1, <1>2, <1>6, CellAssumption
  <2>. QED
    BY <1>4, <2>1 DEF HasFrame
<1>12. \A f \in DOMAIN stack' : stack'[f].step = "drop" =>
               /\ f \in DOMAIN stack /\ stack'[f] = stack[f]
               /\ stack[f].step = "drop"
  BY <1>2, <1>4
<1>. QED
  BY <1>2, <1>4, <1>5, <1>6, <1>7, <1>9, <1>10, <1>11, <1>12

\* The drops under the collect are as they were.
LEMMA FramesThen ==
  ASSUME TypeOK, Frames, stack # <<>>, Top.step \in Tracing,
         NEW step \in {"scan", "sweep", "free"}, Then(step),
         \A f \in DOMAIN stack : stack[f].step = "drop" => GoodAfter(stack[f])
  PROVE  Frames'
<1>1. /\ DOMAIN stack' = DOMAIN stack /\ Len(stack') = Len(stack)
      /\ \A f \in DOMAIN stack : f # Len(stack) => stack'[f] = stack[f]
      /\ stack'[Len(stack)].step = step /\ stack'[Len(stack)].cell = none
      /\ \A f \in DOMAIN stack' : stack'[f].step = "drop" =>
            /\ f \in DOMAIN stack /\ stack'[f] = stack[f]
            /\ stack[f].step = "drop"
  BY ThenIs
<1>2. Top = stack[Len(stack)] /\ Len(stack) \in DOMAIN stack
  BY StackIs
<1>3. \A f \in DOMAIN stack : f # Len(stack) => stack[f].step \notin Phases
  BY <1>2 DEF Frames, Tracing, Phases
<1>4. \A f \in DOMAIN stack' :
         IF stack'[f].step = "drop"
         THEN /\ stack'[f].cell \in Cell
              /\ shape'[stack'[f].cell] \notin {"free", "leaf"}
              /\ rc'[stack'[f].cell] = 0
              /\ stack'[f].cell \notin corpses'
              /\ color'[stack'[f].cell] \notin Trying
         ELSE stack'[f].cell = none
  BY <1>1 DEF GoodAfter, Frames
<1>5. \A f, g \in DOMAIN stack' :
         stack'[f].step = "drop" /\ stack'[g].step = "drop"
            /\ stack'[f].cell = stack'[g].cell => f = g
  BY <1>1 DEF Frames
<1>6. \A f \in DOMAIN stack' : stack'[f].step \in Phases => f = Len(stack')
  BY <1>1, <1>3
<1>. QED
  BY <1>4, <1>5, <1>6 DEF Frames, Walkable, Phases, Tracing

\* The edges out of the cells of from into c.
Into(from, c) == {e \in Edge : /\ e[1] \in from
                               /\ e[2] \in Walked(e[1])
                               /\ slot[e[1]][e[2]] = c}

\* The children the walk of a is told of (for_each_child).
LEMMA ChildIs ==
  ASSUME TypeOK, NEW a \in Cell
  PROVE  /\ Children(a) \subseteq Cell
         /\ \A b : b \in Children(a) <=> /\ b \in Cell /\ Walkable(b)
                                         /\ \E i \in Walked(a) : slot[a][i] = b
         /\ Walked(a) \subseteq Slot
<1>1. Walked(a) \subseteq Slot
  BY DEF Walked, Slot
<1>2. \A i \in Walked(a) : slot[a][i] \in Cell \cup {none}
  BY <1>1, CellIs
<1>. QED
  BY <1>1, <1>2, CellAssumption DEF Children

\* What a walk visits is the least closed set with its roots.
LEMMA ReachedIs ==
  ASSUME TypeOK, NEW roots \in SUBSET Cell
  PROVE  /\ Reached(roots) \in SUBSET Cell
         /\ roots \subseteq Reached(roots)
         /\ \A a \in Reached(roots) : Children(a) \subseteq Reached(roots)
         /\ \A S \in SUBSET Cell :
               roots \subseteq S /\ (\A a \in S : Children(a) \subseteq S)
                  => Reached(roots) \subseteq S
<1>1. Reached(roots) \in SUBSET Cell
  BY DEF Reached
<1>2. roots \subseteq Reached(roots)
  BY DEF Reached
<1>3. ASSUME NEW a \in Reached(roots), NEW b \in Children(a)
      PROVE  b \in Reached(roots)
  <2>1. b \in Cell
    BY <1>1, ChildIs
  <2>2. ASSUME NEW S \in SUBSET Cell,
               roots \subseteq S, \A x \in S : Children(x) \subseteq S
        PROVE  b \in S
    BY <2>2 DEF Reached
  <2>. QED
    BY <2>1, <2>2 DEF Reached
<1>4. \A S \in SUBSET Cell :
               roots \subseteq S /\ (\A a \in S : Children(a) \subseteq S)
                  => Reached(roots) \subseteq S
  BY DEF Reached
<1>. QED
  BY <1>1, <1>2, <1>3, <1>4

\* No walked edge out of a visited cell enters a walkable one that is not.
LEMMA IntoIs ==
  ASSUME TypeOK, NEW from \in SUBSET Cell, NEW c \in Cell
  PROVE  /\ Into(from, c) \in SUBSET Edge
         /\ Cardinality(Into(from, c)) \in Nat
         /\ EdgesInto(from, c) = Cardinality(Into(from, c))
         /\ Walkable(c) /\ c \notin from /\ (\A a \in from : Children(a) \subseteq from)
               => Into(from, c) = {}
<1>1. Into(from, c) \in SUBSET Edge
  BY DEF Into
<1>2. Cardinality(Into(from, c)) \in Nat
  BY <1>1, EdgesNat
<1>3. EdgesInto(from, c) = Cardinality(Into(from, c))
  BY EdgesIntoIs DEF Into
<1>4. Walkable(c) /\ c \notin from /\ (\A a \in from : Children(a) \subseteq from)
               => Into(from, c) = {}
  BY ChildIs DEF Into
<1>. QED
  BY <1>1, <1>2, <1>3, <1>4

\* The cells the root walk frees, those it starts from and those it visits.
Parked == {buffer[i] : i \in Dead}
Roots == {c \in Range(buffer) \ {none} : rc[c] # 0 /\ color[c] = "purple"}
Gray == Reached(Roots)

\* The state the mark begins in.
LEMMA MarkFrom ==
  ASSUME TypeOK, CollectInv, At("mark")
  PROVE  /\ stack # <<>> /\ Top.step = "mark" /\ Top.step \in Tracing
         /\ ~At("scan") /\ ~At("sweep") /\ ~Active("free") /\ corpses = {}
         /\ Kept = {i \in DOMAIN buffer : buffer[i] # none}
         /\ \A c \in Cell : color[c] \in {"black", "purple"} /\ color[c] \notin Trying
         /\ Sums
         /\ \A e \in Edge : Owned(stack, e) <=> rc[e[1]] # 0 \/ HasFrame(stack, e[1], e[2])
<1>. USE DEF CollectInv
<1>1. stack # <<>> /\ Top.step = "mark" /\ Top.step \in Tracing
  BY DEF At, Tracing
<1>2. ~At("scan") /\ ~At("sweep")
  BY <1>1 DEF At
<1>3. ~Active("free")
  BY <1>1, TopPhase DEF Phases
<1>4. corpses = {}
  BY <1>3 DEF Corpses
<1>5. Kept = {i \in DOMAIN buffer : buffer[i] # none}
  BY <1>3 DEF Kept
<1>6. /\ \A c \in Cell : color[c] \in {"black", "purple"} /\ color[c] \notin Trying
      /\ Sums
  BY <1>2, NoTrial, CountedIs
<1>7. \A e \in Edge : Owned(stack, e) <=> rc[e[1]] # 0 \/ HasFrame(stack, e[1], e[2])
  BY <1>4, <1>6, EdgeIs DEF Owned, Whole
<1>. QED
  BY <1>1, <1>2, <1>3, <1>4, <1>5, <1>6, <1>7

\* What the root walk frees and what it visits.
LEMMA MarkSets ==
  ASSUME TypeOK, CollectInv, At("mark")
  PROVE  /\ Parked \in SUBSET Cell /\ Gray \in SUBSET Cell
         /\ \A c \in Parked : /\ rc[c] = 0 /\ color[c] = "black" /\ buffered[c]
                              /\ Walkable(c) /\ c \notin Gray
                              /\ \A j : ~HasFrame(stack, c, j)
         /\ \A i \in Kept : buffer[i] \in Parked <=> i \in Dead
         /\ \A a \in Gray : Children(a) \subseteq Gray
         /\ \A c \in Gray : rc[c] # 0 /\ Walkable(c)
         /\ \A c \in Cell : /\ Into(Gray, c) \in SUBSET EdgesOf(stack, slot, c)
                            /\ Cardinality(Into(Gray, c)) \in Nat
                            /\ Cardinality(Into(Gray, c)) <= rc[c]
                            /\ Walkable(c) /\ c \notin Gray => Into(Gray, c) = {}
<1>. USE DEF CollectInv
<1>1. /\ ~At("scan") /\ ~At("sweep")
      /\ Kept = {i \in DOMAIN buffer : buffer[i] # none}
      /\ Sums
      /\ \A e \in Edge : Owned(stack, e) <=> rc[e[1]] # 0 \/ HasFrame(stack, e[1], e[2])
  BY MarkFrom
<1>2. /\ \A i \in Kept : i \in DOMAIN buffer /\ buffer[i] \in Cell
      /\ \A i \in Kept : buffered[buffer[i]]
      /\ \A i, j \in Kept : buffer[i] = buffer[j] => i = j
  BY KeptIs DEF Buffer
<1>3. \A i : i \in Dead <=> i \in Kept /\ rc[buffer[i]] = 0 /\ color[buffer[i]] = "black"
  BY <1>1 DEF Dead
<1>4. /\ Parked \in SUBSET Cell
      /\ \A c \in Parked : rc[c] = 0 /\ color[c] = "black" /\ buffered[c]
  BY <1>2, <1>3 DEF Parked
<1>5. \A c \in Parked : Walkable(c)
  BY <1>4 DEF Shapes
<1>6. \A c \in Parked : \A j : ~HasFrame(stack, c, j)
  BY <1>4, CellAssumption DEF HasFrame, Buffer, Frames
<1>7. \A i \in Kept : buffer[i] \in Parked <=> i \in Dead
  BY <1>2, <1>3 DEF Parked
<1>8. Roots \in SUBSET Cell
  <2>1. buffer \in Seq(Cell \cup {none})
    BY DEF TypeOK
  <2>2. Range(buffer) \subseteq Cell \cup {none}
    BY <2>1 DEF Range
  <2>. QED
    BY <2>2 DEF Roots
<1>9. /\ Gray \in SUBSET Cell
      /\ \A a \in Gray : Children(a) \subseteq Gray
      /\ \A S \in SUBSET Cell :
               Roots \subseteq S /\ (\A a \in S : Children(a) \subseteq S)
                  => Gray \subseteq S
  BY <1>8, ReachedIs DEF Gray
<1>10. ASSUME NEW c \in Cell, NEW S \in SUBSET EdgesOf(stack, slot, c)
       PROVE  Cardinality(S) \in Nat /\ Cardinality(S) <= rc[c]
  <2>. DEFINE l == Cardinality(Late(pending, c))
              E == EdgesOf(stack, slot, c)
              m == Cardinality(E)
              n == Cardinality(S)
  <2>1. rc[c] = held[c] + l + m /\ held[c] \in Nat
    BY <1>1, CellIs DEF Sums
  <2>2. l \in Nat
    BY LateNat DEF TypeOK
  <2>3. m \in Nat /\ n \in Nat /\ n <= m
    <3>1. E \in SUBSET Edge
      BY DEF EdgesOf
    <3>. HIDE DEF E
    <3>2. S \in SUBSET E
      BY DEF E
    <3>. QED
      BY <3>1, <3>2, EdgesNat
  <2>. HIDE DEF l, m, n, E
  <2>4. n \in Nat /\ n <= rc[c]
    BY <2>1, <2>2, <2>3
  <2>. QED
    BY <2>4 DEF n
<1>11. \A c \in Gray : rc[c] # 0 /\ Walkable(c)
  <2>. DEFINE S == {c \in Cell : rc[c] # 0 /\ Walkable(c)}
  <2>1. Roots \subseteq S
    BY <1>8 DEF Shapes, Roots
  <2>2. ASSUME NEW a \in S, NEW b \in Children(a)
        PROVE  b \in S
    <3>1. b \in Cell /\ Walkable(b) /\ a \in Cell /\ rc[a] # 0
      BY <2>2, ChildIs
    <3>2. PICK i \in Slot : slot[a][i] = b
      BY <2>2, ChildIs
    <3>3. <<a, i>> \in EdgesOf(stack, slot, b)
      <4>1. <<a, i>> \in Edge /\ <<a, i>>[1] = a /\ <<a, i>>[2] = i
        BY <3>1, EdgeIs
      <4>. QED
        BY <1>1, <3>1, <3>2, <4>1 DEF EdgesOf
    <3>4. Cardinality(EdgesOf(stack, slot, b)) <= rc[b]
      BY <1>10, <3>1
    <3>5. Cardinality(EdgesOf(stack, slot, b)) \in Nat \ {0}
      <4>1. EdgesOf(stack, slot, b) \in SUBSET Edge
        BY DEF EdgesOf
      <4>. QED
        BY <3>3, <4>1, EdgesNat
    <3>. QED
      BY <3>1, <3>4, <3>5
  <2>. HIDE DEF S
  <2>3. S \in SUBSET Cell
    BY DEF S
  <2>4. Gray \subseteq S
    BY <1>9, <2>1, <2>2, <2>3
  <2>. QED
    BY <2>4 DEF S
<1>12. \A c \in Cell : Into(Gray, c) \in SUBSET EdgesOf(stack, slot, c)
  BY <1>1, <1>11 DEF Into, EdgesOf
<1>13. \A c \in Cell : /\ Cardinality(Into(Gray, c)) \in Nat
                       /\ Cardinality(Into(Gray, c)) <= rc[c]
  BY <1>10, <1>12
<1>14. \A c \in Cell : Walkable(c) /\ c \notin Gray => Into(Gray, c) = {}
  BY <1>9, IntoIs
<1>15. \A c \in Parked : c \notin Gray
  BY <1>4, <1>11
<1>. QED
  BY <1>4, <1>5, <1>6, <1>7, <1>9, <1>11, <1>12, <1>13, <1>14, <1>15

\* The mark, cell by cell.
LEMMA MarkIs ==
  ASSUME TypeOK, CollectInv, Mark
  PROVE  /\ At("mark") /\ Then("scan")
         /\ UNCHANGED <<held, corpses, phase, pending>> /\ processed' = Len(buffer)
         /\ DOMAIN buffer' = DOMAIN buffer /\ Len(buffer') = Len(buffer)
         /\ buffer' \in Seq(Cell \cup {none})
         /\ \A i \in DOMAIN buffer : buffer'[i] = IF i \in Dead THEN none ELSE buffer[i]
         /\ \A c \in Cell :
               /\ shape'[c] = IF c \in Parked THEN "free" ELSE shape[c]
               /\ slot'[c] = IF c \in Parked THEN NoSlots ELSE slot[c]
               /\ buffered'[c] = (buffered[c] /\ c \notin Parked)
               /\ color'[c] = IF c \in Gray THEN "gray" ELSE color[c]
               /\ rc'[c] = IF Walkable(c) THEN rc[c] - Cardinality(Into(Gray, c)) ELSE rc[c]
         /\ shape' \in [Cell -> Shape \cup {"free"}]
         /\ slot' \in [Cell -> [Slot -> Cell \cup {none}]]
         /\ rc' \in [Cell -> Nat]
         /\ buffered' \in [Cell -> BOOLEAN]
         /\ color' \in [Cell -> {"black", "purple", "gray"}]
<1>. USE DEF CollectInv
<1>1. /\ At("mark") /\ Then("scan")
      /\ UNCHANGED <<held, corpses, phase, pending>> /\ processed' = Len(buffer)
  BY DEF Mark
<1>2. /\ buffer' = [i \in DOMAIN buffer |-> IF i \in Dead THEN none ELSE buffer[i]]
      /\ Free(Parked)
      /\ buffered' = [c \in Cell |-> buffered[c] /\ c \notin Parked]
      /\ color' = [c \in Cell |-> IF c \in Gray THEN "gray" ELSE color[c]]
      /\ rc' = [c \in Cell |-> IF Walkable(c) THEN rc[c] - EdgesInto(Gray, c)
                               ELSE rc[c]]
  BY DEF Mark, Parked, Gray, Roots
<1>3. /\ Parked \in SUBSET Cell /\ Gray \in SUBSET Cell
      /\ \A c \in Cell : /\ Cardinality(Into(Gray, c)) \in Nat
                         /\ Cardinality(Into(Gray, c)) <= rc[c]
                         /\ EdgesInto(Gray, c) = Cardinality(Into(Gray, c))
  BY <1>1, MarkSets, IntoIs
<1>4. /\ buffer \in Seq(Cell \cup {none}) /\ Len(buffer) \in Nat
      /\ DOMAIN buffer = 1 .. Len(buffer)
      /\ \A i \in DOMAIN buffer : buffer[i] \in Cell \cup {none}
  BY DEF TypeOK
<1>5. /\ DOMAIN buffer' = DOMAIN buffer
      /\ \A i \in DOMAIN buffer : buffer'[i] = IF i \in Dead THEN none ELSE buffer[i]
  BY <1>2
<1>6. buffer' \in Seq(Cell \cup {none}) /\ Len(buffer') = Len(buffer)
  <2>1. \A i \in 1 .. Len(buffer) :
           (IF i \in Dead THEN none ELSE buffer[i]) \in Cell \cup {none}
    BY <1>4
  <2>2. buffer' = [i \in 1 .. Len(buffer) |-> IF i \in Dead THEN none ELSE buffer[i]]
    BY <1>2, <1>4
  <2>3. buffer' \in [1 .. Len(buffer) -> Cell \cup {none}]
    BY <2>1, <2>2
  <2>. QED
    BY <1>4, <2>3
<1>7. \A c \in Cell :
               /\ shape'[c] = IF c \in Parked THEN "free" ELSE shape[c]
               /\ slot'[c] = IF c \in Parked THEN NoSlots ELSE slot[c]
  BY <1>2 DEF Free
<1>8. \A c \in Cell :
               /\ buffered'[c] = (buffered[c] /\ c \notin Parked)
               /\ color'[c] = IF c \in Gray THEN "gray" ELSE color[c]
               /\ rc'[c] = IF Walkable(c) THEN rc[c] - Cardinality(Into(Gray, c)) ELSE rc[c]
  BY <1>2, <1>3
<1>9. shape' \in [Cell -> Shape \cup {"free"}]
  BY <1>2, CellIs DEF Free
<1>10. slot' \in [Cell -> [Slot -> Cell \cup {none}]]
  BY <1>2, CellIs DEF Free, NoSlots
<1>11. rc' \in [Cell -> Nat]
  <2>1. \A c \in Cell : rc'[c] \in Nat
    BY <1>3, <1>8, CellIs
  <2>. QED
    BY <1>2, <2>1
<1>12. buffered' \in [Cell -> BOOLEAN]
  BY <1>2
<1>13. color' \in [Cell -> {"black", "purple", "gray"}]
  <2>1. \A c \in Cell : color'[c] \in {"black", "purple", "gray"}
    BY <1>1, <1>8, MarkFrom
  <2>. QED
    BY <1>2, <2>1
<1>. QED
  BY <1>1, <1>3, <1>5, <1>6, <1>7, <1>8, <1>9, <1>10, <1>11, <1>12, <1>13

\* The mark takes off each cell's count the edges it visits.
LEMMA MarkCounts ==
  ASSUME TypeOK, CollectInv, Mark
  PROVE  Counted'
<1>. USE DEF CollectInv
<1>1. /\ At("mark") /\ Then("scan")
      /\ UNCHANGED <<held, corpses, phase, pending>>
      /\ \A c \in Cell :
            /\ shape'[c] = IF c \in Parked THEN "free" ELSE shape[c]
            /\ slot'[c] = IF c \in Parked THEN NoSlots ELSE slot[c]
            /\ color'[c] = IF c \in Gray THEN "gray" ELSE color[c]
            /\ rc'[c] = IF Walkable(c) THEN rc[c] - Cardinality(Into(Gray, c)) ELSE rc[c]
  BY MarkIs
<1>2. /\ Parked \in SUBSET Cell /\ Gray \in SUBSET Cell
      /\ \A c \in Parked : /\ rc[c] = 0
                           /\ Walkable(c) /\ c \notin Gray
                           /\ \A j : ~HasFrame(stack, c, j)
      /\ \A c \in Gray : rc[c] # 0 /\ Walkable(c)
      /\ \A c \in Cell : /\ Cardinality(Into(Gray, c)) \in Nat
                         /\ Cardinality(Into(Gray, c)) <= rc[c]
                         /\ Walkable(c) /\ c \notin Gray => Into(Gray, c) = {}
  BY <1>1, MarkSets
<1>3. /\ corpses = {} /\ stack # <<>> /\ Top.step \in Tracing /\ Sums
      /\ \A c \in Cell : color[c] \notin Trying
      /\ \A e \in Edge : Owned(stack, e) <=> rc[e[1]] # 0 \/ HasFrame(stack, e[1], e[2])
  BY <1>1, MarkFrom
<1>4. \A a \in Cell : \A i : HasFrame(stack', a, i) <=> HasFrame(stack, a, i)
  BY <1>1, <1>3, ThenIs
<1>0. Cardinality({}) = 0
  BY FS_EmptySet
<1>5. ASSUME NEW c \in Cell, rc[c] = 0 \/ c \notin Gray
      PROVE  rc'[c] = rc[c]
  <2>. DEFINE n == Cardinality(Into(Gray, c))
  <2>1. /\ rc[c] \in Nat /\ n \in Nat /\ n <= rc[c]
        /\ Walkable(c) /\ c \notin Gray => n = 0
        /\ rc'[c] = IF Walkable(c) THEN rc[c] - n ELSE rc[c]
    BY <1>0, <1>1, <1>2, CellIs
  <2>. HIDE DEF n
  <2>. QED
    BY <1>5, <2>1
<1>6. \A c \in Cell : Whole(c)' <=> rc[c] # 0
  BY <1>1, <1>2, <1>3, <1>5 DEF Whole, Trying
<1>7. ASSUME NEW c \in Cell
      PROVE  EdgesOf(stack, slot, c)' = EdgesOf(stack, slot, c)
  <2>1. \A j \in Slot : NoSlots[j] # c
    BY CellAssumption DEF NoSlots
  <2>2. \A e \in Edge : Owned(stack, e)' <=> Owned(stack, e)
    BY <1>3, <1>4, <1>6, EdgeIs DEF Owned
  <2>3. \A e \in Edge : Owned(stack, e) => slot'[e[1]] = slot[e[1]]
    BY <1>1, <1>2, <1>3, EdgeIs
  <2>4. \A e \in Edge : Owned(stack, e)' /\ slot'[e[1]][e[2]] = c
                           <=> Owned(stack, e) /\ slot[e[1]][e[2]] = c
    BY <2>2, <2>3
  <2>. QED
    BY <2>4 DEF EdgesOf
<1>8. ASSUME NEW c \in Cell
      PROVE  PaidFor(c)' = IF Walkable(c) /\ c \notin Parked THEN Into(Gray, c) ELSE {}
  <2>1. \A a \in Cell : color'[a] \in Trying <=> a \in Gray
    BY <1>1, <1>3 DEF Trying
  <2>2. \A a \in Gray : slot'[a] = slot[a] /\ Walked(a)' = Walked(a)
    BY <1>1, <1>2 DEF Walked
  <2>3. Walkable(c)' <=> Walkable(c) /\ c \notin Parked
    BY <1>1 DEF Walkable
  <2>. QED
    BY <2>1, <2>2, <2>3, EdgeIs DEF PaidFor, Into
<1>9. ASSUME NEW c \in Cell
      PROVE  rc'[c] + Cardinality(PaidFor(c)') = rc[c]
  <2>1. CASE Walkable(c) /\ c \notin Parked
    BY <1>1, <1>2, <1>8, <2>1, CellIs
  <2>2. CASE ~(Walkable(c) /\ c \notin Parked)
    <3>1. rc'[c] = rc[c]
      BY <1>1, <1>2, <1>5, <2>2
    <3>2. Cardinality(PaidFor(c)') = 0
      BY <1>0, <1>8, <2>2
    <3>3. rc[c] \in Nat
      BY CellIs
    <3>. HIDE DEF PaidFor
    <3>. QED
      BY <3>1, <3>2, <3>3
  <2>. QED
    BY <2>1, <2>2
<1>10. ASSUME NEW c \in Cell
       PROVE  rc'[c] + Cardinality(PaidFor(c)')
                = held'[c] + Cardinality(Late(pending, c)')
                     + Cardinality(EdgesOf(stack, slot, c)')
  <2>1. Late(pending, c)' = Late(pending, c) /\ held' = held
    BY <1>1 DEF Late
  <2>. QED
    BY <1>3, <1>7, <1>9, <2>1 DEF Sums
<1>. QED
  BY <1>10 DEF Counted

\* The mark leaves the drops under it alone, and the buffer's dead go.
LEMMA MarkPlaces ==
  ASSUME TypeOK, CollectInv, Mark
  PROVE  TypeOK' /\ Shapes' /\ Frames' /\ Corpses' /\ Trial'
<1>. USE DEF CollectInv
<1>1. /\ At("mark") /\ Then("scan")
      /\ UNCHANGED <<held, corpses, phase, pending>> /\ processed' = Len(buffer)
      /\ Len(buffer') = Len(buffer)
      /\ buffer' \in Seq(Cell \cup {none})
      /\ \A c \in Cell :
            /\ shape'[c] = IF c \in Parked THEN "free" ELSE shape[c]
            /\ slot'[c] = IF c \in Parked THEN NoSlots ELSE slot[c]
            /\ buffered'[c] = (buffered[c] /\ c \notin Parked)
            /\ color'[c] = IF c \in Gray THEN "gray" ELSE color[c]
            /\ rc'[c] = IF Walkable(c) THEN rc[c] - Cardinality(Into(Gray, c)) ELSE rc[c]
      /\ shape' \in [Cell -> Shape \cup {"free"}]
      /\ slot' \in [Cell -> [Slot -> Cell \cup {none}]]
      /\ rc' \in [Cell -> Nat]
      /\ buffered' \in [Cell -> BOOLEAN]
      /\ color' \in [Cell -> {"black", "purple", "gray"}]
  BY MarkIs
<1>2. /\ Parked \in SUBSET Cell /\ Gray \in SUBSET Cell
      /\ \A c \in Parked : /\ rc[c] = 0 /\ color[c] = "black" /\ buffered[c]
                           /\ Walkable(c) /\ c \notin Gray
                           /\ \A j : ~HasFrame(stack, c, j)
      /\ \A a \in Gray : Children(a) \subseteq Gray
      /\ \A c \in Gray : rc[c] # 0 /\ Walkable(c)
      /\ \A c \in Cell : /\ Cardinality(Into(Gray, c)) \in Nat
                         /\ Cardinality(Into(Gray, c)) <= rc[c]
  BY <1>1, MarkSets
<1>3. /\ corpses = {} /\ stack # <<>> /\ Top.step \in Tracing
      /\ \A c \in Cell : color[c] \in {"black", "purple"} /\ color[c] \notin Trying
  BY <1>1, MarkFrom
<1>4. /\ stack' \in Seq(Frame) /\ \A x : At(x)' <=> x = "scan"
  BY <1>1, <1>3, ThenIs
<1>5. \A c \in Cell : rc[c] = 0 => rc'[c] = 0
  BY <1>1, <1>2, CellIs
<1>6. TypeOK'
  <2>1. At("scan")' /\ ~At("sweep")'
    BY <1>4
  <2>2. color' \in [Cell -> {"black", "purple"}
                        \cup (IF At("scan")' THEN {"gray"} ELSE {})
                        \cup (IF At("sweep")' THEN {"white"} ELSE {})]
    <3>1. {"black", "purple", "gray"} = {"black", "purple"}
                        \cup (IF At("scan")' THEN {"gray"} ELSE {})
                        \cup (IF At("sweep")' THEN {"white"} ELSE {})
      BY <2>1
    <3>. QED
      BY <1>1, <3>1
  <2>3. processed' \in 0 .. Len(buffer')
    BY <1>1 DEF TypeOK
  <2>4. stack' \in Seq([step : {"drop", "loop", "mark", "scan", "sweep", "free"},
                      cell : Cell \cup {none}, next : 1..3])
    BY <1>4 DEF Frame
  <2>. QED
    BY <1>1, <2>2, <2>3, <2>4 DEF TypeOK
<1>7. Shapes'
  BY <1>1, <1>2, <1>5 DEF Shapes, Walkable
<1>8. Frames'
  <2>1. \A f \in DOMAIN stack : stack[f].step = "drop" =>
           stack[f].cell \notin Parked /\ stack[f].cell \notin Gray
    BY <1>2 DEF Frames, Buffer
  <2>2. \A f \in DOMAIN stack : stack[f].step = "drop" => GoodAfter(stack[f])
    BY <1>1, <1>3, <1>5, <2>1 DEF GoodAfter, Frames, Walkable
  <2>. QED
    BY <1>1, <1>3, <2>2, FramesThen
<1>9. Corpses'
  BY <1>1, <1>3 DEF Corpses
<1>10. Trial'
  <2>1. \A c \in Cell : color'[c] # "white"
    BY <1>1, <1>3
  <2>2. ASSUME NEW c \in Cell, color'[c] = "gray", NEW b \in Children(c)'
        PROVE  color'[b] = "gray"
    <3>1. c \in Gray
      BY <1>1, <1>3, <2>2
    <3>2. slot'[c] = slot[c] /\ Walked(c)' = Walked(c)
      BY <1>1, <1>2, <3>1 DEF Walked
    <3>3. \A x \in Cell : Walkable(x)' => Walkable(x)
      BY <1>1 DEF Walkable
    <3>4. b \in Children(c)
      <4>1. PICK i \in Walked(c) : b = slot[c][i] /\ b # none /\ Walkable(b)'
        BY <2>2, <3>2 DEF Children
      <4>2. b \in Cell
        BY <4>1, CellIs, ChildIs
      <4>. QED
        BY <3>3, <4>1, <4>2, ChildIs
    <3>. QED
      BY <1>1, <1>2, <3>1, <3>4
  <2>. QED
    BY <2>1, <2>2 DEF Trial
<1>. QED
  BY <1>6, <1>7, <1>8, <1>9, <1>10

\* The mark keeps the invariant: the dead leave the buffer with their entries,
\* and no drop under the collect is at a cell that is freed or on trial.
LEMMA MarkKeeps ==
  ASSUME TypeOK, CollectInv, Mark
  PROVE  TypeOK' /\ CollectInv'
<1>. USE DEF CollectInv
<1>1. /\ At("mark") /\ Then("scan") /\ processed' = Len(buffer)
      /\ DOMAIN buffer' = DOMAIN buffer /\ Len(buffer') = Len(buffer)
      /\ \A i \in DOMAIN buffer : buffer'[i] = IF i \in Dead THEN none ELSE buffer[i]
      /\ \A c \in Cell :
            /\ buffered'[c] = (buffered[c] /\ c \notin Parked)
            /\ color'[c] = IF c \in Gray THEN "gray" ELSE color[c]
  BY MarkIs
<1>2. /\ \A i \in Kept : buffer[i] \in Parked <=> i \in Dead
      /\ \A c \in Gray : rc[c] # 0
  BY <1>1, MarkSets
<1>3. /\ stack # <<>> /\ Top.step \in Tracing
      /\ Kept = {i \in DOMAIN buffer : buffer[i] # none}
  BY <1>1, MarkFrom
<1>4. /\ \A x : At(x)' <=> x = "scan"
      /\ ~Active("free")' /\ InCollect'
      /\ \A f \in DOMAIN stack' : stack'[f].step = "drop" =>
               /\ f \in DOMAIN stack /\ stack'[f] = stack[f]
               /\ stack[f].step = "drop"
  BY <1>1, <1>3, ThenIs DEF Phases
<1>5. Kept' = {i \in DOMAIN buffer' : buffer'[i] # none}
  BY <1>4 DEF Kept
<1>6. \A i : i \in Kept' <=> i \in Kept /\ i \notin Dead
  BY <1>1, <1>3, <1>5
<1>7. \A i \in Kept' : buffer'[i] = buffer[i] /\ i \in Kept /\ buffer[i] \in Cell
  BY <1>1, <1>6, <1>5, KeptIs
<1>8. Buffer'
  <2>1. \A i \in Kept' : buffered'[buffer'[i]]
    BY <1>1, <1>2, <1>6, <1>7 DEF Buffer
  <2>2. \A i, j \in Kept' : buffer'[i] = buffer'[j] => i = j
    BY <1>7 DEF Buffer
  <2>3. ASSUME NEW c \in Cell, buffered'[c]
        PROVE  \E i \in Kept' : buffer'[i] = c
    <3>1. PICK i \in Kept : buffer[i] = c
      BY <1>1, <2>3 DEF Buffer
    <3>2. i \in Kept'
      BY <1>1, <1>2, <1>6, <2>3, <3>1
    <3>. QED
      BY <1>7, <3>1, <3>2
  <2>4. ASSUME NEW f \in DOMAIN stack', stack'[f].step = "drop", buffered'[stack'[f].cell]
        PROVE  color'[stack'[f].cell] = "purple"
    <3>. DEFINE a == stack[f].cell
    <3>1. f \in DOMAIN stack /\ stack'[f].cell = a /\ stack[f].step = "drop"
      BY <1>4, <2>4
    <3>2. a \in Cell /\ rc[a] = 0
      BY <3>1 DEF Frames
    <3>3. buffered[a] => color[a] = "purple"
      BY <3>1 DEF Buffer
    <3>. HIDE DEF a
    <3>. QED
      BY <1>1, <1>2, <2>4, <3>1, <3>2, <3>3
  <2>. QED
    BY <1>1, <1>4, <2>1, <2>2, <2>3, <2>4 DEF Buffer
<1>. QED
  BY <1>8, MarkPlaces, MarkCounts

\* The cells on trial, and those of them that are live.
OnTrial == {c \in Cell : color[c] = "gray"}
Alive == Live(OnTrial)

\* The scan's sets: what it finds dead has no count left, what it finds live
\* has one of its own or an edge from another.
LEMMA ScanSets ==
  ASSUME TypeOK, CollectInv, At("scan")
  PROVE  /\ stack # <<>> /\ Top.step = "scan" /\ Top.step \in Tracing
         /\ ~At("sweep") /\ ~Active("free") /\ corpses = {}
         /\ OnTrial \in SUBSET Cell /\ Alive \in SUBSET OnTrial
         /\ \A c \in OnTrial : Walkable(c)
         /\ \A c \in Alive : rc[c] # 0 \/ Into(Alive, c) # {}
         /\ \A c \in OnTrial : c \notin Alive => rc[c] = 0
         /\ \A c \in Cell : Walkable(c) /\ c \notin Alive => Into(Alive, c) = {}
         /\ \A c \in Cell : color[c] \in {"black", "purple", "gray"}
         /\ \A c \in Cell : color[c] \in Trying <=> c \in OnTrial
<1>. USE DEF CollectInv
<1>1. stack # <<>> /\ Top.step = "scan" /\ Top.step \in Tracing /\ ~At("sweep")
  BY DEF At, Tracing
<1>2. ~Active("free")
  BY <1>1, TopPhase DEF Phases
<1>3. corpses = {}
  BY <1>2 DEF Corpses
<1>4. /\ \A c \in Cell : color[c] \in {"black", "purple", "gray"}
      /\ \A c \in Cell : color[c] \in Trying <=> c \in OnTrial
  BY <1>1, CellIs DEF Trying, OnTrial
<1>5. OnTrial \in SUBSET Cell
  BY DEF OnTrial
<1>6. \A c \in OnTrial : Walkable(c)
  BY DEF Shapes, OnTrial
<1>7. \A a \in OnTrial : Children(a) \subseteq OnTrial
  BY ChildIs DEF Trial, OnTrial
<1>. DEFINE R == {c \in OnTrial : rc[c] # 0}
<1>8. R \in SUBSET Cell /\ R \subseteq OnTrial
  BY <1>5
<1>9. Alive = Reached(R)
  BY DEF Alive, Live
<1>10. \A c \in OnTrial : c \notin R => rc[c] = 0
  OBVIOUS
<1>11. \A c \in R : rc[c] # 0
  OBVIOUS
<1>. HIDE DEF R
<1>12. /\ Alive \in SUBSET Cell /\ R \subseteq Alive
       /\ \A a \in Alive : Children(a) \subseteq Alive
       /\ \A S \in SUBSET Cell :
               R \subseteq S /\ (\A a \in S : Children(a) \subseteq S)
                  => Alive \subseteq S
  BY <1>8, <1>9, ReachedIs
<1>13. Alive \in SUBSET OnTrial
  BY <1>5, <1>7, <1>8, <1>12
<1>14. \A c \in Cell : Walkable(c) /\ c \notin Alive => Into(Alive, c) = {}
  BY <1>12, IntoIs
<1>15. \A c \in Alive : rc[c] # 0 \/ Into(Alive, c) # {}
  <2>. DEFINE S == {c \in Alive : rc[c] # 0 \/ Into(Alive, c) # {}}
  <2>1. R \subseteq S
    BY <1>11, <1>12
  <2>2. ASSUME NEW a \in S, NEW b \in Children(a)
        PROVE  b \in S
    <3>1. a \in Cell /\ a \in Alive /\ b \in Alive
      BY <1>12, <2>2
    <3>2. PICK i \in Walked(a) : slot[a][i] = b
      BY <3>1, <2>2, ChildIs
    <3>3. <<a, i>> \in Edge /\ <<a, i>>[1] = a /\ <<a, i>>[2] = i
      BY <3>1, EdgeIs, ChildIs
    <3>4. <<a, i>> \in Into(Alive, b)
      BY <3>1, <3>2, <3>3 DEF Into
    <3>. QED
      BY <3>1, <3>4
  <2>. HIDE DEF S
  <2>3. S \in SUBSET Cell
    BY <1>12 DEF S
  <2>4. Alive \subseteq S
    BY <1>12, <2>1, <2>2, <2>3
  <2>. QED
    BY <2>4 DEF S
<1>. QED
  BY <1>1, <1>2, <1>3, <1>4, <1>5, <1>6, <1>10, <1>12, <1>13, <1>14, <1>15

\* The scan, cell by cell.
LEMMA ScanIs ==
  ASSUME TypeOK, CollectInv, Scan
  PROVE  /\ At("scan") /\ Then("sweep")
         /\ UNCHANGED <<held, shape, slot, buffered, buffer, processed, corpses, phase, pending>>
         /\ \A c \in Cell :
               /\ color'[c] = IF c \in Alive THEN "black"
                              ELSE IF c \in OnTrial THEN "white" ELSE color[c]
               /\ c \in Alive => rc'[c] # 0
               /\ c \notin Alive => rc'[c] = rc[c]
               /\ Walkable(c) => rc'[c] = rc[c] + Cardinality(Into(Alive, c))
               /\ Cardinality(Into(Alive, c)) \in Nat
         /\ rc' \in [Cell -> Nat]
         /\ color' \in [Cell -> {"black", "purple", "white"}]
<1>. USE DEF CollectInv
<1>1. /\ At("scan") /\ Then("sweep")
      /\ UNCHANGED <<held, shape, slot, buffered, buffer, processed, corpses, phase, pending>>
      /\ color' = [c \in Cell |-> IF c \in Alive THEN "black"
                                  ELSE IF c \in OnTrial THEN "white" ELSE color[c]]
      /\ rc' = [c \in Cell |-> IF Walkable(c) THEN rc[c] + EdgesInto(Alive, c)
                                    ELSE rc[c]]
  BY DEF Scan, OnTrial, Alive
<1>2. /\ OnTrial \in SUBSET Cell /\ Alive \in SUBSET OnTrial
      /\ \A c \in OnTrial : Walkable(c)
      /\ \A c \in Alive : rc[c] # 0 \/ Into(Alive, c) # {}
      /\ \A c \in Cell : Walkable(c) /\ c \notin Alive => Into(Alive, c) = {}
      /\ \A c \in Cell : color[c] \in {"black", "purple", "gray"}
      /\ \A c \in Cell : color[c] \in Trying <=> c \in OnTrial
  BY <1>1, ScanSets
<1>3. ASSUME NEW c \in Cell
      PROVE  /\ color'[c] = IF c \in Alive THEN "black"
                            ELSE IF c \in OnTrial THEN "white" ELSE color[c]
             /\ color'[c] \in {"black", "purple", "white"}
  BY <1>1, <1>2 DEF OnTrial
<1>4. ASSUME NEW c \in Cell
      PROVE  /\ c \in Alive => rc'[c] # 0
             /\ c \notin Alive => rc'[c] = rc[c]
             /\ Walkable(c) => rc'[c] = rc[c] + Cardinality(Into(Alive, c))
             /\ Cardinality(Into(Alive, c)) \in Nat
             /\ rc'[c] \in Nat
  <2>. DEFINE I == Into(Alive, c)
              n == Cardinality(I)
  <2>1. /\ I \in SUBSET Edge /\ n \in Nat /\ EdgesInto(Alive, c) = n
    BY <1>2, IntoIs
  <2>2. /\ c \in Alive => Walkable(c) /\ (rc[c] # 0 \/ I # {})
        /\ Walkable(c) /\ c \notin Alive => I = {}
        /\ rc[c] \in Nat
    BY <1>2, CellIs
  <2>3. rc'[c] = IF Walkable(c) THEN rc[c] + n ELSE rc[c]
    BY <1>1, <2>1
  <2>. HIDE DEF I
  <2>4. n = 0 <=> I = {}
    BY <2>1, EdgesNat
  <2>. HIDE DEF n
  <2>5. /\ c \in Alive => rc'[c] # 0
        /\ c \notin Alive => rc'[c] = rc[c]
        /\ Walkable(c) => rc'[c] = rc[c] + n
        /\ n \in Nat /\ rc'[c] \in Nat
    BY <2>1, <2>2, <2>3, <2>4
  <2>. QED
    BY <2>5 DEF n, I
<1>5. rc' \in [Cell -> Nat]
  BY <1>1, <1>4
<1>6. color' \in [Cell -> {"black", "purple", "white"}]
  BY <1>1, <1>3
<1>. QED
  BY <1>1, <1>3, <1>4, <1>5, <1>6

\* The scan gives back the edges out of the live cells, and those alone.
LEMMA ScanCounts ==
  ASSUME TypeOK, CollectInv, Scan
  PROVE  Counted'
<1>. USE DEF CollectInv
<1>1. /\ At("scan") /\ Then("sweep")
      /\ UNCHANGED <<held, shape, slot, buffered, buffer, processed, corpses, phase, pending>>
      /\ \A c \in Cell :
               /\ color'[c] = IF c \in Alive THEN "black"
                              ELSE IF c \in OnTrial THEN "white" ELSE color[c]
               /\ c \in Alive => rc'[c] # 0
               /\ c \notin Alive => rc'[c] = rc[c]
               /\ Walkable(c) => rc'[c] = rc[c] + Cardinality(Into(Alive, c))
               /\ Cardinality(Into(Alive, c)) \in Nat
  BY ScanIs
<1>2. /\ stack # <<>> /\ Top.step \in Tracing /\ corpses = {}
      /\ OnTrial \in SUBSET Cell /\ Alive \in SUBSET OnTrial
      /\ \A c \in OnTrial : Walkable(c)
      /\ \A c \in Cell : color[c] \in {"black", "purple", "gray"}
      /\ \A c \in Cell : color[c] \in Trying <=> c \in OnTrial
  BY <1>1, ScanSets
<1>3. \A a \in Cell : \A i : HasFrame(stack', a, i) <=> HasFrame(stack, a, i)
  BY <1>1, <1>2, ThenIs
<1>4. \A c \in Cell : Whole(c)' <=> Whole(c)
  <2>1. \A c \in Cell : color'[c] \in Trying <=> c \in OnTrial /\ c \notin Alive
    BY <1>1, <1>2 DEF Trying
  <2>2. \A c \in Cell : Whole(c)' <=> rc'[c] # 0 \/ (c \in OnTrial /\ c \notin Alive)
    BY <1>1, <1>2, <2>1 DEF Whole
  <2>3. \A c \in Cell : Whole(c) <=> rc[c] # 0 \/ c \in OnTrial
    BY <1>2 DEF Whole
  <2>. QED
    BY <1>1, <1>2, <2>2, <2>3
<1>5. ASSUME NEW c \in Cell
      PROVE  EdgesOf(stack, slot, c)' = EdgesOf(stack, slot, c)
  <2>1. \A e \in Edge : Owned(stack, e)' <=> Owned(stack, e)
    BY <1>3, <1>4, EdgeIs DEF Owned
  <2>. QED
    BY <1>1, <2>1 DEF EdgesOf
<1>6. ASSUME NEW c \in Cell
      PROVE  rc'[c] + Cardinality(PaidFor(c)') = rc[c] + Cardinality(PaidFor(c))
  <2>1. \A a \in Cell : color'[a] \in Trying <=> a \in OnTrial /\ a \notin Alive
    BY <1>1, <1>2 DEF Trying
  <2>2. slot' = slot /\ (Walkable(c)' <=> Walkable(c)) /\ \A a : Walked(a)' = Walked(a)
    BY <1>1 DEF Walkable, Walked
  <2>3. CASE ~Walkable(c)
    <3>1. PaidFor(c) = {} /\ PaidFor(c)' = {}
      BY <2>2, <2>3 DEF PaidFor
    <3>2. rc'[c] = rc[c]
      BY <1>1, <1>2, <2>3
    <3>. QED
      BY <3>1, <3>2
  <2>4. CASE Walkable(c)
    <3>. DEFINE G == Into(OnTrial, c)
                L == Into(Alive, c)
    <3>1. PaidFor(c) = G
      BY <1>2, <2>4, EdgeIs DEF PaidFor, Into
    <3>2. PaidFor(c)' = G \ L
      BY <1>2, <2>1, <2>2, <2>4, EdgeIs DEF PaidFor, Into
    <3>3. G \in SUBSET Edge /\ L \in SUBSET G
      BY <1>2 DEF Into
    <3>. DEFINE g == Cardinality(G)
                l == Cardinality(L)
                d == Cardinality(G \ L)
    <3>4. rc'[c] = rc[c] + l /\ rc[c] \in Nat
      BY <1>1, <2>4, CellIs
    <3>. HIDE DEF G, L
    <3>5. g \in Nat /\ l \in Nat /\ d = g - l
      BY <3>3, EdgesNat
    <3>6. Cardinality(PaidFor(c)) = g /\ Cardinality(PaidFor(c)') = d
      BY <3>1, <3>2
    <3>. HIDE DEF g, l, d, PaidFor
    <3>. QED
      BY <3>4, <3>5, <3>6
  <2>. QED
    BY <2>3, <2>4
<1>7. ASSUME NEW c \in Cell
       PROVE  rc'[c] + Cardinality(PaidFor(c)')
                = held'[c] + Cardinality(Late(pending, c)')
                     + Cardinality(EdgesOf(stack, slot, c)')
  <2>1. Late(pending, c)' = Late(pending, c) /\ held' = held
    BY <1>1 DEF Late
  <2>. QED
    BY <1>5, <1>6, <2>1 DEF Counted
<1>. QED
  BY <1>7 DEF Counted

\* The scan keeps the invariant: white is what has no count left.
LEMMA ScanKeeps ==
  ASSUME TypeOK, CollectInv, Scan
  PROVE  TypeOK' /\ CollectInv'
<1>. USE DEF CollectInv
<1>1. /\ At("scan") /\ Then("sweep")
      /\ UNCHANGED <<held, shape, slot, buffered, buffer, processed, corpses, phase, pending>>
      /\ \A c \in Cell :
               /\ color'[c] = IF c \in Alive THEN "black"
                              ELSE IF c \in OnTrial THEN "white" ELSE color[c]
               /\ c \notin Alive => rc'[c] = rc[c]
      /\ rc' \in [Cell -> Nat]
      /\ color' \in [Cell -> {"black", "purple", "white"}]
  BY ScanIs
<1>2. /\ stack # <<>> /\ Top.step \in Tracing /\ corpses = {}
      /\ ~Active("free")
      /\ OnTrial \in SUBSET Cell /\ Alive \in SUBSET OnTrial
      /\ \A c \in OnTrial : Walkable(c)
      /\ \A c \in OnTrial : c \notin Alive => rc[c] = 0
      /\ \A c \in Cell : color[c] \in {"black", "purple", "gray"}
      /\ \A c \in Cell : color[c] \in Trying <=> c \in OnTrial
  BY <1>1, ScanSets
<1>3. /\ stack' \in Seq(Frame) /\ \A x : At(x)' <=> x = "sweep"
      /\ ~Active("free")' /\ InCollect'
      /\ DOMAIN stack' = DOMAIN stack
      /\ \A f \in DOMAIN stack' : stack'[f].step = "drop" =>
               /\ f \in DOMAIN stack /\ stack'[f] = stack[f]
               /\ stack[f].step = "drop"
  BY <1>1, <1>2, ThenIs DEF Phases
<1>4. TypeOK'
  <2>1. ~At("scan")' /\ At("sweep")'
    BY <1>3
  <2>2. color' \in [Cell -> {"black", "purple"}
                        \cup (IF At("scan")' THEN {"gray"} ELSE {})
                        \cup (IF At("sweep")' THEN {"white"} ELSE {})]
    <3>1. {"black", "purple", "white"} = {"black", "purple"}
                        \cup (IF At("scan")' THEN {"gray"} ELSE {})
                        \cup (IF At("sweep")' THEN {"white"} ELSE {})
      BY <2>1
    <3>. QED
      BY <1>1, <3>1
  <2>3. stack' \in Seq([step : {"drop", "loop", "mark", "scan", "sweep", "free"},
                      cell : Cell \cup {none}, next : 1..3])
    BY <1>3 DEF Frame
  <2>. QED
    BY <1>1, <2>2, <2>3 DEF TypeOK
<1>5. \A f \in DOMAIN stack : stack[f].step = "drop" =>
         /\ stack[f].cell \in Cell
         /\ color'[stack[f].cell] = color[stack[f].cell]
         /\ rc'[stack[f].cell] = rc[stack[f].cell]
  BY <1>1, <1>2 DEF Frames
<1>6. Shapes'
  BY <1>1, <1>2 DEF Shapes, Walkable
<1>7. Frames'
  <2>1. \A f \in DOMAIN stack : stack[f].step = "drop" => GoodAfter(stack[f])
    BY <1>1, <1>5 DEF GoodAfter, Frames, Walkable
  <2>. QED
    BY <1>1, <1>2, <2>1, FramesThen
<1>8. Corpses'
  BY <1>1, <1>2 DEF Corpses
<1>9. Trial'
  <2>1. ASSUME NEW c \in Cell, color'[c] = "white"
        PROVE  rc'[c] = 0
    BY <1>1, <1>2, <2>1
  <2>2. \A c \in Cell : color'[c] # "gray"
    BY <1>1
  <2>. QED
    BY <2>1, <2>2 DEF Trial
<1>10. Buffer'
  <2>1. Kept' = Kept
    BY <1>1, <1>2, <1>3 DEF Kept
  <2>2. \A f \in DOMAIN stack' : stack'[f].step = "drop" /\ buffered'[stack'[f].cell]
             => color'[stack'[f].cell] = "purple"
    BY <1>1, <1>3, <1>5 DEF Buffer
  <2>3. processed' = Len(buffer')
    BY <1>1 DEF Buffer
  <2>. QED
    BY <1>1, <1>3, <2>1, <2>2, <2>3 DEF Buffer
<1>. QED
  BY <1>4, <1>6, <1>7, <1>8, <1>9, <1>10, ScanCounts

\* What the scan left as garbage, and the part that has no destructor to run.
Garbage == {c \in Cell : color[c] = "white"}
Bare == {c \in Garbage : ~OwnDestructor(c)}
\* The edges into c that are nobody's after the sweep.
Gone(c) == IF Walkable(c) THEN Into(Garbage, c) ELSE Into(Bare, c)

\* The state the sweep begins in: garbage has no count and no drop of its own.
LEMMA SweepSets ==
  ASSUME TypeOK, CollectInv, At("sweep")
  PROVE  /\ stack # <<>> /\ Top.step = "sweep" /\ Top.step \in Tracing
         /\ ~At("scan") /\ ~Active("free") /\ corpses = {}
         /\ Garbage \in SUBSET Cell /\ Bare \in SUBSET Garbage
         /\ \A c \in Garbage : Walkable(c) /\ rc[c] = 0 /\ \A j : ~HasFrame(stack, c, j)
         /\ \A c \in Bare : Walked(c) = Slot
         /\ \A c \in Cell : color[c] \in {"black", "purple", "white"}
         /\ \A c \in Cell : color[c] \in Trying <=> c \in Garbage
         /\ \A e \in Edge : Owned(stack, e) <=> \/ rc[e[1]] # 0
                                                \/ e[1] \in Garbage
                                                \/ HasFrame(stack, e[1], e[2])
<1>. USE DEF CollectInv
<1>1. stack # <<>> /\ Top.step = "sweep" /\ Top.step \in Tracing /\ ~At("scan")
  BY DEF At, Tracing
<1>2. ~Active("free")
  BY <1>1, TopPhase DEF Phases
<1>3. corpses = {}
  BY <1>2 DEF Corpses
<1>4. /\ \A c \in Cell : color[c] \in {"black", "purple", "white"}
      /\ \A c \in Cell : color[c] \in Trying <=> c \in Garbage
  BY <1>1, CellIs DEF Trying, Garbage
<1>5. Garbage \in SUBSET Cell /\ Bare \in SUBSET Garbage
  BY DEF Garbage, Bare
<1>6. \A c \in Garbage : Walkable(c) /\ rc[c] = 0
  BY DEF Shapes, Garbage, Trial
<1>7. \A c \in Garbage : \A j : ~HasFrame(stack, c, j)
  BY <1>4, <1>5, CellAssumption DEF HasFrame, Frames
<1>8. \A c \in Bare : Walked(c) = Slot
  BY DEF Bare, OwnDestructor, Walked
<1>9. \A e \in Edge : Owned(stack, e) <=> \/ rc[e[1]] # 0
                                          \/ e[1] \in Garbage
                                          \/ HasFrame(stack, e[1], e[2])
  BY <1>3, <1>4, EdgeIs DEF Owned, Whole
<1>. QED
  BY <1>1, <1>2, <1>3, <1>4, <1>5, <1>6, <1>7, <1>8, <1>9

\* The edges the sweep takes were counted.
LEMMA GoneIs ==
  ASSUME TypeOK, CollectInv, At("sweep"), NEW c \in Cell
  PROVE  /\ Gone(c) \in SUBSET EdgesOf(stack, slot, c)
         /\ EdgesOf(stack, slot, c) \in SUBSET Edge
         /\ Cardinality(Gone(c)) \in Nat
         /\ Walkable(c) => PaidFor(c) = Gone(c)
         /\ ~Walkable(c) => /\ PaidFor(c) = {}
                            /\ EdgesInto(Bare, c) = Cardinality(Gone(c))
                            /\ Cardinality(Gone(c)) <= rc[c]
<1>. USE DEF CollectInv
<1>1. /\ Garbage \in SUBSET Cell /\ Bare \in SUBSET Garbage
      /\ \A x \in Cell : color[x] \in Trying <=> x \in Garbage
      /\ \A e \in Edge : e[1] \in Garbage => Owned(stack, e)
  BY SweepSets
<1>2. /\ Into(Garbage, c) \in SUBSET EdgesOf(stack, slot, c)
      /\ Into(Bare, c) \in SUBSET EdgesOf(stack, slot, c)
  BY <1>1 DEF Into, EdgesOf
<1>3. EdgesOf(stack, slot, c) \in SUBSET Edge
  BY DEF EdgesOf
<1>4. Gone(c) \in SUBSET EdgesOf(stack, slot, c)
  BY <1>2 DEF Gone
<1>5. Cardinality(Gone(c)) \in Nat /\ Cardinality(Gone(c)) <= Cardinality(EdgesOf(stack, slot, c))
      /\ Cardinality(EdgesOf(stack, slot, c)) \in Nat
  BY <1>3, <1>4, EdgesNat
<1>6. Walkable(c) => PaidFor(c) = Gone(c)
  BY <1>1, EdgeIs DEF PaidFor, Gone, Into
<1>7. ASSUME ~Walkable(c)
      PROVE  /\ PaidFor(c) = {}
             /\ EdgesInto(Bare, c) = Cardinality(Gone(c))
             /\ Cardinality(Gone(c)) <= rc[c]
  <2>1. PaidFor(c) = {}
    BY <1>7 DEF PaidFor
  <2>2. EdgesInto(Bare, c) = Cardinality(Gone(c))
    BY <1>1, <1>7, IntoIs DEF Gone
  <2>. DEFINE l == Cardinality(Late(pending, c))
              m == Cardinality(EdgesOf(stack, slot, c))
              n == Cardinality(Gone(c))
              k == Cardinality(PaidFor(c))
  <2>3. rc[c] + k = held[c] + l + m /\ held[c] \in Nat /\ rc[c] \in Nat
    BY CellIs DEF Counted
  <2>4. k = 0
    BY <2>1, FS_EmptySet
  <2>5. l \in Nat
    BY LateNat DEF TypeOK
  <2>6. n \in Nat /\ m \in Nat /\ n <= m
    BY <1>5
  <2>. HIDE DEF l, m, n, k
  <2>7. n <= rc[c]
    BY <2>3, <2>4, <2>5, <2>6
  <2>. QED
    BY <2>1, <2>2, <2>7 DEF n
<1>. QED
  BY <1>3, <1>4, <1>5, <1>6, <1>7

\* The sweep, cell by cell.
LEMMA SweepIs ==
  ASSUME TypeOK, CollectInv, Sweep
  PROVE  /\ At("sweep") /\ Then("free")
         /\ UNCHANGED <<held, buffer, processed, phase, pending>>
         /\ corpses' = Garbage
         /\ \A c \in Cell :
               /\ color'[c] = IF c \in Garbage THEN "black" ELSE color[c]
               /\ buffered'[c] = FALSE
               /\ Walkable(c) => rc'[c] = rc[c]
               /\ ~Walkable(c) => rc'[c] = rc[c] - Cardinality(Gone(c))
               /\ rc[c] = 0 => rc'[c] = 0
               /\ Walkable(c) => shape'[c] = shape[c]
               /\ Walkable(c)' <=> Walkable(c)
               /\ shape'[c] = "free" => rc'[c] = 0
               /\ ~Walkable(c) => slot'[c] = NoSlots /\ slot[c] = NoSlots
               /\ \A i \in Slot : slot'[c][i] = IF c \in Garbage \ Bare /\ Paid(c, i)
                                                THEN none ELSE slot[c][i]
         /\ shape' \in [Cell -> Shape \cup {"free"}]
         /\ slot' \in [Cell -> [Slot -> Cell \cup {none}]]
         /\ rc' \in [Cell -> Nat]
         /\ buffered' \in [Cell -> BOOLEAN]
         /\ color' \in [Cell -> {"black", "purple"}]
<1>. USE DEF CollectInv
<1>. DEFINE left == [c \in Cell |-> rc[c] - IF Walkable(c) THEN 0 ELSE EdgesInto(Bare, c)]
<1>1. /\ At("sweep") /\ Then("free")
      /\ UNCHANGED <<held, buffer, processed, phase, pending>>
      /\ corpses' = Garbage
      /\ color' = [c \in Cell |-> IF c \in Garbage THEN "black" ELSE color[c]]
      /\ buffered' = [c \in Cell |-> buffered[c] /\ c \notin Range(buffer) \cup Garbage]
      /\ rc' = left
      /\ shape' = [c \in Cell |-> IF rc[c] # 0 /\ left[c] = 0 THEN "free" ELSE shape[c]]
      /\ slot' = [c \in Cell |-> [i \in Slot |->
                    IF c \in Garbage \ Bare /\ Paid(c, i) THEN none ELSE slot[c][i]]]
  BY DEF Sweep, Garbage, Bare
<1>2. /\ Garbage \in SUBSET Cell /\ Bare \in SUBSET Garbage
      /\ ~Active("free")
      /\ \A c \in Garbage : Walkable(c) /\ rc[c] = 0
      /\ \A c \in Cell : color[c] \in {"black", "purple", "white"}
      /\ \A c \in Cell : color[c] \in Trying <=> c \in Garbage
  BY <1>1, SweepSets
<1>3. ASSUME NEW c \in Cell
      PROVE  /\ Walkable(c) => rc'[c] = rc[c]
             /\ ~Walkable(c) => rc'[c] = rc[c] - Cardinality(Gone(c))
             /\ rc[c] = 0 => rc'[c] = 0
             /\ rc'[c] \in Nat
  <2>. DEFINE n == Cardinality(Gone(c))
              k == EdgesInto(Bare, c)
  <2>1. /\ rc[c] \in Nat /\ n \in Nat
        /\ ~Walkable(c) => k = n /\ n <= rc[c]
    BY <1>1, CellIs, GoneIs
  <2>2. rc'[c] = rc[c] - IF Walkable(c) THEN 0 ELSE k
    BY <1>1
  <2>. HIDE DEF n, k
  <2>3. /\ Walkable(c) => rc'[c] = rc[c]
        /\ ~Walkable(c) => rc'[c] = rc[c] - n
        /\ rc[c] = 0 => rc'[c] = 0
        /\ rc'[c] \in Nat
    BY <2>1, <2>2
  <2>. QED
    BY <2>3 DEF n
<1>4. rc' \in [Cell -> Nat]
  BY <1>1, <1>3
<1>5. ASSUME NEW c \in Cell
      PROVE  /\ shape'[c] = IF rc[c] # 0 /\ rc'[c] = 0 THEN "free" ELSE shape[c]
             /\ Walkable(c) => shape'[c] = shape[c]
             /\ Walkable(c)' <=> Walkable(c)
             /\ shape'[c] = "free" => rc'[c] = 0
             /\ shape'[c] \in Shape \cup {"free"}
  <2>1. shape'[c] = IF rc[c] # 0 /\ rc'[c] = 0 THEN "free" ELSE shape[c]
    BY <1>1
  <2>2. shape[c] = "free" => rc[c] = 0
    BY DEF Shapes
  <2>. QED
    BY <1>3, <2>1, <2>2, CellIs DEF Walkable
<1>6. shape' \in [Cell -> Shape \cup {"free"}]
  BY <1>1, <1>5
<1>7. ASSUME NEW c \in Cell
      PROVE  /\ \A i \in Slot : slot'[c][i] = IF c \in Garbage \ Bare /\ Paid(c, i)
                                              THEN none ELSE slot[c][i]
             /\ slot'[c] \in [Slot -> Cell \cup {none}]
             /\ ~Walkable(c) => slot'[c] = NoSlots /\ slot[c] = NoSlots
  <2>1. slot'[c] = [i \in Slot |-> IF c \in Garbage \ Bare /\ Paid(c, i)
                                   THEN none ELSE slot[c][i]]
    BY <1>1
  <2>2. \A i \in Slot : slot[c][i] \in Cell \cup {none}
    BY CellIs
  <2>3. ~Walkable(c) => slot[c] = NoSlots /\ c \notin Garbage
    BY <1>2 DEF Shapes
  <2>. QED
    BY <2>1, <2>2, <2>3 DEF NoSlots
<1>8. slot' \in [Cell -> [Slot -> Cell \cup {none}]]
  BY <1>1, <1>7
<1>9. \A c \in Cell : buffered'[c] = FALSE
  <2>1. \A c \in Cell : buffered[c] => c \in Range(buffer)
    <3>1. \A i \in Kept : i \in DOMAIN buffer
      BY KeptIs
    <3>. QED
      BY <3>1 DEF Buffer, Range
  <2>. QED
    BY <1>1, <2>1
<1>10. buffered' \in [Cell -> BOOLEAN]
  BY <1>1
<1>11. \A c \in Cell : /\ color'[c] = IF c \in Garbage THEN "black" ELSE color[c]
                       /\ color'[c] \in {"black", "purple"}
  BY <1>1, <1>2 DEF Trying
<1>12. color' \in [Cell -> {"black", "purple"}]
  BY <1>1, <1>11
<1>. QED
  BY <1>1, <1>3, <1>4, <1>5, <1>6, <1>7, <1>8, <1>9, <1>10, <1>11, <1>12

\* The sweep leaves of the slots that were counted those somebody has yet to
\* release, and takes off the counts of leaves what it releases itself.
LEMMA SweepCounts ==
  ASSUME TypeOK, TypeOK', CollectInv, Sweep
  PROVE  Counted'
<1>. USE DEF CollectInv
<1>1. /\ At("sweep") /\ Then("free")
      /\ UNCHANGED <<held, buffer, processed, phase, pending>>
      /\ corpses' = Garbage
      /\ \A c \in Cell :
               /\ Walkable(c) => rc'[c] = rc[c]
               /\ ~Walkable(c) => rc'[c] = rc[c] - Cardinality(Gone(c))
               /\ rc[c] = 0 => rc'[c] = 0
               /\ Walkable(c) => shape'[c] = shape[c]
               /\ ~Walkable(c) => slot'[c] = NoSlots /\ slot[c] = NoSlots
               /\ \A i \in Slot : slot'[c][i] = IF c \in Garbage \ Bare /\ Paid(c, i)
                                                THEN none ELSE slot[c][i]
      /\ color' \in [Cell -> {"black", "purple"}]
  BY SweepIs
<1>2. /\ stack # <<>> /\ Top.step \in Tracing
      /\ Garbage \in SUBSET Cell /\ Bare \in SUBSET Garbage
      /\ \A c \in Garbage : Walkable(c) /\ rc[c] = 0 /\ \A j : ~HasFrame(stack, c, j)
      /\ \A c \in Bare : Walked(c) = Slot
      /\ \A e \in Edge : Owned(stack, e) <=> \/ rc[e[1]] # 0
                                             \/ e[1] \in Garbage
                                             \/ HasFrame(stack, e[1], e[2])
  BY <1>1, SweepSets
<1>3. /\ \A a \in Cell : \A i : HasFrame(stack', a, i) <=> HasFrame(stack, a, i)
      /\ \A x : At(x)' <=> x = "free"
  BY <1>1, <1>2, ThenIs
<1>4. \A c \in Garbage : OwnDestructor(c)' <=> c \notin Bare
  BY <1>1, <1>2 DEF OwnDestructor, Bare
<1>5. \A e \in Edge : Owned(stack, e)' <=> \/ rc'[e[1]] # 0
                                           \/ e[1] \in Garbage \ Bare
                                           \/ HasFrame(stack, e[1], e[2])
  BY <1>1, <1>2, <1>3, <1>4, EdgeIs DEF Owned, Whole, Trying
<1>6. ASSUME NEW c \in Cell
      PROVE  EdgesOf(stack, slot, c)' = EdgesOf(stack, slot, c) \ Gone(c)
  <2>1. ASSUME NEW a \in Cell, NEW i \in Slot
        PROVE  Owned(stack, <<a, i>>)' /\ slot'[a][i] = c
                  <=> Owned(stack, <<a, i>>) /\ slot[a][i] = c /\ <<a, i>> \notin Gone(c)
    <3>1. /\ <<a, i>> \in Edge /\ <<a, i>>[1] = a /\ <<a, i>>[2] = i
      BY EdgeIs
    <3>2. /\ Owned(stack, <<a, i>>)' <=> \/ rc'[a] # 0
                                         \/ a \in Garbage \ Bare
                                         \/ HasFrame(stack, a, i)
          /\ Owned(stack, <<a, i>>) <=> \/ rc[a] # 0
                                        \/ a \in Garbage
                                        \/ HasFrame(stack, a, i)
      BY <1>2, <1>5, <3>1
    <3>3. <<a, i>> \in Gone(c) <=> /\ a \in Garbage /\ i \in Walked(a) /\ slot[a][i] = c
                                   /\ Walkable(c) \/ a \in Bare
      BY <1>2, <3>1 DEF Gone, Into
    <3>4. c # none /\ NoSlots[i] # c
      BY CellAssumption DEF NoSlots
    <3>5. CASE a \in Bare
      BY <1>1, <1>2, <3>2, <3>3, <3>5
    <3>6. CASE a \in Garbage \ Bare
      BY <1>1, <3>2, <3>3, <3>4, <3>6 DEF Paid
    <3>7. CASE a \notin Garbage /\ Walkable(a)
      BY <1>1, <3>2, <3>3, <3>7
    <3>8. CASE a \notin Garbage /\ ~Walkable(a)
      BY <1>1, <3>4, <3>8
    <3>. QED
      BY <1>2, <3>5, <3>6, <3>7, <3>8
  <2>2. ASSUME NEW e \in Edge
        PROVE  Owned(stack, e)' /\ slot'[e[1]][e[2]] = c
                  <=> Owned(stack, e) /\ slot[e[1]][e[2]] = c /\ e \notin Gone(c)
    <3>1. e[1] \in Cell /\ e[2] \in Slot /\ e = <<e[1], e[2]>>
      BY EdgeIs
    <3>. QED
      BY <2>1, <3>1
  <2>. QED
    BY <2>2 DEF EdgesOf
<1>7. ASSUME NEW c \in Cell
      PROVE  rc'[c] = held'[c] + Cardinality(Late(pending, c)')
                         + Cardinality(EdgesOf(stack, slot, c)')
  <2>. DEFINE E == EdgesOf(stack, slot, c)
              g == Cardinality(Gone(c))
              l == Cardinality(Late(pending, c))
              m == Cardinality(E)
              n == Cardinality(E \ Gone(c))
              k == Cardinality(PaidFor(c))
  <2>1. rc[c] + k = held[c] + l + m /\ held[c] \in Nat /\ rc[c] \in Nat
    BY CellIs DEF Counted
  <2>2. IF Walkable(c) THEN k = g /\ rc'[c] = rc[c] ELSE k = 0 /\ rc'[c] = rc[c] - g
    BY <1>1, GoneIs, FS_EmptySet
  <2>3. g \in Nat /\ m \in Nat /\ n = m - g
    <3>1. E \in SUBSET Edge /\ Gone(c) \in SUBSET E
      BY <1>1, GoneIs
    <3>. HIDE DEF E
    <3>. QED
      BY <3>1, EdgesNat
  <2>4. l \in Nat
    BY LateNat DEF TypeOK
  <2>. HIDE DEF g, l, m, n, k, E
  <2>5. rc'[c] = held[c] + l + n
    BY <2>1, <2>2, <2>3, <2>4
  <2>6. Late(pending, c)' = Late(pending, c) /\ held' = held
    BY <1>1 DEF Late
  <2>. QED
    BY <1>6, <2>5, <2>6 DEF l, n, E
<1>8. Sums'
  BY <1>7 DEF Sums
<1>. QED
  BY <1>3, <1>8, CountedAfter

\* The sweep keeps the invariant: every corpse is whole if its destructor is
\* still to run and has nothing left that stands for a reference if not.
LEMMA SweepKeeps ==
  ASSUME TypeOK, CollectInv, Sweep
  PROVE  TypeOK' /\ CollectInv'
<1>. USE DEF CollectInv
<1>1. /\ At("sweep") /\ Then("free")
      /\ UNCHANGED <<held, buffer, processed, phase, pending>>
      /\ corpses' = Garbage
      /\ \A c \in Cell :
               /\ color'[c] = IF c \in Garbage THEN "black" ELSE color[c]
               /\ buffered'[c] = FALSE
               /\ Walkable(c) => rc'[c] = rc[c]
               /\ rc[c] = 0 => rc'[c] = 0
               /\ Walkable(c)' <=> Walkable(c)
               /\ shape'[c] = "free" => rc'[c] = 0
               /\ ~Walkable(c) => slot'[c] = NoSlots
      /\ shape' \in [Cell -> Shape \cup {"free"}]
      /\ slot' \in [Cell -> [Slot -> Cell \cup {none}]]
      /\ rc' \in [Cell -> Nat]
      /\ buffered' \in [Cell -> BOOLEAN]
      /\ color' \in [Cell -> {"black", "purple"}]
  BY SweepIs
<1>2. /\ stack # <<>> /\ Top.step \in Tracing
      /\ ~Active("free")
      /\ Garbage \in SUBSET Cell
      /\ \A c \in Garbage : Walkable(c) /\ rc[c] = 0
      /\ \A c \in Cell : color[c] \in Trying <=> c \in Garbage
  BY <1>1, SweepSets
<1>3. /\ stack' \in Seq(Frame) /\ \A x : At(x)' <=> x = "free"
      /\ Active("free")' /\ InCollect'
      /\ \A f \in DOMAIN stack' : stack'[f].step = "drop" =>
               /\ f \in DOMAIN stack /\ stack'[f] = stack[f]
               /\ stack[f].step = "drop"
  BY <1>1, <1>2, ThenIs DEF Phases
<1>4. TypeOK'
  BY <1>1, <1>2, <1>3, TypesAfter DEF TypeOK
<1>5. Shapes'
  BY <1>1, <1>2 DEF Shapes
<1>6. Frames'
  <2>1. \A f \in DOMAIN stack : stack[f].step = "drop" => GoodAfter(stack[f])
    BY <1>1, <1>2 DEF GoodAfter, Frames, Walkable
  <2>. QED
    BY <1>1, <1>2, <2>1, FramesThen
<1>7. Corpses'
  BY <1>1, <1>2, <1>3 DEF Corpses
<1>8. Trial'
  BY <1>1 DEF Trial
<1>9. Buffer'
  <2>1. processed' = Len(buffer')
    BY <1>1 DEF Buffer
  <2>2. \A i \in DOMAIN buffer' : ~(i > processed')
    <3>1. DOMAIN buffer' = 1 .. Len(buffer') /\ Len(buffer') \in Nat
      BY <1>4 DEF TypeOK
    <3>. QED
      BY <2>1, <3>1
  <2>3. Kept' = {}
    BY <1>3, <2>2 DEF Kept
  <2>4. \A f \in DOMAIN stack' : stack'[f].step = "drop" => ~buffered'[stack'[f].cell]
    BY <1>1, <1>3 DEF Frames
  <2>. QED
    BY <1>1, <1>3, <2>3, <2>4 DEF Buffer
<1>. QED
  BY <1>4, <1>5, <1>6, <1>7, <1>8, <1>9, SweepCounts

-----------------------------------------------------------------------------
(* The theorems.                                                           *)

\* An empty heap.
LEMMA InitKeeps == Init => TypeOK /\ CollectInv
<1>. SUFFICES ASSUME Init PROVE TypeOK /\ CollectInv
  OBVIOUS
<1>1. /\ \A c \in Cell : /\ held[c] = 0 /\ shape[c] = "free" /\ slot[c] = NoSlots
                         /\ rc[c] = 0 /\ color[c] = "black" /\ ~buffered[c]
      /\ buffer = <<>> /\ stack = <<>> /\ processed = 0 /\ corpses = {}
      /\ pending = <<>>
  BY DEF Init
<1>2. /\ \A step : ~At(step) /\ ~Active(step)
      /\ ~InCollect
      /\ \A a, i : ~HasFrame(stack, a, i)
  BY <1>1 DEF At, Active, InCollect, HasFrame
<1>3. TypeOK
  <2>1. held \in [Cell -> 0..HandleBound]
    BY BoundAssumption DEF Init
  <2>2. slot \in [Cell -> [Slot -> Cell \cup {none}]]
    BY DEF Init, NoSlots
  <2>3. shape \in [Cell -> Shape \cup {"free"}] /\ rc \in [Cell -> Nat]
    BY DEF Init
  <2>4. color \in [Cell -> {"black", "purple"}
                        \cup (IF At("scan") THEN {"gray"} ELSE {})
                        \cup (IF At("sweep") THEN {"white"} ELSE {})]
    BY DEF Init
  <2>5. buffered \in [Cell -> BOOLEAN] /\ phase \in {"run", "drain", "over"}
    BY DEF Init
  <2>6. buffer \in Seq(Cell \cup {none}) /\ pending \in Seq(Cell)
        /\ stack \in Seq([step : {"drop", "loop", "mark", "scan", "sweep", "free"},
                          cell : Cell \cup {none}, next : 1..3])
        /\ processed \in 0..Len(buffer)
    BY <1>1
  <2>. QED
    BY <1>1, <2>1, <2>2, <2>3, <2>4, <2>5, <2>6 DEF TypeOK
<1>4. Shapes /\ Frames /\ Corpses /\ Trial
  BY <1>1, <1>2 DEF Shapes, Frames, Corpses, Trial
<1>5. Buffer
  BY <1>1, <1>2 DEF Buffer, Kept
<1>6. Counted
  <2>1. ASSUME NEW c \in Cell
        PROVE  rc[c] = held[c] + Cardinality(Late(pending, c))
                          + Cardinality(EdgesOf(stack, slot, c))
    <3>1. Late(pending, c) = {}
      BY <1>1 DEF Late
    <3>2. EdgesOf(stack, slot, c) = {}
      BY <1>1, <1>2, EdgeIs DEF EdgesOf, Owned, Whole, Trying
    <3>3. Cardinality({}) = 0
      BY FS_EmptySet
    <3>4. Cardinality(Late(pending, c)) = 0 /\ Cardinality(EdgesOf(stack, slot, c)) = 0
      BY <3>1, <3>2, <3>3
    <3>. QED
      BY <1>1, <3>4
  <2>. QED
    BY <1>2, <1>3, <2>1, CountedIs DEF Sums
<1>. QED
  BY <1>3, <1>4, <1>5, <1>6 DEF CollectInv

\* Every step of the program and of the runtime.
LEMMA NextKeeps == TypeOK /\ CollectInv /\ [Next]_vars => TypeOK' /\ CollectInv'
<1>. SUFFICES ASSUME TypeOK, CollectInv, [Next]_vars
              PROVE  TypeOK' /\ CollectInv'
  OBVIOUS
<1>1. ASSUME NEW c \in Cell, NEW k \in Shape, New(c, k) PROVE TypeOK' /\ CollectInv'
  BY <1>1, NewKeeps
<1>2. ASSUME NEW c \in Cell, NEW i \in Slot, NEW b \in Cell, Store(c, i, b)
      PROVE  TypeOK' /\ CollectInv'
  BY <1>2, StoreKeeps
<1>3. ASSUME NEW c \in Cell, NEW i \in Slot, Load(c, i) PROVE TypeOK' /\ CollectInv'
  BY <1>3, LoadKeeps
<1>4. ASSUME NEW c \in Cell, NEW i \in Slot, Clear(c, i) PROVE TypeOK' /\ CollectInv'
  BY <1>4, ClearKeeps
<1>5. ASSUME NEW c \in Cell, DropHandle(c) PROVE TypeOK' /\ CollectInv'
  BY <1>5, DropHandleKeeps
<1>6. CASE StartCollect
  BY <1>6, StartCollectKeeps
<1>7. CASE Exit
  BY <1>7, IdleKeeps DEF Exit
<1>8. CASE Drained
  BY <1>8, IdleKeeps DEF Drained
<1>9. CASE UNCHANGED vars
  BY <1>9, IdleKeeps DEF vars, TypeOK
<1>10. CASE DropChild
  BY <1>10, DropChildKeeps
<1>11. CASE DropEnd
  BY <1>11, DropEndKeeps
<1>12. CASE LoopStep
  BY <1>12, LoopStepKeeps
<1>13. CASE LoopEnd
  BY <1>13, LoopEndKeeps
<1>14. CASE Mark
  BY <1>14, MarkKeeps
<1>15. CASE Scan
  BY <1>15, ScanKeeps
<1>16. CASE Sweep
  BY <1>16, SweepKeeps
<1>17. ASSUME NEW c \in Cell, Finalize(c) PROVE TypeOK' /\ CollectInv'
  BY <1>17, FinalizeKeeps
<1>18. CASE CollectEnd
  BY <1>18, CollectEndKeeps
<1>. QED
  BY <1>1, <1>2, <1>3, <1>4, <1>5, <1>6, <1>7, <1>8, <1>9, <1>10, <1>11, <1>12,
     <1>13, <1>14, <1>15, <1>16, <1>17, <1>18 DEF Next, Runtime

\* The invariant holds: every count is, with what the trial took off it, what
\* scopes, slots and deferred releases hold, through every phase of the collector and
\* every destructor and release between them.
THEOREM InvCorrect == Spec => [](TypeOK /\ CollectInv)
<1>. QED
  BY InitKeeps, NextKeeps, PTL DEF Spec

\* No count goes below zero and no cell is gray or white outside the phase that
\* says so, whatever is released in the middle of whatever.
THEOREM TypeCorrect == Spec => []TypeOK
<1>. QED
  BY InvCorrect, PTL

\* The slots the invariant counts and those the property speaks of.
LEMMA OwnsIs ==
  ASSUME TypeOK, CollectInv, ~At("sweep"), NEW e \in Edge
  PROVE  Owns(e[1], e[2]) <=> Owned(stack, e)
<1>. USE DEF CollectInv
<1>. DEFINE a == e[1]
<1>1. a \in Cell
  BY EdgeIs
<1>2. color[a] \in Trying <=> color[a] = "gray"
  BY <1>1, CellIs DEF Trying
<1>3. rc[a] # 0 \/ color[a] = "gray" => shape[a] # "free"
  BY <1>1 DEF Shapes, Walkable
<1>4. HasFrame(stack, a, e[2]) <=> \E f \in DOMAIN stack : stack[f].cell = a /\ e[2] >= stack[f].next
  BY DEF HasFrame
<1>. QED
  BY <1>2, <1>3, <1>4 DEF Owns, Owned, Whole

\* The slots that stand for references, as the property counts them.
LEMMA CountsSound == TypeOK /\ CollectInv => CountsOwners
<1>. USE DEF CollectInv
<1>1. SUFFICES ASSUME TypeOK, CollectInv, ~At("scan"), ~At("sweep"), NEW c \in Cell
               PROVE  rc[c] = Owners(c, Cell \X Slot)
  BY DEF CountsOwners
<1>2. {e \in Cell \X Slot : Owns(e[1], e[2]) /\ slot[e[1]][e[2]] = c}
         = EdgesOf(stack, slot, c)
  <2>1. \A e \in Edge : Owns(e[1], e[2]) <=> Owned(stack, e)
    BY <1>1, OwnsIs
  <2>. QED
    BY <2>1 DEF EdgesOf, Edge
<1>3. {n \in DOMAIN pending : pending[n] = c} = Late(pending, c)
  BY DEF Late
<1>4. Sums
  BY <1>1, CountedIs
<1>. QED
  BY <1>1, <1>2, <1>3, <1>4 DEF Sums, Owners

\* During the scan a gray cell's count lacks the walked edges out of gray
\* cells, which leaves the others.
LEMMA TrialSound == TypeOK /\ CollectInv => TrialLeavesOutsiders
<1>. USE DEF CollectInv
<1>1. SUFFICES ASSUME TypeOK, CollectInv, At("scan"), NEW c \in Cell, color[c] = "gray"
               PROVE  rc[c] = Owners(c, {e \in Cell \X Slot : color[e[1]] # "gray"
                                                  \/ e[2] \notin Walked(e[1])})
  BY DEF TrialLeavesOutsiders
<1>2. ~At("sweep") /\ Walkable(c)
  BY <1>1 DEF At, Shapes
<1>. DEFINE E == EdgesOf(stack, slot, c)
            P == PaidFor(c)
<1>3. {e \in {x \in Cell \X Slot : color[x[1]] # "gray" \/ x[2] \notin Walked(x[1])} :
            Owns(e[1], e[2]) /\ slot[e[1]][e[2]] = c} = E \ P
  <2>1. \A e \in Edge : Owns(e[1], e[2]) <=> Owned(stack, e)
    BY <1>1, <1>2, OwnsIs
  <2>2. \A e \in Edge : color[e[1]] \in Trying <=> color[e[1]] = "gray"
    BY <1>1, <1>2, EdgeIs, CellIs DEF Trying
  <2>. QED
    BY <1>2, <2>1, <2>2 DEF EdgesOf, PaidFor, Edge
<1>4. E \in SUBSET Edge /\ P \in SUBSET E
  BY EdgeIs DEF EdgesOf, PaidFor, Owned, Whole
<1>5. {n \in DOMAIN pending : pending[n] = c} = Late(pending, c)
  BY DEF Late
<1>. DEFINE l == Cardinality(Late(pending, c))
            m == Cardinality(E)
            p == Cardinality(P)
            d == Cardinality(E \ P)
<1>6. rc[c] + p = held[c] + l + m /\ rc[c] \in Nat /\ held[c] \in Nat
  BY <1>1, CellIs DEF Counted
<1>7. l \in Nat
  BY <1>1, LateNat DEF TypeOK
<1>8. Owners(c, {e \in Cell \X Slot : color[e[1]] # "gray" \/ e[2] \notin Walked(e[1])})
        = held[c] + l + d
  BY <1>3, <1>5 DEF Owners
<1>. HIDE DEF E, P
<1>9. m \in Nat /\ p \in Nat /\ d = m - p
  BY <1>4, EdgesNat
<1>. HIDE DEF l, m, p, d
<1>. QED
  BY <1>6, <1>7, <1>8, <1>9

\* A flagged cell is allocated, since only a walkable one is flagged, and one
\* that is dying is still purple.
LEMMA BuffersSound == TypeOK /\ CollectInv => BufferSound
<1>. USE DEF CollectInv
<1>1. SUFFICES ASSUME TypeOK, CollectInv, ~At("sweep")
               PROVE  /\ \A i \in Kept : shape[buffer[i]] # "free" /\ buffered[buffer[i]]
                      /\ \A i, j \in Kept : buffer[i] = buffer[j] => i = j
                      /\ \A c \in Cell : buffered[c] => \E i \in Kept : buffer[i] = c
                      /\ \A f \in DOMAIN stack :
                            stack[f].step = "drop" /\ buffered[stack[f].cell]
                               => color[stack[f].cell] # "black"
  BY DEF BufferSound, Kept
<1>2. \A i \in Kept : shape[buffer[i]] # "free" /\ buffered[buffer[i]]
  BY <1>1, KeptIs DEF Buffer, Shapes, Walkable
<1>3. \A f \in DOMAIN stack :
         stack[f].step = "drop" /\ buffered[stack[f].cell] => color[stack[f].cell] # "black"
  BY <1>1 DEF Buffer
<1>. QED
  BY <1>1, <1>2, <1>3 DEF Buffer

\* A refcount is the number of its owners but during the scan and the sweep:
\* neither a drop nor a corpse's destructor nor the deferral loop releases an edge the
\* trial has paid for, and none is left out.
THEOREM ReferencesCounted == Spec => []CountsOwners
<1>. QED
  BY InvCorrect, CountsSound, PTL

\* After the mark a gray cell's count is what it has from outside
\* (collect.rs: "any node whose rc is 0 is a confirmed cycle").
THEOREM TrialCorrect == Spec => []TrialLeavesOutsiders
<1>. QED
  BY InvCorrect, TrialSound, PTL

\* The candidate buffer and FLAG_BUFFERED agree, through nominations in the
\* middle of a collect and cells that die while they are in it.
THEOREM BufferCorrect == Spec => []BufferSound
<1>. QED
  BY InvCorrect, BuffersSound, PTL

=============================================================================
