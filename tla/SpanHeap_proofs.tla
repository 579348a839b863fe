--------------------------- MODULE SpanHeap_proofs --------------------------
(***************************************************************************)
(* SpanHeap for every number of threads, arenas, pages and classes: no     *)
(* block is lost or in two places (BlocksConserved), the owner's lists,    *)
(* the kept budget and the page bitmaps agree with the spans' records      *)
(* (ListsAgree), what is empty goes back (EmptyGoesBack), and the heap     *)
(* implements BlockHeap: no two blocks handed out share a cell.            *)
(*                                                                         *)
(* HeapInv is the invariant behind all four. A span's record is sound by   *)
(* itself (Records); its pages are its own (Layout), so its blocks are;    *)
(* the lists name spans by their records' state (Listed, KeptList); and a  *)
(* carved block is out exactly when it is not on its span's free list      *)
(* (Homes), in one of five places (Apart). Calling says what the owner's   *)
(* call under way may leave unsettled: an empty span it has opened or is   *)
(* about to keep.                                                          *)
(***************************************************************************)
EXTENDS SpanHeap, Filtering_proofs

\* A span by its arena and first page; what a span's record, the owner's call
\* and a release under way can be.
Place == Arena \X Page
States == {"cur", "partial", "full", "kept"}
Record == [class : Class, bump : Nat, used : Nat, free : SUBSET Block,
           thread : Seq(Block), state : States]
Release == [block : Block, seen : Block \cup {none}]
Calls == [op : {"none"}] \cup [op : {"alloc"}, class : Class]
         \cup [op : {"spill"}, left : SUBSET Block] \cup [op : {"keep"}, span : Place]

Types == /\ live \subseteq Block
         /\ row \in [Small -> SUBSET Block]
         /\ cur \in [Class -> Place \cup {none}]
         /\ partial \in [Class -> SUBSET Place]
         /\ kept \in Seq(Place)
         /\ Spans \subseteq Place
         /\ metas \in [Spans -> Record]
         /\ Mapped \subseteq Arena
         /\ freePages \in [Mapped -> SUBSET Page]
         /\ advised \in [Mapped -> SUBSET Page]
         /\ arenas \subseteq Arena
         /\ spare \in Arena \cup {none}
         /\ call \in Calls
         /\ remote \in [Thread -> Release \cup {none}]

\* Slots i .. k - 1 of the span s of class c, and that span's pages.
Slotted(s, c, i, k) == {Slot(s, c, j) : j \in i .. k - 1}
PagesIn(s, c) == s[2] .. s[2] + Pages[c] - 1

\* The record m of s agrees with itself and with the blocks it has carved.
SoundRecord(s, m) ==
    LET carved == Slotted(s, m.class, 0, m.bump)
    IN  /\ m.bump <= Slots[m.class]
        /\ m.free \subseteq carved
        /\ Range(m.thread) \subseteq carved
        /\ IsInjective(m.thread)
        /\ m.used = m.bump - Cardinality(m.free)
        /\ m.state = "partial" => m.free # {}
        /\ m.state = "full" => m.free = {} /\ m.bump = Slots[m.class]
        /\ m.state = "kept" => m.used = 0

Records == \A s \in Spans : SoundRecord(s, metas[s])

\* A span with nothing out is kept, or the call under way has just opened it or
\* is about to keep it.  A refill finds the row it is for still empty.
Emptied(s) == \/ metas[s].state = "kept"
              \/ call.op = "alloc" /\ cur[call.class] = s
              \/ call.op = "keep" /\ call.span = s

Calling == /\ \A s \in Spans : metas[s].used = 0 => Emptied(s)
           /\ call.op = "keep" => /\ call.span \in Spans
                                  /\ metas[call.span].used = 0
                                  /\ metas[call.span].state = "cur"
                                  /\ Touched(call.span) <= KeptBudget
           /\ call.op = "alloc" => \A c \in Small : c = call.class => row[c] = {}

\* Pages.
Covered(a, p) == \E s \in Spans : s[1] = a /\ p \in PagesOf(s)

Layout == /\ \A s \in Spans : s[1] \in Mapped /\ PagesOf(s) \subseteq Page
          /\ \A s, x \in Spans : s # x /\ s[1] = x[1] => PagesOf(s) \cap PagesOf(x) = {}
          /\ \A a \in Mapped : \A p \in Page : p \in freePages[a] <=> ~Covered(a, p)
          /\ \A a \in Mapped : advised[a] \subseteq freePages[a]
          /\ \A a \in Mapped : freePages[a] = Page <=> a = spare
          /\ spare # none => spare \in Mapped
          /\ arenas = {a \in Mapped \ {spare} : freePages[a] # {}}

\* The owner's lists, by what a span's record says.
Listed == /\ \A c \in Class : \A s \in Place :
                s \in partial[c] <=> s \in Spans /\ metas[s].class = c
                                     /\ metas[s].state = "partial"
          /\ \A c \in Class : cur[c] # none =>
                /\ cur[c] \in Spans /\ metas[cur[c]].class = c
                /\ metas[cur[c]].state \in {"cur", "kept"}
          /\ \A s \in Spans : metas[s].state \in {"cur", "kept"} => cur[metas[s].class] = s

KeptList == /\ \A s \in Place : (\E i \in DOMAIN kept : kept[i] = s)
                                <=> s \in Spans /\ metas[s].state = "kept"
            /\ \A i, j \in DOMAIN kept : kept[i] = kept[j] => i = j
            /\ IsFiniteSet(WrittenPages)
            /\ keptPages = Cardinality(WrittenPages)
            /\ keptPages <= KeptBudget

\* Blocks.
Rows == UNION {row[c] : c \in Small}
Spilling == IF call.op = "spill" THEN call.left ELSE {}
Carried == {remote[t].block : t \in Abroad}
Out == live \cup Rows \cup Spilling \cup Carried \cup Uncollected

Apart == /\ live \cap Rows = {} /\ live \cap Spilling = {} /\ live \cap Carried = {}
         /\ live \cap Uncollected = {}
         /\ Rows \cap Spilling = {} /\ Rows \cap Carried = {} /\ Rows \cap Uncollected = {}
         /\ Spilling \cap Carried = {} /\ Spilling \cap Uncollected = {}
         /\ Carried \cap Uncollected = {}

\* Every block out is of a span, and of a span's carved blocks those out are
\* the ones not on its free list.
Homes == /\ \A b \in Out : \E s \in Spans : b \in Carved(s)
         /\ \A s \in Spans : \A b \in Carved(s) : b \in Out <=> b \notin metas[s].free

Rowed == \A c \in Small : /\ \A b \in row[c] : b.class = c
                          /\ IsFiniteSet(row[c]) /\ Cardinality(row[c]) <= SpillAt

OneEach == \A t, u \in Abroad : remote[t].block = remote[u].block => t = u

HeapInv == /\ Types /\ Records /\ Calling /\ Layout /\ Listed /\ KeptList
           /\ Apart /\ Homes /\ Rowed /\ OneEach

-----------------------------------------------------------------------------
(* Where slots lie.                                                        *)

\* Products keep an order and distribute.
LEMMA Products ==
    ASSUME NEW n \in Nat, NEW a \in Nat, NEW b \in Nat
    PROVE  /\ a * n \in Nat
           /\ a <= b => a * n <= b * n
           /\ (a + b) * n = a * n + b * n
           /\ a < b => a * n + n <= b * n
           /\ n > 0 /\ a * n = b * n => a = b
<1>1. a * n \in Nat /\ (a + b) * n = a * n + b * n
  OBVIOUS
<1>2. ASSUME a <= b PROVE a * n <= b * n
  <2>1. PICK d \in Nat : b = a + d
    <3>1. b - a \in Nat /\ b = a + (b - a)
      BY <1>2
    <3> QED
      BY <3>1
  <2>2. b * n = a * n + d * n /\ d * n \in Nat /\ a * n \in Nat
    BY <2>1
  <2> QED
    BY <2>2
<1>3. ASSUME a < b PROVE a * n + n <= b * n
  <2>1. PICK d \in Nat : b = a + 1 + d
    <3>1. b - a - 1 \in Nat /\ b = a + 1 + (b - a - 1)
      BY <1>3
    <3> QED
      BY <3>1
  <2>2. b * n = a * n + n + d * n /\ d * n \in Nat /\ a * n \in Nat
    BY <2>1
  <2> QED
    BY <2>2
<1>4. ASSUME n > 0, a * n = b * n PROVE a = b
  <2>1. CASE a < b
    BY <1>3, <1>4, <2>1, <1>1
  <2>2. CASE b < a
    <3>1. PICK d \in Nat : a = b + 1 + d
      <4>1. a - b - 1 \in Nat /\ a = b + 1 + (a - b - 1)
        BY <2>2
      <4> QED
        BY <4>1
    <3>2. a * n = b * n + n + d * n /\ d * n \in Nat /\ b * n \in Nat
      BY <3>1
    <3> QED
      BY <1>4, <3>2
  <2> QED
    BY <2>1, <2>2
<1> QED
  BY <1>1, <1>2, <1>3, <1>4

\* A quotient lies between the multiples the number lies between.
LEMMA Quotient ==
    ASSUME NEW n \in Nat \ {0}, NEW u \in Nat, NEW a \in Nat, NEW b \in Nat,
           a * n <= u, u < b * n
    PROVE  u \div n \in a .. b - 1
<1> DEFINE q == u \div n
<1>1. q \in Nat /\ q * n <= u /\ u < q * n + n
  OBVIOUS
<1> HIDE DEF q
<1>2. a <= q
  <2> SUFFICES ASSUME q < a PROVE FALSE
    BY <1>1
  <2>1. q * n + n <= a * n
    BY <1>1, Products
  <2>2. q * n \in Nat /\ a * n \in Nat
    BY <1>1, Products
  <2> QED
    BY <1>1, <2>1, <2>2
<1>3. q < b
  <2> SUFFICES ASSUME b <= q PROVE FALSE
    BY <1>1
  <2>1. b * n <= q * n
    BY <1>1, Products
  <2>2. q * n \in Nat /\ b * n \in Nat
    BY <1>1, Products
  <2> QED
    BY <1>1, <2>1, <2>2
<1>4. q \in a .. b - 1
  BY <1>1, <1>2, <1>3
<1> QED
  BY <1>4 DEF q

\* What a class's geometry is.
LEMMA Geometry ==
    ASSUME NEW c \in Class
    PROVE  /\ PageUnits \in Nat \ {0} /\ ArenaPages \in Nat
           /\ Size[c] \in Nat \ {0} /\ Slots[c] \in Nat \ {0}
           /\ Pages[c] \in Nat \ {0} /\ Pages[c] <= ArenaPages
           /\ Slots[c] * Size[c] <= Pages[c] * PageUnits
  BY GeometryAssumption

\* Slot i of a span lies in the span's pages, whole.
LEMMA SlotUnit ==
    ASSUME NEW c \in Class, NEW p \in Nat, NEW i \in Nat, i < Slots[c]
    PROVE  LET u == p * PageUnits + i * Size[c]
           IN  /\ u \in Nat
               /\ p * PageUnits <= u
               /\ u + Size[c] <= (p + Pages[c]) * PageUnits
               /\ u \div PageUnits \in p .. p + Pages[c] - 1
<1> DEFINE P == PageUnits
           z == Size[c]
           k == Slots[c]
           g == Pages[c]
           w == p * P
           h == i * z
           u == w + h
<1>1. P \in Nat \ {0} /\ z \in Nat \ {0} /\ k \in Nat /\ g \in Nat \ {0} /\ k * z <= g * P
  BY Geometry
<1>a. i < k
  OBVIOUS
<1> HIDE DEF P, z, k, g
<1>2. w \in Nat /\ h \in Nat /\ k * z \in Nat /\ g * P \in Nat
  BY <1>1, Products
<1>3. h + z <= k * z
  BY <1>1, <1>a, Products
<1>4. (p + g) * P = w + g * P
  BY <1>1, Products
<1>5. u \in Nat /\ w <= u /\ u + z <= (p + g) * P
  <2> DEFINE e == k * z
             f == g * P
             d == (p + g) * P
  <2>1. e \in Nat /\ f \in Nat /\ e <= f /\ h + z <= e /\ d = w + f
    BY <1>1, <1>2, <1>3, <1>4
  <2> HIDE DEF e, f, d, w, h
  <2>2. u \in Nat /\ w <= u /\ u + z <= d
    BY <1>1, <1>2, <2>1
  <2> QED
    BY <2>2 DEF d
<1>6. u < (p + g) * P
  <2> DEFINE d == (p + g) * P
  <2>1. u + z <= d /\ u \in Nat /\ d \in Nat
    <3>1. p + g \in Nat
      BY <1>1
    <3> QED
      BY <1>1, <1>5, <3>1, Products
  <2> HIDE DEF d, u
  <2>2. u < d
    BY <1>1, <2>1
  <2> QED
    BY <2>2 DEF d
<1>7. u \div P \in p .. p + g - 1
  <2>1. p + g \in Nat /\ p * P <= u /\ u \in Nat
    BY <1>1, <1>5
  <2> HIDE DEF u, w
  <2> QED
    BY <1>1, <1>6, <2>1, Quotient
<1> QED
  BY <1>5, <1>7 DEF P, z, g

\* So it is a block, found by the page its first unit is in.
LEMMA SlotPlace ==
    ASSUME NEW s \in Place, NEW c \in Class, NEW i \in Nat, i < Slots[c],
           PagesIn(s, c) \subseteq Page
    PROVE  /\ Slot(s, c, i) \in Block
           /\ Slot(s, c, i).arena = s[1]
           /\ Slot(s, c, i).class = c
           /\ 1 + Slot(s, c, i).unit \div PageUnits \in PagesIn(s, c)
<1> DEFINE p == s[2] - 1
           u == p * PageUnits + i * Size[c]
           g == Pages[c]
<1>1. s[1] \in Arena /\ s[2] \in Page /\ p \in Nat /\ s[2] = p + 1 /\ ArenaPages \in Nat
  BY Geometry DEF Place, Page
<1>2. g \in Nat \ {0} /\ PageUnits \in Nat \ {0}
  BY Geometry
<1>3. /\ u \in Nat /\ u + Size[c] <= (p + g) * PageUnits
      /\ u \div PageUnits \in p .. p + g - 1
  BY <1>1, SlotUnit
<1>4. p + g <= ArenaPages
  <2>1. s[2] + g - 1 \in PagesIn(s, c)
    BY <1>1, <1>2 DEF PagesIn
  <2>2. s[2] + g - 1 \in 1 .. ArenaPages
    BY <2>1 DEF Page
  <2> HIDE DEF p, g
  <2> QED
    BY <1>1, <1>2, <2>2
<1>5. (p + g) * PageUnits <= ArenaPages * PageUnits
  <2>1. p + g \in Nat
    BY <1>1, <1>2
  <2> QED
    BY <1>1, <1>2, <1>4, <2>1, Products
<1>6. u \in Unit
  <2> DEFINE d == (p + g) * PageUnits
             e == ArenaPages * PageUnits
             z == Size[c]
  <2>1. d \in Nat /\ e \in Nat /\ z \in Nat \ {0} /\ d <= e /\ u + z <= d /\ u \in Nat
    <3>1. p + g \in Nat
      BY <1>1, <1>2
    <3> QED
      BY <1>1, <1>2, <1>3, <1>5, <3>1, Products, Geometry
  <2> HIDE DEF d, z, u, e
  <2>2. u \in 0 .. e - 1
    BY <2>1
  <2> QED
    BY <2>2 DEF Unit, e
<1>7. Slot(s, c, i) = [arena |-> s[1], unit |-> u, class |-> c]
  BY DEF Slot
<1>8. 1 + u \div PageUnits \in PagesIn(s, c)
  <2> DEFINE q == u \div PageUnits
  <2>1. q \in p .. p + g - 1
    BY <1>3
  <2> HIDE DEF q, p, g
  <2>2. 1 + q \in s[2] .. s[2] + g - 1
    BY <1>1, <1>2, <2>1
  <2> QED
    BY <2>2 DEF q, g, PagesIn
<1> HIDE DEF u
<1> QED
  BY <1>1, <1>6, <1>7, <1>8 DEF Block

\* Slots of different numbers are different.
LEMMA SlotInjective ==
    ASSUME NEW s \in Place, NEW c \in Class, NEW i \in Nat, NEW j \in Nat,
           Slot(s, c, i) = Slot(s, c, j)
    PROVE  i = j
<1> DEFINE w == (s[2] - 1) * PageUnits
           h == i * Size[c]
           k == j * Size[c]
<1>1. w \in Int /\ h \in Nat /\ k \in Nat /\ Size[c] \in Nat \ {0}
  <2>1. Size[c] \in Nat \ {0} /\ PageUnits \in Nat \ {0}
    BY Geometry
  <2>2. s[2] - 1 \in Nat
    BY Geometry DEF Place, Page
  <2> QED
    BY <2>1, <2>2, Products
<1>2. w + h = w + k
  BY DEF Slot
<1>3. h = k
  <2> HIDE DEF w, h, k
  <2> QED
    BY <1>1, <1>2
<1> QED
  BY <1>1, <1>3, Products

\* The slots from i up to k are k - i.
LEMMA SlottedCount ==
    ASSUME NEW s \in Place, NEW c \in Class, NEW i \in Nat, NEW k \in Nat, i <= k
    PROVE  /\ IsFiniteSet(Slotted(s, c, i, k))
           /\ Cardinality(Slotted(s, c, i, k)) = k - i
<1> DEFINE D == i .. k - 1
           f == [j \in D |-> Slot(s, c, j)]
<1>1. IsFiniteSet(D) /\ Cardinality(D) = k - i
  <2> DEFINE e == k - 1
  <2>1. e \in Int /\ i \in Int /\ (i > e <=> i = k) /\ e - i + 1 = k - i
    OBVIOUS
  <2> HIDE DEF e
  <2>2. IsFiniteSet(i .. e) /\ Cardinality(i .. e) = IF i > e THEN 0 ELSE e - i + 1
    BY <2>1, FS_Interval
  <2>3. Cardinality(i .. e) = k - i
    BY <2>1, <2>2
  <2> QED
    BY <2>2, <2>3 DEF e
<1>2. D \subseteq Nat
  OBVIOUS
<1>3. f \in Bijection(D, Slotted(s, c, i, k))
  <2>1. f \in [D -> Slotted(s, c, i, k)]
    BY DEF Slotted
  <2>2. \A a, b \in DOMAIN f : f[a] = f[b] => a = b
    BY <1>2, SlotInjective
  <2>3. \A t \in Slotted(s, c, i, k) : \E a \in D : f[a] = t
    BY DEF Slotted
  <2> QED
    BY <2>1, <2>2, <2>3 DEF Bijection, Injection, Surjection, IsInjective
<1>4. ExistsBijection(D, Slotted(s, c, i, k))
  BY <1>3 DEF ExistsBijection
<1> HIDE DEF D
<1> QED
  BY <1>1, <1>4, FS_Bijection

-----------------------------------------------------------------------------
(* What the invariant says of one span.                                    *)

\* A span's record, field by field.
LEMMA RecordFields ==
    ASSUME NEW m \in Record
    PROVE  /\ m.class \in Class /\ m.bump \in Nat /\ m.used \in Nat
           /\ m.free \subseteq Block /\ m.thread \in Seq(Block) /\ m.state \in States
  BY DEF Record

\* The span the page map or a list names has a record of a class of the heap.
LEMMA SpanTyped ==
    ASSUME Types, NEW s \in Spans
    PROVE  s \in Place /\ metas[s] \in Record /\ metas[s].class \in Class
  BY DEF Types, Record

\* Slots of one place are blocks of its arena, its class and its pages, and
\* counted by their numbers.
LEMMA SlottedPlace ==
    ASSUME NEW s \in Place, NEW c \in Class, PagesIn(s, c) \subseteq Page,
           NEW n \in Nat, n <= Slots[c]
    PROVE  /\ IsFiniteSet(Slotted(s, c, 0, n))
           /\ Cardinality(Slotted(s, c, 0, n)) = n
           /\ \A b \in Slotted(s, c, 0, n) :
                 /\ b \in Block /\ b.arena = s[1] /\ b.class = c
                 /\ 1 + b.unit \div PageUnits \in PagesIn(s, c)
<1>1. IsFiniteSet(Slotted(s, c, 0, n)) /\ Cardinality(Slotted(s, c, 0, n)) = n
  <2>1. Cardinality(Slotted(s, c, 0, n)) = n - 0 /\ IsFiniteSet(Slotted(s, c, 0, n))
    BY SlottedCount
  <2> QED
    BY <2>1
<1>2. ASSUME NEW b \in Slotted(s, c, 0, n)
      PROVE  /\ b \in Block /\ b.arena = s[1] /\ b.class = c
             /\ 1 + b.unit \div PageUnits \in PagesIn(s, c)
  <2>1. PICK i \in 0 .. n - 1 : b = Slot(s, c, i)
    BY DEF Slotted
  <2>2. i \in Nat /\ i < Slots[c]
    BY <2>1, Geometry
  <2> QED
    BY <2>1, <2>2, SlotPlace
<1> QED
  BY <1>1, <1>2

\* Slots of places that share no page are apart.
LEMMA SlottedApart ==
    ASSUME NEW s \in Place, NEW c \in Class, PagesIn(s, c) \subseteq Page,
           NEW n \in Nat, n <= Slots[c],
           NEW x \in Place, NEW d \in Class, PagesIn(x, d) \subseteq Page,
           NEW k \in Nat, k <= Slots[d],
           s[1] = x[1] => PagesIn(s, c) \cap PagesIn(x, d) = {}
    PROVE  Slotted(s, c, 0, n) \cap Slotted(x, d, 0, k) = {}
<1> SUFFICES ASSUME NEW b \in Slotted(s, c, 0, n), b \in Slotted(x, d, 0, k)
             PROVE  FALSE
  OBVIOUS
<1>1. b.arena = s[1] /\ 1 + b.unit \div PageUnits \in PagesIn(s, c)
  BY SlottedPlace
<1>2. b.arena = x[1] /\ 1 + b.unit \div PageUnits \in PagesIn(x, d)
  BY SlottedPlace
<1> QED
  BY <1>1, <1>2

\* What a span has carved is those slots.
LEMMA CarvedSlots ==
    \A s : /\ Carved(s) = Slotted(s, metas[s].class, 0, metas[s].bump)
           /\ PagesOf(s) = PagesIn(s, metas[s].class)
  BY DEF Carved, SlotsFrom, Slotted, PagesOf, PagesIn

\* A span's carved blocks: of its class, its arena and its pages, bump of them.
LEMMA CarvedFacts ==
    ASSUME Types, Records, Layout, NEW s \in Spans
    PROVE  /\ IsFiniteSet(Carved(s)) /\ Cardinality(Carved(s)) = metas[s].bump
           /\ Carved(s) \subseteq Block
           /\ \A b \in Carved(s) : /\ b.arena = s[1] /\ b.class = metas[s].class
                                   /\ 1 + b.unit \div PageUnits \in PagesOf(s)
<1>1. s \in Place /\ metas[s].class \in Class /\ metas[s].bump \in Nat
  BY SpanTyped, RecordFields
<1>2. metas[s].bump <= Slots[metas[s].class]
  BY DEF Records, SoundRecord
<1>3. PagesIn(s, metas[s].class) \subseteq Page
  BY CarvedSlots DEF Layout
<1> QED
  BY <1>1, <1>2, <1>3, SlottedPlace, CarvedSlots

\* A carved block is in one span, and SpanOf, the page map, finds it.
LEMMA HomeFound ==
    ASSUME Types, Records, Layout, NEW s \in Spans, NEW b \in Carved(s)
    PROVE  /\ SpanOf(b) = s
           /\ \A x \in Spans : b \in Carved(x) => x = s
<1>1. s[1] = b.arena /\ 1 + b.unit \div PageUnits \in PagesOf(s)
  BY CarvedFacts
<1>2. ASSUME NEW x \in Spans, x[1] = b.arena, 1 + b.unit \div PageUnits \in PagesOf(x)
      PROVE  x = s
  BY <1>1, <1>2 DEF Layout
<1>3. SpanOf(b) = s
  BY <1>1, <1>2 DEF SpanOf
<1>4. \A x \in Spans : b \in Carved(x) => x = s
  BY <1>2, CarvedFacts
<1> QED
  BY <1>3, <1>4

-----------------------------------------------------------------------------
(* What leaves a part of the invariant as it was.                          *)

\* No span comes or goes and no bitmap is written: the pages stay as they are.
LEMMA LayoutKept ==
    ASSUME Layout, Spans' = Spans,
           \A s \in Spans : metas'[s].class = metas[s].class,
           UNCHANGED <<freePages, advised, arenas, spare>>
    PROVE  Layout'
<1>1. \A s \in Spans : PagesOf(s)' = PagesOf(s)
  BY DEF PagesOf
<1>2. \A a, p : Covered(a, p)' <=> Covered(a, p)
  BY <1>1 DEF Covered
<1>3. Mapped' = Mapped
  BY DEF Mapped
<1> QED
  BY <1>1, <1>2, <1>3 DEF Layout

\* No record changes class or state and the heap's list heads stay: the lists agree.
LEMMA ListedKept ==
    ASSUME Listed, Spans' = Spans,
           \A s \in Spans : /\ metas'[s].class = metas[s].class
                            /\ metas'[s].state = metas[s].state,
           UNCHANGED <<partial, cur>>
    PROVE  Listed'
  BY DEF Listed

\* The kept spans and what they have written stay: the kept list and its count agree.
LEMMA KeptListKept ==
    ASSUME Types, KeptList, UNCHANGED <<kept, keptPages>>,
           \A s \in Place : /\ s \in Spans /\ metas[s].state = "kept"
                               <=> s \in Spans' /\ metas'[s].state = "kept"
                            /\ s \in Spans /\ metas[s].state = "kept" =>
                                  /\ metas'[s].class = metas[s].class
                                  /\ metas'[s].bump = metas[s].bump
    PROVE  KeptList'
<1>1. \A s \in Range(kept) : s \in Place /\ s \in Spans /\ metas[s].state = "kept"
  BY DEF Types, KeptList, Range
<1>2. \A s \in Range(kept) : Touched(s)' = Touched(s)
  BY <1>1 DEF Touched
<1>3. WrittenPages' = WrittenPages
  BY <1>2 DEF WrittenPages
<1> QED
  BY <1>3 DEF KeptList

\* The blocks out are the same, and so are the spans' free lists.
LEMMA HomesKept ==
    ASSUME Homes, Out' = Out, Spans' = Spans,
           \A s \in Spans : /\ metas'[s].class = metas[s].class
                            /\ metas'[s].bump = metas[s].bump
                            /\ metas'[s].free = metas[s].free
    PROVE  Homes'
<1>1. \A s \in Spans : Carved(s)' = Carved(s)
  BY DEF Carved, SlotsFrom
<1> QED
  BY <1>1 DEF Homes

\* Blocks of one span go out or come back, and others stay where they are.
LEMMA HomesChanged ==
    ASSUME Types, Records, Layout, Homes, NEW s \in Spans, Spans' = Spans,
           \A x \in Spans \ {s} : metas'[x] = metas[x],
           metas'[s].class = metas[s].class,
           metas'[s].bump \in Nat,
           metas[s].bump <= metas'[s].bump, metas'[s].bump <= Slots[metas[s].class],
           \A b \in Slotted(s, metas[s].class, 0, metas'[s].bump) :
              b \in Out' <=> b \notin metas'[s].free,
           \A b : b \notin Slotted(s, metas[s].class, 0, metas'[s].bump) =>
              (b \in Out' <=> b \in Out)
    PROVE  Homes'
<1> DEFINE K == Slotted(s, metas[s].class, 0, metas'[s].bump)
<1>1. Carved(s)' = K
  BY DEF Carved, SlotsFrom, Slotted
<1>2. \A x \in Spans \ {s} : Carved(x)' = Carved(x)
  BY DEF Carved, SlotsFrom
<1>3. Carved(s) \subseteq K
  <2>1. metas[s].bump \in Nat
    BY SpanTyped, RecordFields
  <2> QED
    BY <2>1 DEF Carved, SlotsFrom, Slotted
<1>4. ASSUME NEW x \in Spans \ {s} PROVE Carved(x) \cap K = {}
  <2>1. /\ s \in Place /\ metas[s].class \in Class
        /\ x \in Place /\ metas[x].class \in Class /\ metas[x].bump \in Nat
    BY SpanTyped, RecordFields
  <2>2. metas[x].bump <= Slots[metas[x].class]
    BY DEF Records, SoundRecord
  <2>3. /\ PagesIn(s, metas[s].class) \subseteq Page
        /\ PagesIn(x, metas[x].class) \subseteq Page
        /\ x[1] = s[1] => PagesIn(x, metas[x].class) \cap PagesIn(s, metas[s].class) = {}
    BY CarvedSlots DEF Layout
  <2>4. Slotted(x, metas[x].class, 0, metas[x].bump) \cap K = {}
    BY <2>1, <2>2, <2>3, SlottedApart
  <2> QED
    BY <2>4, CarvedSlots
<1>5. \A b \in K : b \in Out' <=> b \notin metas'[s].free
  OBVIOUS
<1>6. \A b : b \notin K => (b \in Out' <=> b \in Out)
  OBVIOUS
<1> HIDE DEF K
<1>7. \A b \in Out' : \E x \in Spans : b \in Carved(x)'
  <2> SUFFICES ASSUME NEW b \in Out' PROVE \E x \in Spans : b \in Carved(x)'
    OBVIOUS
  <2>1. CASE b \in K
    BY <1>1, <2>1
  <2>2. CASE b \notin K
    <3>1. PICK x \in Spans : b \in Carved(x)
      BY <1>6, <2>2 DEF Homes
    <3>2. x # s
      BY <1>3, <2>2, <3>1
    <3> QED
      BY <1>2, <3>1, <3>2
  <2> QED
    BY <2>1, <2>2
<1>8. ASSUME NEW x \in Spans, NEW b \in Carved(x)'
      PROVE  b \in Out' <=> b \notin metas'[x].free
  <2>1. CASE x = s
    BY <1>1, <1>5, <1>8, <2>1
  <2>2. CASE x # s
    <3>1. b \in Carved(x) /\ b \notin K
      BY <1>2, <1>4, <1>8, <2>2
    <3> QED
      BY <1>6, <2>2, <3>1 DEF Homes
  <2> QED
    BY <2>1, <2>2
<1> QED
  BY <1>7, <1>8 DEF Homes

\* A span goes with all the blocks it had out, or comes with none.
LEMMA HomesRemoved ==
    ASSUME Types, Records, Layout, Homes, NEW s \in Spans, Spans' = Spans \ {s},
           \A x \in Spans \ {s} : metas'[x] = metas[x],
           \A b : b \in Out' <=> b \in Out /\ b \notin Carved(s)
    PROVE  Homes'
<1>1. \A x \in Spans \ {s} : Carved(x)' = Carved(x)
  BY DEF Carved, SlotsFrom
<1>2. \A x \in Spans \ {s} : Carved(x) \cap Carved(s) = {}
  BY HomeFound
<1> QED
  BY <1>1, <1>2 DEF Homes

\* A span that open_span has just carved has no block yet.
LEMMA HomesAdded ==
    ASSUME Homes, NEW s, Spans' = Spans \cup {s}, s \notin Spans,
           \A x \in Spans : metas'[x] = metas[x], metas'[s].bump = 0, Out' = Out
    PROVE  Homes'
<1>1. \A x \in Spans : Carved(x)' = Carved(x)
  BY DEF Carved, SlotsFrom
<1>2. Carved(s)' = {}
  BY DEF Carved, SlotsFrom
<1> QED
  BY <1>1, <1>2 DEF Homes

\* One row changes, within its class and the room it has.
LEMMA RowPut ==
    ASSUME Types, Rowed, NEW c \in Small, NEW R \in SUBSET Block,
           \A b \in R : b.class = c, IsFiniteSet(R), Cardinality(R) <= SpillAt,
           row' = [row EXCEPT ![c] = R]
    PROVE  /\ Rowed'
           /\ Rows' = (Rows \ row[c]) \cup R
           /\ row' \in [Small -> SUBSET Block]
<1>1. row \in [Small -> SUBSET Block]
  BY DEF Types
<1>2. row'[c] = R /\ \A d \in Small \ {c} : row'[d] = row[d]
  BY <1>1
<1>3. Rowed'
  BY <1>2 DEF Rowed
<1>4. Rows' = (Rows \ row[c]) \cup R
  <2>1. \A b : b \in Rows <=> \E d \in Small : b \in row[d]
    BY DEF Rows
  <2>2. \A b : b \in Rows' <=> \E d \in Small : b \in row'[d]
    BY DEF Rows
  <2>3. \A d \in Small \ {c} : row[d] \cap row[c] = {}
    BY DEF Rowed
  <2> QED
    BY <1>2, <2>1, <2>2, <2>3
<1> QED
  BY <1>1, <1>3, <1>4

-----------------------------------------------------------------------------
(* Steps that leave the spans alone.                                       *)

\* Where no span changes, what is said of spans and lists holds on.
LEMMA SpansKept ==
    ASSUME HeapInv, UNCHANGED <<cur, partial, kept, keptPages, metas, freePages, advised,
                                arenas, spare>>
    PROVE  /\ Spans' = Spans /\ Mapped' = Mapped /\ Uncollected' = Uncollected
           /\ Records' /\ Layout' /\ Listed' /\ KeptList'
<1> USE DEF HeapInv
<1>1. Spans' = Spans /\ Mapped' = Mapped
  BY DEF Spans, Mapped
<1>2. Uncollected' = Uncollected
  BY <1>1 DEF Uncollected
<1>3. Records'
  BY <1>1 DEF Records
<1>4. Layout'
  BY <1>1, LayoutKept
<1>5. Listed'
  BY <1>1, ListedKept
<1>6. KeptList'
  BY <1>1, KeptListKept
<1> QED
  BY <1>1, <1>2, <1>3, <1>4, <1>5, <1>6

\* The state variables' types, where only calls, rows and blocks change.
LEMMA TypesKept ==
    ASSUME Types, UNCHANGED <<cur, partial, kept, keptPages, metas, freePages, advised,
                              arenas, spare>>,
           live' \subseteq Block, row' \in [Small -> SUBSET Block],
           call' \in Calls, remote' \in [Thread -> Release \cup {none}]
    PROVE  Types'
  BY DEF Types, Spans, Mapped

\* A block of a row is handed out: what was in the row is with the program.
LEMMA PopRowKeeps ==
    ASSUME HeapInv, NEW c \in Small, PopRow(c)
    PROVE  HeapInv'
<1> USE DEF HeapInv
<1>1. PICK b \in row[c] : /\ row' = [row EXCEPT ![c] = @ \ {b}]
                          /\ live' = live \cup {b}
  BY DEF PopRow
<1>2. /\ UNCHANGED <<cur, partial, kept, keptPages, metas, freePages, advised, arenas, spare>>
      /\ UNCHANGED <<call, remote>>
  BY DEF PopRow
<1>3. row[c] \in SUBSET Block /\ b \in Block
  BY DEF Types
<1> DEFINE R == row[c] \ {b}
<1>4. /\ R \in SUBSET Block /\ \A x \in R : x.class = c
      /\ IsFiniteSet(R) /\ Cardinality(R) <= SpillAt
  <2>1. IsFiniteSet(row[c]) /\ Cardinality(row[c]) <= SpillAt
    BY DEF Rowed
  <2>2. IsFiniteSet(R) /\ Cardinality(R) = Cardinality(row[c]) - 1
    BY <2>1, FS_RemoveElement
  <2>3. Cardinality(row[c]) \in Nat /\ SpillAt \in Nat
    BY <2>1, FS_CardinalityType, LimitsAssumption
  <2> QED
    BY <1>3, <2>1, <2>2, <2>3 DEF Rowed
<1>5. row' = [row EXCEPT ![c] = R]
  BY <1>1
<1>6. Rowed' /\ Rows' = (Rows \ row[c]) \cup R /\ row' \in [Small -> SUBSET Block]
  <2> HIDE DEF R
  <2> QED
    BY <1>4, <1>5, RowPut
<1>7. b \in Rows /\ Rows' = Rows \ {b}
  <2>1. row[c] \subseteq Rows
    BY DEF Rows
  <2> QED
    BY <1>6, <2>1
<1>8. /\ Spans' = Spans /\ Uncollected' = Uncollected
      /\ Records' /\ Layout' /\ Listed' /\ KeptList'
  BY <1>2, SpansKept
<1>9. Spilling' = Spilling /\ Carried' = Carried /\ Abroad' = Abroad
  BY <1>2 DEF Spilling, Carried, Abroad
<1>10. Apart'
  BY <1>1, <1>7, <1>8, <1>9 DEF Apart
<1>11. Out' = Out
  BY <1>1, <1>7, <1>8, <1>9 DEF Out
<1>12. Homes'
  BY <1>2, <1>8, <1>11, HomesKept
<1>13. Types'
  <2>1. live' \subseteq Block
    BY <1>1, <1>3 DEF Types
  <2> QED
    BY <1>2, <1>6, <2>1, TypesKept DEF Types
<1>14. Calling'
  <2>1. call.op = "none"
    BY DEF PopRow, MayAlloc, Idle
  <2> QED
    BY <1>2, <1>8, <2>1 DEF Calling, Emptied
<1>15. OneEach'
  BY <1>2, <1>9 DEF OneEach
<1> QED
  BY <1>6, <1>8, <1>10, <1>12, <1>13, <1>14, <1>15

\* A call begins: no span is empty on its account yet.
LEMMA CallKeeps ==
    ASSUME HeapInv, NEW c \in Class, Call(c)
    PROVE  HeapInv'
<1> USE DEF HeapInv
<1>1. /\ call = Idle /\ call' = [op |-> "alloc", class |-> c]
      /\ UNCHANGED <<live, row, remote>>
      /\ UNCHANGED <<cur, partial, kept, keptPages, metas, freePages, advised, arenas, spare>>
  BY DEF Call, MayAlloc, heap
<1>2. call.op = "none" /\ call'.op = "alloc" /\ call'.class = c
  BY <1>1 DEF Idle
<1>3. /\ Spans' = Spans /\ Uncollected' = Uncollected
      /\ Records' /\ Layout' /\ Listed' /\ KeptList'
  BY <1>1, SpansKept
<1>4. Spilling' = Spilling /\ Carried' = Carried /\ Abroad' = Abroad /\ Rows' = Rows
  BY <1>1, <1>2 DEF Spilling, Carried, Abroad, Rows
<1>5. Out' = Out
  BY <1>1, <1>3, <1>4 DEF Out
<1>6. Types'
  <2>1. call' \in Calls
    BY <1>1 DEF Calls
  <2> QED
    BY <1>1, <2>1, TypesKept DEF Types
<1>7. Calling'
  <2>1. c \in Small => row[c] = {}
    BY DEF Call
  <2>2. \A s \in Spans : metas[s].used = 0 => metas[s].state = "kept"
    BY <1>2 DEF Calling, Emptied
  <2>3. \A s \in Spans' : metas'[s].used = 0 => Emptied(s)'
    BY <1>1, <1>3, <2>2 DEF Emptied
  <2>4. \A d \in Small : d = call'.class => row'[d] = {}
    BY <1>1, <1>2, <2>1
  <2> QED
    BY <1>2, <2>3, <2>4 DEF Calling
<1>8. Homes'
  BY <1>1, <1>3, <1>5, HomesKept
<1>9. Apart' /\ Rowed' /\ OneEach'
  BY <1>1, <1>3, <1>4 DEF Apart, Rowed, OneEach
<1> QED
  BY <1>3, <1>6, <1>7, <1>8, <1>9

\* A release into a row with room, or that starts a spill: the block and the
\* newest half are the call's.
LEMMA FreeSmallKeeps ==
    ASSUME HeapInv, NEW b, FreeSmall(b)
    PROVE  HeapInv'
<1> USE DEF HeapInv
<1> DEFINE c == b.class
           r == row[c]
<1>1. /\ call = Idle /\ b \in live /\ c \in Small /\ live' = live \ {b}
      /\ UNCHANGED remote
      /\ UNCHANGED <<cur, partial, kept, keptPages, metas, freePages, advised, arenas, spare>>
  BY DEF FreeSmall
<1>2. /\ Spans' = Spans /\ Uncollected' = Uncollected
      /\ Records' /\ Layout' /\ Listed' /\ KeptList'
  BY <1>1, SpansKept
<1>3. Carried' = Carried /\ Abroad' = Abroad
  BY <1>1 DEF Carried, Abroad
<1>4. /\ b \in Block /\ r \in SUBSET Block /\ r \subseteq Rows
      /\ IsFiniteSet(r) /\ Cardinality(r) <= SpillAt /\ \A x \in r : x.class = c
      /\ b \notin r /\ b \notin Rows
  BY <1>1 DEF Types, Rows, Rowed, Apart
<1>5. Cardinality(r) \in Nat /\ SpillAt \in Nat
  BY <1>4, FS_CardinalityType, LimitsAssumption
<1>6. Spilling = {} /\ call.op = "none"
  BY <1>1 DEF Spilling, Idle
<1>7. \/ /\ Cardinality(r) < SpillAt
         /\ row' = [row EXCEPT ![c] = @ \cup {b}]
         /\ call' = call
      \/ \E newest \in SUBSET r :
            /\ row' = [row EXCEPT ![c] = @ \ newest]
            /\ call' = [op |-> "spill", left |-> {b} \cup newest]
  BY DEF FreeSmall, kSubset
<1>8. Rowed' /\ row' \in [Small -> SUBSET Block] /\ Apart' /\ Out' = Out
      /\ call' \in Calls /\ call'.op \in {"none", "spill"}
  <2>1. CASE /\ Cardinality(r) < SpillAt
             /\ row' = [row EXCEPT ![c] = @ \cup {b}]
             /\ call' = call
    <3> DEFINE R == r \cup {b}
    <3>1. /\ R \in SUBSET Block /\ \A x \in R : x.class = c
          /\ IsFiniteSet(R) /\ Cardinality(R) <= SpillAt
      <4>1. IsFiniteSet(R) /\ Cardinality(R) = Cardinality(r) + 1
        BY <1>4, FS_AddElement
      <4> QED
        BY <1>4, <1>5, <2>1, <4>1
    <3>2. row' = [row EXCEPT ![c] = R]
      BY <2>1
    <3>3. Rowed' /\ Rows' = (Rows \ r) \cup R /\ row' \in [Small -> SUBSET Block]
      <4> HIDE DEF R, c
      <4> QED
        BY <1>1, <3>1, <3>2, RowPut
    <3>4. Rows' = Rows \cup {b}
      BY <1>4, <3>3
    <3>5. Spilling' = {} /\ call'.op = "none" /\ call' \in Calls
      BY <1>6, <2>1 DEF Spilling, Types
    <3> HIDE DEF R, c, r
    <3> QED
      BY <1>1, <1>2, <1>3, <1>6, <3>3, <3>4, <3>5 DEF Apart, Out
  <2>2. ASSUME NEW newest \in SUBSET r,
               row' = [row EXCEPT ![c] = @ \ newest],
               call' = [op |-> "spill", left |-> {b} \cup newest]
        PROVE  Rowed' /\ row' \in [Small -> SUBSET Block] /\ Apart' /\ Out' = Out
               /\ call' \in Calls /\ call'.op \in {"none", "spill"}
    <3> DEFINE R == r \ newest
    <3>1. /\ R \in SUBSET Block /\ \A x \in R : x.class = c
          /\ IsFiniteSet(R) /\ Cardinality(R) <= SpillAt
      <4>1. R \in SUBSET r
        OBVIOUS
      <4>2. IsFiniteSet(R) /\ Cardinality(R) <= Cardinality(r)
        BY <1>4, <4>1, FS_Subset
      <4>3. Cardinality(R) \in Nat
        BY <4>2, FS_CardinalityType
      <4> QED
        BY <1>4, <1>5, <4>1, <4>2, <4>3
    <3>2. row' = [row EXCEPT ![c] = R]
      BY <2>2
    <3>3. Rowed' /\ Rows' = (Rows \ r) \cup R /\ row' \in [Small -> SUBSET Block]
      <4> HIDE DEF R, c
      <4> QED
        BY <1>1, <3>1, <3>2, RowPut
    <3>4. Rows' = Rows \ newest /\ newest \subseteq Rows
      BY <1>4, <3>3
    <3>5. Spilling' = {b} \cup newest /\ call'.op = "spill" /\ call' \in Calls
      <4>1. call'.op = "spill" /\ call'.left = {b} \cup newest
        BY <2>2
      <4>2. {b} \cup newest \in SUBSET Block
        BY <1>4
      <4>3. call' \in [op : {"spill"}, left : SUBSET Block]
        BY <2>2, <4>2
      <4> QED
        BY <4>1, <4>3 DEF Spilling, Calls
    <3> HIDE DEF R, c, r
    <3> QED
      BY <1>1, <1>2, <1>3, <1>4, <1>6, <3>3, <3>4, <3>5 DEF Apart, Out
  <2> QED
    BY <1>7, <2>1, <2>2
<1>9. Homes'
  BY <1>1, <1>2, <1>8, HomesKept
<1>10. Types'
  <2>1. live' \subseteq Block /\ remote' \in [Thread -> Release \cup {none}]
    BY <1>1 DEF Types
  <2> QED
    BY <1>1, <1>8, <2>1, TypesKept
<1>11. Calling'
  <2>1. \A s \in Spans : metas[s].used = 0 => metas[s].state = "kept"
    BY <1>6 DEF Calling, Emptied
  <2> QED
    BY <1>1, <1>2, <1>8, <2>1 DEF Calling, Emptied
<1>12. OneEach'
  BY <1>1, <1>3 DEF OneEach
<1> QED
  BY <1>2, <1>8, <1>9, <1>10, <1>11, <1>12

\* Another thread takes a block from the program and reads the head of its
\* span's list.
LEMMA FreeRemoteKeeps ==
    ASSUME HeapInv, NEW t \in Thread, NEW b, FreeRemote(t, b)
    PROVE  HeapInv'
<1> USE DEF HeapInv
<1> DEFINE q == [block |-> b, seen |-> HeadOf(SpanOf(b))]
<1>1. /\ remote[t] = none /\ b \in live /\ live' = live \ {b}
      /\ remote' = [remote EXCEPT ![t] = q]
      /\ UNCHANGED <<row, call>>
      /\ UNCHANGED <<cur, partial, kept, keptPages, metas, freePages, advised, arenas, spare>>
  BY DEF FreeRemote, heap
<1>2. /\ Spans' = Spans /\ Uncollected' = Uncollected
      /\ Records' /\ Layout' /\ Listed' /\ KeptList'
  BY <1>1, SpansKept
<1>3. Spilling' = Spilling /\ Rows' = Rows
  BY <1>1 DEF Spilling, Rows
<1>4. q \in Release /\ b \in Block
  <2>1. b \in Block /\ b \in Out
    BY <1>1 DEF Types, Out
  <2>2. PICK s \in Spans : b \in Carved(s)
    BY <2>1 DEF Homes
  <2>3. SpanOf(b) = s
    BY <2>2, HomeFound
  <2>4. HeadOf(s) \in Block \cup {none}
    <3>1. metas[s].thread \in Seq(Block)
      BY SpanTyped, RecordFields
    <3> QED
      BY <3>1 DEF HeadOf
  <2> QED
    BY <2>1, <2>3, <2>4 DEF Release
<1>5. q # none
  BY <1>4, NoneAssumption DEF Release
<1>6. q.block = b
  OBVIOUS
<1> HIDE DEF q
<1>7. remote'[t] = q /\ \A u \in Thread \ {t} : remote'[u] = remote[u]
  BY <1>1 DEF Types
<1>8. Abroad' = Abroad \cup {t} /\ t \notin Abroad
  BY <1>1, <1>5, <1>7 DEF Abroad
<1>9. Carried' = Carried \cup {b}
  BY <1>6, <1>7, <1>8 DEF Carried, Abroad
<1>10. Apart'
  BY <1>1, <1>2, <1>3, <1>9 DEF Apart
<1>11. Out' = Out
  BY <1>1, <1>2, <1>3, <1>9 DEF Out
<1>12. Homes'
  BY <1>1, <1>2, <1>11, HomesKept
<1>13. Types'
  <2>1. live' \subseteq Block /\ remote' \in [Thread -> Release \cup {none}]
    BY <1>1, <1>4 DEF Types
  <2> QED
    BY <1>1, <2>1, TypesKept DEF Types
<1>14. Calling'
  BY <1>1, <1>2 DEF Calling, Emptied, Touched
<1>15. OneEach'
  <2>1. \A u \in Abroad : remote[u].block # b
    BY <1>1 DEF Apart, Carried
  <2>2. \A u \in Abroad : u # t /\ u \in Thread
    BY <1>8 DEF Abroad
  <2> QED
    BY <1>6, <1>7, <1>8, <2>1, <2>2 DEF OneEach
<1>16. Rowed'
  BY <1>1 DEF Rowed
<1> QED
  BY <1>2, <1>10, <1>12, <1>13, <1>14, <1>15, <1>16

-----------------------------------------------------------------------------
(* Steps that rewrite one span's record.                                   *)

\* One span's record is rewritten in place, soundly: the others stay sound.
LEMMA RecordPut ==
    ASSUME Types, NEW s \in Spans, NEW m \in Record, metas' = [metas EXCEPT ![s] = m]
    PROVE  /\ Spans' = Spans
           /\ metas'[s] = m
           /\ \A x \in Spans \ {s} : metas'[x] = metas[x]
           /\ metas' \in [Spans' -> Record]
           /\ Records /\ SoundRecord(s, m) => Records'
<1>1. metas \in [Spans -> Record]
  BY DEF Types
<1>2. metas' \in [Spans -> Record] /\ metas'[s] = m
      /\ \A x \in Spans \ {s} : metas'[x] = metas[x]
  BY <1>1
<1>3. Spans' = Spans
  BY <1>1, <1>2 DEF Spans
<1>4. ASSUME Records, SoundRecord(s, m) PROVE Records'
  <2>1. \A x \in Spans : SoundRecord(x, metas'[x])
    BY <1>2, <1>4 DEF Records
  <2> QED
    BY <1>3, <2>1 DEF Records
<1> QED
  BY <1>2, <1>3, <1>4

\* The types, where the page map and the arenas stay.
LEMMA TypesPut ==
    ASSUME Types, metas' \in [Spans' -> Record], Spans' = Spans,
           UNCHANGED <<freePages, advised, arenas, spare>>,
           live' \subseteq Block, row' \in [Small -> SUBSET Block],
           cur' \in [Class -> Place \cup {none}],
           partial' \in [Class -> SUBSET Place],
           kept' \in Seq(Place),
           call' \in Calls, remote' \in [Thread -> Release \cup {none}]
    PROVE  Types'
<1>1. Mapped' = Mapped
  BY DEF Mapped
<1> QED
  BY <1>1 DEF Types

\* No span's use, bump or state changes: what the call under way leaves open stays so.
LEMMA CallingKept ==
    ASSUME Calling, Spans' = Spans, UNCHANGED <<call, cur, row>>,
           \A s \in Spans : /\ metas'[s].class = metas[s].class
                            /\ metas'[s].bump = metas[s].bump
                            /\ metas'[s].used = metas[s].used
                            /\ metas'[s].state = metas[s].state
    PROVE  Calling'
<1>1. \A s \in Spans : Touched(s)' = Touched(s)
  BY DEF Touched
<1> QED
  BY <1>1 DEF Calling, Emptied

\* What is uncollected, when one span's list changes.
LEMMA ThreadPut ==
    ASSUME Types, Records, Layout, NEW s \in Spans, Spans' = Spans,
           \A x \in Spans \ {s} : metas'[x] = metas[x]
    PROVE  Uncollected' = (Uncollected \ Range(metas[s].thread)) \cup Range(metas'[s].thread)
<1>1. \A b : b \in Uncollected <=> \E x \in Spans : b \in Range(metas[x].thread)
  BY DEF Uncollected
<1>2. \A b : b \in Uncollected' <=> \E x \in Spans : b \in Range(metas'[x].thread)
  BY DEF Uncollected
<1>3. ASSUME NEW x \in Spans \ {s}
      PROVE  Range(metas[x].thread) \cap Range(metas[s].thread) = {}
  <2>1. Range(metas[x].thread) \subseteq Carved(x) /\ Range(metas[s].thread) \subseteq Carved(s)
    BY CarvedSlots DEF Records, SoundRecord
  <2>2. Carved(x) \cap Carved(s) = {}
    BY HomeFound
  <2> QED
    BY <2>1, <2>2
<1> QED
  BY <1>1, <1>2, <1>3

\* A member in front of a list it is not in: the store of an exchange, and keep's.
LEMMA PushedList ==
    ASSUME NEW S, NEW b \in S, NEW q \in Seq(S), IsInjective(q), b \notin Range(q)
    PROVE  /\ <<b>> \o q \in Seq(S)
           /\ Range(<<b>> \o q) = {b} \cup Range(q)
           /\ IsInjective(<<b>> \o q)
<1> DEFINE r == <<b>> \o q
           n == Len(q)
<1>1. /\ r \in Seq(S) /\ n \in Nat /\ DOMAIN q = 1 .. n /\ DOMAIN r = 1 .. n + 1
      /\ r[1] = b /\ \A i \in 1 .. n : r[i + 1] = q[i]
  OBVIOUS
<1> HIDE DEF r, n
<1>2. \A i \in 1 .. n + 1 : i # 1 => i - 1 \in 1 .. n /\ (i - 1) + 1 = i
  BY <1>1
<1>3. \A i \in 1 .. n + 1 : i # 1 => i - 1 \in 1 .. n /\ r[i] = q[i - 1]
  BY <1>1, <1>2
<1>4. Range(r) = {b} \cup Range(q)
  <2>1. \A x \in Range(r) : x = b \/ x \in Range(q)
    BY <1>1, <1>3 DEF Range
  <2>2. b \in Range(r)
    BY <1>1 DEF Range
  <2>3. \A x \in Range(q) : x \in Range(r)
    <3>1. \A i \in 1 .. n : i + 1 \in 1 .. n + 1
      BY <1>1
    <3>2. \A i \in 1 .. n : q[i] \in Range(r)
      <4> SUFFICES ASSUME NEW i \in 1 .. n PROVE q[i] \in Range(r)
        OBVIOUS
      <4>1. i + 1 \in DOMAIN r /\ r[i + 1] = q[i]
        BY <1>1, <3>1
      <4> QED
        BY <4>1 DEF Range
    <3> QED
      BY <1>1, <3>2 DEF Range
  <2> QED
    BY <2>1, <2>2, <2>3
<1>5. IsInjective(r)
  <2> SUFFICES ASSUME NEW i \in 1 .. n + 1, NEW j \in 1 .. n + 1, r[i] = r[j]
               PROVE  i = j
    BY <1>1 DEF IsInjective
  <2>1. \A k \in 1 .. n : q[k] # b
    BY <1>1 DEF Range
  <2>2. CASE i = 1 \/ j = 1
    <3>1. \A k \in 1 .. n + 1 : k # 1 => r[k] # b
      BY <1>3, <2>1
    <3>2. r[1] = b
      BY <1>1
    <3> QED
      BY <2>2, <3>1, <3>2, Zenon
  <2>3. CASE i # 1 /\ j # 1
    <3>1. q[i - 1] = q[j - 1] /\ i - 1 \in 1 .. n /\ j - 1 \in 1 .. n
      BY <1>3, <2>3
    <3>2. i - 1 = j - 1
      BY <1>1, <3>1 DEF IsInjective
    <3> QED
      BY <1>1, <3>2
  <2> QED
    BY <2>2, <2>3
<1> QED
  BY <1>1, <1>4, <1>5 DEF r

\* The exchange of a release: the block is on its span's list, in front of all
\* that is there, or the release reads the head anew.
LEMMA ExchangeKeeps ==
    ASSUME HeapInv, NEW t \in Thread, Exchange(t)
    PROVE  HeapInv'
<1> USE DEF HeapInv
<1> DEFINE b == remote[t].block
           s == SpanOf(b)
           m == [metas[s] EXCEPT !.thread = <<b>> \o @]
<1>1. /\ remote[t] # none
      /\ \/ /\ metas' = [metas EXCEPT ![s] = m]
            /\ remote' = [remote EXCEPT ![t] = none]
         \/ /\ remote' = [remote EXCEPT ![t].seen = HeadOf(s)]
            /\ UNCHANGED metas
      /\ UNCHANGED <<live, row, cur, partial, kept, keptPages, freePages, advised, arenas,
                     spare, call>>
  BY DEF Exchange
<1>2. t \in Abroad /\ remote[t] \in Release /\ b \in Block
  BY <1>1 DEF Abroad, Types, Release
<1>3. b \in Carried /\ b \in Out /\ b \notin live /\ b \notin Rows /\ b \notin Spilling
      /\ b \notin Uncollected
  BY <1>2 DEF Carried, Out, Apart
<1>4. s \in Spans /\ b \in Carved(s)
  BY <1>3, HomeFound DEF Homes
<1>5. /\ metas[s] \in Record /\ metas[s].thread \in Seq(Block)
      /\ IsInjective(metas[s].thread)
      /\ Range(metas[s].thread) \subseteq Carved(s) /\ b \notin Range(metas[s].thread)
  BY <1>3, <1>4, SpanTyped, RecordFields, CarvedSlots DEF Records, SoundRecord, Uncollected
<1> HIDE DEF b, s
<1>6. Rows' = Rows /\ Spilling' = Spilling
  BY <1>1 DEF Rows, Spilling
<1>7. CASE /\ metas' = [metas EXCEPT ![s] = m]
           /\ remote' = [remote EXCEPT ![t] = none]
  <2>1. /\ <<b>> \o metas[s].thread \in Seq(Block)
        /\ Range(<<b>> \o metas[s].thread) = {b} \cup Range(metas[s].thread)
        /\ IsInjective(<<b>> \o metas[s].thread)
    BY <1>2, <1>5, PushedList
  <2>2. /\ m \in Record /\ m.thread = <<b>> \o metas[s].thread
        /\ m.class = metas[s].class /\ m.bump = metas[s].bump /\ m.used = metas[s].used
        /\ m.free = metas[s].free /\ m.state = metas[s].state
    BY <1>5, <2>1 DEF Record
  <2>3. SoundRecord(s, m)
    <3>1. Carved(s) = Slotted(s, m.class, 0, m.bump)
      BY <2>2, CarvedSlots
    <3>2. SoundRecord(s, metas[s])
      BY <1>4 DEF Records
    <3> HIDE DEF m
    <3> QED
      BY <1>4, <1>5, <2>1, <2>2, <3>1, <3>2 DEF SoundRecord
  <2> HIDE DEF m
  <2>4. /\ Spans' = Spans /\ metas'[s] = m /\ \A x \in Spans \ {s} : metas'[x] = metas[x]
        /\ metas' \in [Spans' -> Record] /\ Records'
    BY <1>4, <1>7, <2>2, <2>3, RecordPut
  <2>5. \A x \in Spans : /\ metas'[x].class = metas[x].class
                         /\ metas'[x].bump = metas[x].bump
                         /\ metas'[x].used = metas[x].used
                         /\ metas'[x].state = metas[x].state
                         /\ metas'[x].free = metas[x].free
    BY <2>2, <2>4
  <2>6. Layout' /\ Listed' /\ KeptList' /\ Calling'
    BY <1>1, <2>4, <2>5, LayoutKept, ListedKept, KeptListKept, CallingKept
  <2>7. Uncollected' = Uncollected \cup {b}
    <3>1. Uncollected' = (Uncollected \ Range(metas[s].thread)) \cup Range(m.thread)
      BY <1>4, <2>4, ThreadPut
    <3>2. Range(metas[s].thread) \subseteq Uncollected
      BY <1>4 DEF Uncollected
    <3> QED
      BY <2>1, <2>2, <3>1, <3>2
  <2>8. /\ remote'[t] = none /\ \A u \in Thread \ {t} : remote'[u] = remote[u]
        /\ remote' \in [Thread -> Release \cup {none}]
    BY <1>7 DEF Types
  <2>9. Abroad' = Abroad \ {t}
    BY <2>8 DEF Abroad
  <2>10. Carried' = Carried \ {b}
    <3>1. \A u \in Abroad : u # t => remote[u].block # b
      BY <1>2 DEF OneEach, b
    <3>2. \A x : x \in Carried <=> \E u \in Abroad : x = remote[u].block
      BY DEF Carried
    <3>3. \A x : x \in Carried' <=> \E u \in Abroad \ {t} : x = remote'[u].block
      BY <2>9 DEF Carried
    <3>4. \A u \in Abroad \ {t} : remote'[u] = remote[u]
      BY <2>8 DEF Abroad
    <3> QED
      BY <1>2, <3>1, <3>2, <3>3, <3>4 DEF b
  <2>11. Apart' /\ Out' = Out
    BY <1>1, <1>3, <1>6, <2>7, <2>10 DEF Apart, Out
  <2>12. Homes'
    BY <2>4, <2>5, <2>11, HomesKept
  <2>13. OneEach'
    <3>1. \A u \in Abroad \ {t} : remote'[u] = remote[u]
      BY <2>8 DEF Abroad
    <3> QED
      BY <2>9, <3>1 DEF OneEach
  <2>14. Types'
    BY <1>1, <2>4, <2>8, TypesPut DEF Types
  <2>15. Rowed'
    BY <1>1 DEF Rowed
  <2> QED
    BY <2>4, <2>6, <2>11, <2>12, <2>13, <2>14, <2>15
<1>8. CASE /\ remote' = [remote EXCEPT ![t].seen = HeadOf(s)]
           /\ UNCHANGED metas
  <2>1. /\ Spans' = Spans /\ Uncollected' = Uncollected
        /\ Records' /\ Layout' /\ Listed' /\ KeptList'
    BY <1>1, <1>8, SpansKept
  <2>2. HeadOf(s) \in Block \cup {none}
    BY <1>5 DEF HeadOf
  <2>3. /\ remote'[t] \in Release /\ remote'[t].block = b
        /\ \A u \in Thread \ {t} : remote'[u] = remote[u]
        /\ remote' \in [Thread -> Release \cup {none}]
    BY <1>2, <1>8, <2>2 DEF Types, Release, b
  <2>4. remote'[t] # none
    BY <2>3, NoneAssumption DEF Release
  <2>5. Abroad' = Abroad
    BY <1>2, <2>3, <2>4 DEF Abroad
  <2>6. \A u \in Abroad : remote'[u].block = remote[u].block
    BY <2>3 DEF Abroad, b
  <2>7. Carried' = Carried /\ OneEach'
    BY <2>5, <2>6 DEF Carried, OneEach
  <2>8. Apart' /\ Out' = Out /\ Rowed'
    BY <1>1, <1>6, <2>1, <2>7 DEF Apart, Out, Rowed
  <2>9. Homes'
    BY <1>8, <2>1, <2>8, HomesKept
  <2>10. Types' /\ Calling'
    BY <1>1, <1>8, <2>1, <2>3, TypesKept, CallingKept DEF Types
  <2> QED
    BY <2>1, <2>7, <2>8, <2>9, <2>10
<1> QED
  BY <1>1, <1>7, <1>8

-----------------------------------------------------------------------------
(* Giving a span back.                                                     *)

\* The pages a span has written to, as keep counts them, are a number.
LEMMA TouchedNat ==
    ASSUME Types, NEW s \in Spans
    PROVE  Touched(s) \in Nat
<1> DEFINE c == metas[s].class
           n == metas[s].bump * Size[c]
           q == (n + PageUnits - 1) \div PageUnits
<1>1. metas[s].bump \in Nat /\ c \in Class
  BY SpanTyped, RecordFields
<1>2. Size[c] \in Nat /\ PageUnits \in Nat \ {0}
  BY <1>1, Geometry
<1>3. n \in Nat
  BY <1>1, <1>2, Products
<1> HIDE DEF n
<1>4. q \in Nat
  BY <1>2, <1>3
<1> QED
  BY <1>4 DEF Touched, n

\* The written pages of one span, which are no other's.
LEMMA WrittenOne ==
    ASSUME NEW s, NEW n \in Nat
    PROVE  IsFiniteSet({s} \X (1 .. n)) /\ Cardinality({s} \X (1 .. n)) = n
<1>1. IsFiniteSet({s}) /\ Cardinality({s}) = 1
  BY FS_Singleton
<1>2. IsFiniteSet(1 .. n) /\ Cardinality(1 .. n) = n
  BY FS_Interval
<1>3. ASSUME NEW S, NEW T, IsFiniteSet(S), IsFiniteSet(T)
      PROVE  IsFiniteSet(S \X T) /\ Cardinality(S \X T) = Cardinality(S) * Cardinality(T)
  BY <1>3, FS_Product
<1>4. IsFiniteSet({s} \X (1 .. n))
      /\ Cardinality({s} \X (1 .. n)) = Cardinality({s}) * Cardinality(1 .. n)
  BY <1>1, <1>2, <1>3, Zenon
<1>5. 1 * n = n
  OBVIOUS
<1> QED
  BY <1>1, <1>2, <1>4, <1>5

\* kept_unlink: the span is off the list, and its written pages off the count.
LEMMA Unlinked ==
    ASSUME Types, KeptList, NEW s \in Spans, metas[s].state = "kept", KeptUnlink(s),
           \A x \in Place : /\ x \in Spans' /\ metas'[x].state = "kept"
                               <=> x \in Spans /\ metas[x].state = "kept" /\ x # s
                            /\ x \in Spans /\ metas[x].state = "kept" /\ x # s =>
                                  /\ metas'[x].class = metas[x].class
                                  /\ metas'[x].bump = metas[x].bump
    PROVE  KeptList' /\ kept' \in Seq(Place)
<1> DEFINE K == Spans \ {s}
           n == Touched(s)
           S == {s} \X (1 .. n)
<1>1. kept \in Seq(Place) /\ s \in Place /\ n \in Nat
  BY TouchedNat, SpanTyped DEF Types
<1>2. kept' = Filter(kept, K) /\ keptPages' = keptPages - n
  BY DEF KeptUnlink
<1>3. \A i \in DOMAIN kept : kept[i] \in Place /\ kept[i] \in Spans /\ metas[kept[i]].state = "kept"
  BY <1>1 DEF KeptList
<1>4. kept' \in Seq(Place) /\ \A j \in DOMAIN kept' : kept'[j] \in K
  BY <1>1, <1>2, FilterSeq
<1>5. \A j \in DOMAIN kept' : \E i \in DOMAIN kept : kept'[j] = kept[i]
  BY <1>1, <1>2, FilterFrom
<1>6. \A i \in DOMAIN kept : kept[i] \in K => \E j \in DOMAIN kept' : kept'[j] = kept[i]
  <2> SUFFICES ASSUME NEW i \in DOMAIN kept, kept[i] \in K
               PROVE  \E j \in DOMAIN kept' : kept'[j] = kept[i]
    OBVIOUS
  <2> HIDE DEF K
  <2>1. /\ Passed(kept, K, i) \in DOMAIN Filter(kept, K)
        /\ Filter(kept, K)[Passed(kept, K, i)] = kept[i]
    BY <1>1, FilterKeeps
  <2> QED
    BY <1>2, <2>1
<1>7. \A i, j \in DOMAIN kept' : kept'[i] = kept'[j] => i = j
  BY <1>1, <1>2, FilterDistinct DEF KeptList
<1>8. \A x \in Place : (\E j \in DOMAIN kept' : kept'[j] = x)
                       <=> x \in Spans /\ metas[x].state = "kept" /\ x # s
  <2> SUFFICES ASSUME NEW x \in Place
               PROVE  (\E j \in DOMAIN kept' : kept'[j] = x)
                       <=> x \in Spans /\ metas[x].state = "kept" /\ x # s
    OBVIOUS
  <2>1. (\E i \in DOMAIN kept : kept[i] = x) <=> x \in Spans /\ metas[x].state = "kept"
    BY DEF KeptList
  <2> QED
    BY <1>4, <1>5, <1>6, <2>1
<1>9. Range(kept) = Range(kept') \cup {s} /\ s \notin Range(kept')
  <2>1. \A x : x \in Range(kept) <=> x \in Place /\ x \in Spans /\ metas[x].state = "kept"
    BY <1>3 DEF KeptList, Range
  <2>2. \A x : x \in Range(kept') <=> x \in Place /\ x \in Spans /\ metas[x].state = "kept" /\ x # s
    <3>1. \A j \in DOMAIN kept' : kept'[j] \in Place
      BY <1>4
    <3> QED
      BY <1>8, <3>1 DEF Range
  <2> QED
    BY <1>1, <2>1, <2>2
<1>10. \A x \in Range(kept') : Touched(x)' = Touched(x)
  <2>1. \A x \in Range(kept') : x \in Place /\ x \in Spans /\ metas[x].state = "kept" /\ x # s
    BY <1>4, <1>8 DEF Range
  <2> QED
    BY <2>1 DEF Touched
<1> HIDE DEF n
<1>11. WrittenPages' = WrittenPages \ S /\ S \subseteq WrittenPages
  <2>1. \A e : e \in WrittenPages <=> \E x \in Range(kept) : e \in {x} \X (1 .. Touched(x))
    BY DEF WrittenPages
  <2>2. \A e : e \in WrittenPages' <=> \E x \in Range(kept') : e \in {x} \X (1 .. Touched(x))
    BY <1>10 DEF WrittenPages
  <2>3. \A x : x # s => \A e \in {x} \X (1 .. Touched(x)) : e \notin S
    OBVIOUS
  <2>4. S = {s} \X (1 .. Touched(s))
    BY DEF n
  <2> HIDE DEF S
  <2> QED
    BY <1>9, <2>1, <2>2, <2>3, <2>4
<1>12. IsFiniteSet(S) /\ Cardinality(S) = n
  BY <1>1, WrittenOne
<1>13. /\ IsFiniteSet(WrittenPages) /\ keptPages = Cardinality(WrittenPages)
       /\ keptPages <= KeptBudget
  BY DEF KeptList
<1> HIDE DEF S
<1>14. WrittenPages \cap S = S
  BY <1>11
<1>15. /\ IsFiniteSet(WrittenPages')
       /\ Cardinality(WrittenPages') = Cardinality(WrittenPages) - n
  <2>1. /\ IsFiniteSet(WrittenPages \ S)
        /\ Cardinality(WrittenPages \ S)
              = Cardinality(WrittenPages) - Cardinality(WrittenPages \cap S)
    BY <1>13, FS_Difference
  <2> QED
    BY <1>11, <1>12, <1>14, <2>1
<1>16. keptPages' = Cardinality(WrittenPages') /\ keptPages' <= KeptBudget
  <2>1. Cardinality(WrittenPages) \in Nat /\ KeptBudget \in Nat
    BY <1>13, FS_CardinalityType, LimitsAssumption
  <2> QED
    BY <1>1, <1>2, <1>13, <1>15, <2>1
<1> QED
  BY <1>4, <1>7, <1>8, <1>15, <1>16 DEF KeptList

\* retire: the span's record is gone, and no other changes.
LEMMA RetiredSpans ==
    ASSUME Types, Records, NEW s \in Spans, NEW advise, Retire(s, advise)
    PROVE  /\ Spans' = Spans \ {s}
           /\ \A x \in Spans \ {s} : metas'[x] = metas[x]
           /\ metas' \in [Spans' -> Record] /\ Spans' \subseteq Place
           /\ Records'
<1>1. metas' = [x \in Spans \ {s} |-> metas[x]]
  BY DEF Retire, Restrict
<1>2. Spans' = Spans \ {s} /\ \A x \in Spans \ {s} : metas'[x] = metas[x]
  BY <1>1 DEF Spans
<1>3. metas' \in [Spans' -> Record] /\ Spans' \subseteq Place
  BY <1>1, <1>2, SpanTyped
<1>4. Records'
  BY <1>2 DEF Records
<1> QED
  BY <1>2, <1>3, <1>4

\* The lists it was on lose it.
LEMMA RetiredLists ==
    ASSUME Types, Records, Listed, NEW s \in Spans, NEW advise, Retire(s, advise)
    PROVE  /\ Listed'
           /\ partial' \in [Class -> SUBSET Place] /\ cur' \in [Class -> Place \cup {none}]
           /\ metas[s].state = "kept" \/ metas[s].state = "cur"
                 => \A c \in Class : cur'[c] = IF c = metas[s].class THEN none ELSE cur[c]
           /\ \A c \in Class : cur'[c] \in {cur[c], none}
<1> DEFINE d == metas[s].class
           st == metas[s].state
<1>1. /\ partial \in [Class -> SUBSET Place] /\ cur \in [Class -> Place \cup {none}]
      /\ d \in Class /\ s \in Place /\ st \in States
  BY SpanTyped, RecordFields DEF Types
<1>2. /\ partial' = IF st = "partial" THEN [partial EXCEPT ![d] = @ \ {s}] ELSE partial
      /\ cur' = IF st \in {"cur", "kept"} THEN [cur EXCEPT ![d] = none] ELSE cur
  BY DEF Retire
<1>3. Spans' = Spans \ {s} /\ \A x \in Spans \ {s} : metas'[x] = metas[x]
  BY RetiredSpans
<1>4. partial' \in [Class -> SUBSET Place] /\ cur' \in [Class -> Place \cup {none}]
  BY <1>1, <1>2
<1>5. \A c \in Class : \A x \in Place :
         x \in partial'[c] <=> x \in partial[c] /\ x # s
  <2> SUFFICES ASSUME NEW c \in Class, NEW x \in Place
               PROVE  x \in partial'[c] <=> x \in partial[c] /\ x # s
    OBVIOUS
  <2>1. s \in partial[c] <=> d = c /\ st = "partial"
    BY <1>1 DEF Listed
  <2> QED
    BY <1>1, <1>2, <2>1
<1>6. \A c \in Class : cur'[c] = IF st \in {"cur", "kept"} /\ c = d THEN none ELSE cur[c]
  BY <1>1, <1>2
<1>7. \A c \in Class : cur[c] = s => st \in {"cur", "kept"} /\ c = d
  BY NoneAssumption, <1>1 DEF Listed, Place
<1>8. Listed'
  <2>1. \A c \in Class : \A x \in Place :
           x \in partial'[c] <=> x \in Spans' /\ metas'[x].class = c
                                 /\ metas'[x].state = "partial"
    BY <1>3, <1>5 DEF Listed
  <2>2. \A c \in Class : cur'[c] # none =>
           /\ cur'[c] \in Spans' /\ metas'[cur'[c]].class = c
           /\ metas'[cur'[c]].state \in {"cur", "kept"}
    BY <1>3, <1>6, <1>7 DEF Listed
  <2>3. \A x \in Spans' : metas'[x].state \in {"cur", "kept"} => cur'[metas'[x].class] = x
    <3> SUFFICES ASSUME NEW x \in Spans \ {s}, metas[x].state \in {"cur", "kept"}
                 PROVE  cur'[metas[x].class] = x
      BY <1>3
    <3>1. cur[metas[x].class] = x /\ metas[x].class \in Class
      BY SpanTyped DEF Listed
    <3>2. st \in {"cur", "kept"} => cur[d] = s
      BY DEF Listed
    <3> QED
      BY <1>6, <3>1, <3>2
  <2> QED
    BY <2>1, <2>2, <2>3 DEF Listed
<1> QED
  BY <1>1, <1>4, <1>6, <1>8

\* The kept list loses it, or was without it.
LEMMA RetiredKept ==
    ASSUME Types, Records, KeptList, NEW s \in Spans, NEW advise, Retire(s, advise)
    PROVE  KeptList' /\ kept' \in Seq(Place)
<1>1. Spans' = Spans \ {s} /\ \A x \in Spans \ {s} : metas'[x] = metas[x]
  BY RetiredSpans
<1>2. CASE metas[s].state = "kept"
  <2>1. KeptUnlink(s)
    BY <1>2 DEF Retire
  <2> QED
    BY <1>1, <1>2, <2>1, Unlinked
<1>3. CASE metas[s].state # "kept"
  <2>1. UNCHANGED <<kept, keptPages>>
    BY <1>3 DEF Retire
  <2> QED
    BY <1>1, <1>3, <2>1, KeptListKept DEF Types
<1> QED
  BY <1>2, <1>3

\* Its pages are its arena's again, and an arena all free is the spare or gone.
LEMMA RetiredPages ==
    ASSUME Types, Records, Layout, NEW s \in Spans, NEW advise \in BOOLEAN, Retire(s, advise)
    PROVE  /\ Layout'
           /\ Mapped' \subseteq Arena
           /\ freePages' \in [Mapped' -> SUBSET Page] /\ advised' \in [Mapped' -> SUBSET Page]
           /\ arenas' \subseteq Arena /\ spare' \in Arena \cup {none}
<1> DEFINE a == s[1]
           own == PagesOf(s)
           pages == freePages[a] \cup own
           empty == pages = Page
           destroyed == empty /\ spare # none
<1>1. PICK handed \in {{}, own} :
         /\ arenas' = IF empty THEN arenas \ {a} ELSE arenas \cup {a}
         /\ spare' = IF empty /\ spare = none THEN a ELSE spare
         /\ freePages' = IF destroyed THEN Restrict(freePages, Mapped \ {a})
                         ELSE [freePages EXCEPT ![a] = pages]
         /\ advised' = IF destroyed THEN Restrict(advised, Mapped \ {a})
                       ELSE [advised EXCEPT ![a] = @ \cup handed]
  BY DEF Retire
<1>2. Spans' = Spans \ {s} /\ \A x \in Spans \ {s} : metas'[x] = metas[x]
  BY RetiredSpans
<1>3. /\ a \in Mapped /\ own \subseteq Page /\ Mapped \subseteq Arena
      /\ freePages \in [Mapped -> SUBSET Page] /\ advised \in [Mapped -> SUBSET Page]
      /\ handed \subseteq own /\ spare \in Arena \cup {none} /\ arenas \subseteq Arena
      /\ none \notin Arena
  BY NoneAssumption DEF Layout, Types
<1>4. own # {} /\ own \cap freePages[a] = {}
  <2>1. s[2] \in own
    <3>1. s \in Place /\ metas[s].class \in Class
      BY SpanTyped
    <3>2. s[2] \in Nat /\ Pages[metas[s].class] \in Nat \ {0}
      BY <3>1, Geometry DEF Place, Page
    <3> QED
      BY <3>2 DEF PagesOf
  <2>2. \A p \in own : Covered(a, p)
    BY DEF Covered
  <2> QED
    BY <1>3, <2>1, <2>2 DEF Layout
<1>5. \A x \in Spans \ {s} : PagesOf(x)' = PagesOf(x)
  BY <1>2 DEF PagesOf
<1>6. \A e, p : Covered(e, p)' <=> \E x \in Spans \ {s} : x[1] = e /\ p \in PagesOf(x)
  BY <1>2, <1>5 DEF Covered
<1>7. \A e \in Mapped \ {a} : \A p : Covered(e, p)' <=> Covered(e, p)
  BY <1>6 DEF Covered
<1>8. \A p \in Page : Covered(a, p)' <=> Covered(a, p) /\ p \notin own
  BY <1>6 DEF Covered, Layout
<1>9. freePages[a] # Page /\ a # spare
  BY <1>3, <1>4 DEF Layout
<1>10. \A p \in Page : p \in pages <=> ~Covered(a, p)'
  BY <1>3, <1>8 DEF Layout, Covered
<1>11. CASE destroyed
  <2>1. /\ freePages' = [e \in Mapped \ {a} |-> freePages[e]]
        /\ advised' = [e \in Mapped \ {a} |-> advised[e]]
        /\ spare' = spare /\ arenas' = arenas \ {a} /\ Mapped' = Mapped \ {a}
    BY <1>1, <1>11 DEF Restrict, Mapped
  <2>2. \A x \in Spans \ {s} : x[1] # a
    <3> SUFFICES ASSUME NEW x \in Spans \ {s}, x[1] = a PROVE FALSE
      OBVIOUS
    <3>1. x[2] \in PagesOf(x) /\ x[2] \in Page
      <4>1. x \in Place /\ metas[x].class \in Class
        BY SpanTyped
      <4>2. x[2] \in Nat /\ Pages[metas[x].class] \in Nat \ {0}
        BY <4>1, Geometry DEF Place, Page
      <4> QED
        BY <4>1, <4>2 DEF PagesOf, Place
    <3>2. Covered(a, x[2])'
      BY <1>6, <3>1
    <3> QED
      BY <1>10, <1>11, <3>1, <3>2
  <2>3. /\ Mapped' \subseteq Arena
        /\ freePages' \in [Mapped' -> SUBSET Page] /\ advised' \in [Mapped' -> SUBSET Page]
        /\ arenas' \subseteq Arena /\ spare' \in Arena \cup {none}
    BY <1>3, <2>1
  <2>4. Layout'
    <3> HIDE DEF a, own, pages, empty, destroyed
    <3>1. \A x \in Spans' : x[1] \in Mapped' /\ PagesOf(x)' \subseteq Page
      BY <1>2, <1>5, <2>1, <2>2 DEF Layout
    <3>2. \A w, x \in Spans' : w # x /\ w[1] = x[1] => PagesOf(w)' \cap PagesOf(x)' = {}
      BY <1>2, <1>5 DEF Layout
    <3>3. \A e \in Mapped' : \A p \in Page : p \in freePages'[e] <=> ~Covered(e, p)'
      BY <1>7, <2>1 DEF Layout
    <3>4. \A e \in Mapped' : advised'[e] \subseteq freePages'[e]
      BY <2>1 DEF Layout
    <3>5. \A e \in Mapped' : freePages'[e] = Page <=> e = spare'
      BY <2>1 DEF Layout
    <3>6. spare' # none => spare' \in Mapped'
      BY <1>9, <2>1 DEF Layout
    <3>7. arenas' = {e \in Mapped' \ {spare'} : freePages'[e] # {}}
      BY <2>1 DEF Layout
    <3> QED
      BY <3>1, <3>2, <3>3, <3>4, <3>5, <3>6, <3>7 DEF Layout
  <2> QED
    BY <2>3, <2>4
<1>12. CASE ~destroyed
  <2>1. /\ freePages' = [freePages EXCEPT ![a] = pages]
        /\ advised' = [advised EXCEPT ![a] = @ \cup handed]
    BY <1>1, <1>12
  <2>2. /\ Mapped' = Mapped
        /\ freePages'[a] = pages /\ \A e \in Mapped \ {a} : freePages'[e] = freePages[e]
        /\ advised'[a] = advised[a] \cup handed
        /\ \A e \in Mapped \ {a} : advised'[e] = advised[e]
        /\ freePages' \in [Mapped -> SUBSET Page] /\ advised' \in [Mapped -> SUBSET Page]
    BY <1>3, <2>1 DEF Mapped
  <2>3. /\ arenas' = IF empty THEN arenas \ {a} ELSE arenas \cup {a}
        /\ spare' = IF empty THEN a ELSE spare
        /\ empty => spare = none
    BY <1>1, <1>12
  <2>4. pages # {} /\ handed \subseteq pages /\ advised[a] \subseteq pages
    BY <1>3, <1>4 DEF Layout
  <2>5. arenas' \subseteq Arena /\ spare' \in Arena \cup {none}
    BY <1>3, <2>3
  <2>6. Layout'
    <3> HIDE DEF a, own, pages
    <3>1. \A x \in Spans' : x[1] \in Mapped' /\ PagesOf(x)' \subseteq Page
      BY <1>2, <1>5, <2>2 DEF Layout
    <3>2. \A w, x \in Spans' : w # x /\ w[1] = x[1] => PagesOf(w)' \cap PagesOf(x)' = {}
      BY <1>2, <1>5 DEF Layout
    <3>3. \A e \in Mapped' : \A p \in Page : p \in freePages'[e] <=> ~Covered(e, p)'
      BY <1>7, <1>10, <2>2 DEF Layout
    <3>4. \A e \in Mapped' : advised'[e] \subseteq freePages'[e]
      BY <2>2, <2>4 DEF Layout
    <3>5. \A e \in Mapped' : freePages'[e] = Page <=> e = spare'
      BY <1>3, <1>9, <2>2, <2>3 DEF Layout
    <3>6. spare' # none => spare' \in Mapped'
      BY <1>3, <2>2, <2>3 DEF Layout
    <3>7. arenas' = {e \in Mapped' \ {spare'} : freePages'[e] # {}}
      <4>1. arenas = {e \in Mapped \ {spare} : freePages[e] # {}}
        BY DEF Layout
      <4>2. \A e : e \in arenas' <=> e \in Mapped /\ e # spare' /\ freePages'[e] # {}
        BY <1>3, <1>9, <2>2, <2>3, <2>4, <4>1
      <4> QED
        BY <2>2, <4>2
    <3> QED
      BY <3>1, <3>2, <3>3, <3>4, <3>5, <3>6, <3>7 DEF Layout
  <2> QED
    BY <1>3, <2>2, <2>5, <2>6
<1> QED
  BY <1>11, <1>12

-----------------------------------------------------------------------------
(* Blocks that come back to their span.                                    *)

\* used counts the carved blocks that are out, so no run of them is longer, and
\* one as long is all of them.
LEMMA OutCount ==
    ASSUME HeapInv, NEW s \in Spans, NEW run \in SUBSET Carved(s), run \subseteq Out
    PROVE  /\ IsFiniteSet(run) /\ Cardinality(run) \in Nat
           /\ Cardinality(run) <= metas[s].used
           /\ run \cap metas[s].free = {}
           /\ IsFiniteSet(metas[s].free)
           /\ Cardinality(metas[s].free \cup run) = Cardinality(metas[s].free) + Cardinality(run)
           /\ Cardinality(run) = metas[s].used => \A b \in Carved(s) : b \in Out <=> b \in run
<1> USE DEF HeapInv
<1> DEFINE C == Carved(s)
           F == metas[s].free
<1>1. /\ IsFiniteSet(C) /\ Cardinality(C) = metas[s].bump
      /\ metas[s].bump \in Nat /\ metas[s].used \in Nat
  BY CarvedFacts, SpanTyped, RecordFields
<1>2. F \subseteq C /\ metas[s].used = metas[s].bump - Cardinality(F)
  BY CarvedSlots DEF Records, SoundRecord
<1>3. \A b \in C : b \in Out <=> b \notin F
  BY DEF Homes
<1> HIDE DEF C, F
<1>4. run \subseteq C /\ run \cap F = {}
  BY <1>3 DEF C
<1>5. /\ IsFiniteSet(F) /\ Cardinality(F) \in Nat
      /\ IsFiniteSet(run) /\ Cardinality(run) \in Nat
  BY <1>1, <1>2, <1>4, FS_Subset, FS_CardinalityType
<1>6. Cardinality(F \cup run) = Cardinality(F) + Cardinality(run)
  <2>1. F \cap run = {}
    BY <1>4
  <2>2. Cardinality({}) = 0
    BY FS_EmptySet
  <2>3. Cardinality(F \cap run) = 0
    BY <2>1, <2>2
  <2>4. Cardinality(F \cup run)
           = Cardinality(F) + Cardinality(run) - Cardinality(F \cap run)
    BY <1>5, FS_Union
  <2> DEFINE f == Cardinality(F)
             n == Cardinality(run)
  <2>5. f \in Nat /\ n \in Nat /\ Cardinality(F \cup run) = f + n - 0
    BY <1>5, <2>3, <2>4
  <2> HIDE DEF f, n
  <2>6. f + n - 0 = f + n
    BY <2>5
  <2>7. Cardinality(F \cup run) = f + n
    BY <2>5, <2>6
  <2> QED
    BY <2>7 DEF f, n
<1>7. /\ F \cup run \subseteq C /\ Cardinality(F \cup run) <= Cardinality(C)
      /\ Cardinality(F \cup run) = Cardinality(C) => F \cup run = C
  BY <1>1, <1>2, <1>4, FS_Subset
<1>8. Cardinality(run) <= metas[s].used
  BY <1>1, <1>2, <1>5, <1>6, <1>7
<1>9. ASSUME Cardinality(run) = metas[s].used
      PROVE  \A b \in C : b \in Out <=> b \in run
  <2>1. F \cup run = C
    BY <1>1, <1>2, <1>5, <1>6, <1>7, <1>9
  <2> QED
    BY <1>3, <1>4, <2>1
<1> QED
  BY <1>4, <1>5, <1>6, <1>8, <1>9 DEF C, F

\* What else a step that gives a span back does: the last blocks it had out come
\* from the program or from a spill.
LEMMA RetireKeeps ==
    ASSUME HeapInv, NEW s \in Spans, NEW advise \in BOOLEAN, Retire(s, advise),
           NEW run \in SUBSET Carved(s), run \subseteq live \cup Spilling,
           Cardinality(run) = metas[s].used,
           UNCHANGED <<row, remote>>,
           live' = live \ run, Spilling' = Spilling \ run,
           call' \in Calls,
           \/ call.op \in {"none", "spill"} /\ call'.op \in {"none", "spill"}
           \/ call.op = "keep" /\ call' = call /\ call.span # s
    PROVE  HeapInv'
<1> USE DEF HeapInv
<1>1. /\ Spans' = Spans \ {s} /\ \A x \in Spans \ {s} : metas'[x] = metas[x]
      /\ metas' \in [Spans' -> Record] /\ Spans' \subseteq Place /\ Records'
  BY RetiredSpans
<1>2. /\ Listed' /\ partial' \in [Class -> SUBSET Place]
      /\ cur' \in [Class -> Place \cup {none}]
  BY RetiredLists
<1>3. KeptList' /\ kept' \in Seq(Place)
  BY RetiredKept
<1>4. /\ Layout' /\ Mapped' \subseteq Arena
      /\ freePages' \in [Mapped' -> SUBSET Page] /\ advised' \in [Mapped' -> SUBSET Page]
      /\ arenas' \subseteq Arena /\ spare' \in Arena \cup {none}
  BY RetiredPages
<1>5. Types'
  <2>1. live' \subseteq Block /\ row' \in [Small -> SUBSET Block]
        /\ remote' \in [Thread -> Release \cup {none}]
    BY DEF Types
  <2> QED
    BY <1>1, <1>2, <1>3, <1>4, <2>1 DEF Types
<1>6. \A b \in Carved(s) : b \in Out <=> b \in run
  <2>1. run \subseteq Out
    BY DEF Out
  <2> QED
    BY <2>1, OutCount
<1>7. Uncollected' = Uncollected
  <2>1. Range(metas[s].thread) \subseteq Carved(s)
    BY CarvedSlots DEF Records, SoundRecord
  <2>2. Range(metas[s].thread) \subseteq Uncollected
    BY DEF Uncollected
  <2>3. Range(metas[s].thread) = {}
    BY <1>6, <2>1, <2>2 DEF Out, Apart
  <2>4. \A b : b \in Uncollected <=> \E x \in Spans : b \in Range(metas[x].thread)
    BY DEF Uncollected
  <2>5. \A b : b \in Uncollected' <=> \E x \in Spans \ {s} : b \in Range(metas[x].thread)
    BY <1>1 DEF Uncollected
  <2> QED
    BY <2>3, <2>4, <2>5
<1>8. Rows' = Rows /\ Abroad' = Abroad /\ Carried' = Carried
  BY DEF Rows, Abroad, Carried
<1>9. Apart'
  BY <1>7, <1>8 DEF Apart
<1>10. Out' = Out \ run
  <2>1. run \cap Rows = {} /\ run \cap Carried = {} /\ run \cap Uncollected = {}
    BY DEF Apart
  <2> QED
    BY <1>7, <1>8, <2>1 DEF Out
<1>11. Homes'
  <2>1. \A b : b \in Out' <=> b \in Out /\ b \notin Carved(s)
    BY <1>6, <1>10
  <2> QED
    BY <1>1, <2>1, HomesRemoved
<1>12. Calling'
  <2>1. \A x \in Spans' : metas'[x].used = 0 => Emptied(x)'
    <3>1. ASSUME NEW x \in Spans \ {s}, metas[x].used = 0
          PROVE  Emptied(x)'
      <4>1. Emptied(x)
        BY <1>1, <3>1 DEF Calling
      <4> QED
        BY <1>1, <4>1 DEF Emptied
    <3> QED
      BY <1>1, <3>1
  <2>2. (call.op = "keep" => /\ call.span \in Spans
                             /\ metas[call.span].used = 0
                             /\ metas[call.span].state = "cur"
                             /\ Touched(call.span) <= KeptBudget)'
    <3>1. CASE call.op = "keep"
      <4> DEFINE x == call.span
      <4>1. call' = call /\ x # s /\ x \in Spans /\ metas[x].used = 0
            /\ metas[x].state = "cur" /\ Touched(x) <= KeptBudget
        BY <3>1 DEF Calling
      <4>2. metas'[x] = metas[x] /\ x \in Spans'
        BY <1>1, <4>1
      <4>3. call'.span = x
        BY <4>1
      <4> HIDE DEF x
      <4>4. (Touched(call.span))' = Touched(x)
        BY <4>2, <4>3 DEF Touched
      <4> QED
        BY <4>1, <4>2, <4>3, <4>4
    <3>2. CASE call.op # "keep"
      BY <3>2
    <3> QED
      BY <3>1, <3>2
  <2> QED
    BY <2>1, <2>2 DEF Calling
<1>13. Rowed' /\ OneEach'
  BY <1>8 DEF Rowed, OneEach
<1> QED
  BY <1>1, <1>2, <1>3, <1>4, <1>5, <1>9, <1>11, <1>12, <1>13

\* settle: a run of blocks of one span is on its free list, and the span where
\* that puts it.
LEMMA SettleKeeps ==
    ASSUME HeapInv, NEW s \in Spans, NEW run \in SUBSET Carved(s), run # {},
           run \subseteq live \cup Spilling, Settle(s, run),
           UNCHANGED <<row, remote>>,
           live' = live \ run, Spilling' = Spilling \ run,
           call' \in Calls,
           call.op \in {"none", "spill"}, call'.op \in {"none", "spill"}
    PROVE  HeapInv'
<1> USE DEF HeapInv
<1> DEFINE o == metas[s]
           n == Cardinality(run)
           m == [o EXCEPT !.free = @ \cup run, !.used = @ - n]
           r == [m EXCEPT !.state = IF @ = "full" THEN "partial" ELSE @]
<1>1. /\ o \in Record /\ o.class \in Class /\ o.bump \in Nat /\ o.used \in Nat
      /\ o.free \subseteq Block /\ s \in Place /\ run \subseteq Block
  BY SpanTyped, RecordFields, CarvedFacts
<1>2. run \subseteq Out
  BY DEF Out
<1>3. /\ IsFiniteSet(run) /\ n \in Nat /\ n <= o.used
      /\ run \cap o.free = {} /\ IsFiniteSet(o.free)
      /\ Cardinality(o.free \cup run) = Cardinality(o.free) + n
  BY <1>2, OutCount
<1>4. n # 0
  BY <1>3, FS_EmptySet
<1>5. /\ m.free = o.free \cup run /\ m.used = o.used - n /\ m.state = o.state
      /\ m.class = o.class /\ m.bump = o.bump /\ m.thread = o.thread
  BY <1>1 DEF Record
<1>6. CASE m.used = 0
  <2>1. Retire(s, FALSE)
    BY <1>6 DEF Settle
  <2>2. n = o.used
    BY <1>1, <1>3, <1>5, <1>6
  <2> QED
    BY <2>1, <2>2, RetireKeeps
<1>7. CASE m.used # 0
  <2>1. /\ \/ /\ m.state = "full"
              /\ metas' = [metas EXCEPT ![s] = [m EXCEPT !.state = "partial"]]
              /\ partial' = [partial EXCEPT ![m.class] = @ \cup {s}]
           \/ /\ m.state # "full"
              /\ metas' = [metas EXCEPT ![s] = m]
              /\ UNCHANGED partial
        /\ UNCHANGED <<cur, kept, keptPages, freePages, advised, arenas, spare>>
    BY <1>7 DEF Settle
  <2>2. /\ r \in Record /\ r.free = o.free \cup run /\ r.used = o.used - n
        /\ r.class = o.class /\ r.bump = o.bump /\ r.thread = o.thread
        /\ r.state = IF o.state = "full" THEN "partial" ELSE o.state
        /\ o.state = "full" => r = [m EXCEPT !.state = "partial"]
        /\ o.state # "full" => r = m
    <3>1. m \in Record
      <4>1. m.used \in Nat
        BY <1>1, <1>3, <1>5
      <4>2. m.free \in SUBSET Block
        BY <1>1, <1>5
      <4> QED
        BY <1>1, <1>5, <4>1, <4>2 DEF Record
    <3>2. m.state \in States
      BY <3>1, RecordFields
    <3> HIDE DEF m
    <3>3. /\ r \in Record /\ r.free = m.free /\ r.used = m.used
          /\ r.class = m.class /\ r.bump = m.bump /\ r.thread = m.thread
          /\ r.state = IF m.state = "full" THEN "partial" ELSE m.state
      BY <3>1, <3>2 DEF Record, States
    <3>4. m.state # "full" => r = m
      BY <3>1 DEF Record
    <3>5. m.state = "full" => r = [m EXCEPT !.state = "partial"]
      OBVIOUS
    <3> QED
      BY <1>5, <3>3, <3>4, <3>5
  <2>3. metas' = [metas EXCEPT ![s] = r]
    BY <1>5, <2>1, <2>2
  <2>4. SoundRecord(s, r)
    <3>1. /\ SoundRecord(s, o) /\ Carved(s) = Slotted(s, o.class, 0, o.bump)
      BY CarvedSlots DEF Records
    <3>2. r.used = r.bump - Cardinality(r.free)
      <4>1. Cardinality(o.free) \in Nat /\ o.used = o.bump - Cardinality(o.free)
        BY <1>3, <3>1, FS_CardinalityType DEF SoundRecord
      <4> HIDE DEF r, o, n
      <4> QED
        BY <1>1, <1>3, <2>2, <4>1
    <3>3. o.state # "kept"
      <4>1. o.used # 0
        BY <1>1, <1>3, <1>4
      <4> QED
        BY <3>1, <4>1 DEF SoundRecord
    <3>4. r.free # {} /\ r.state # "full"
      BY <2>2
    <3> HIDE DEF r, o, n, m
    <3> QED
      BY <2>2, <3>1, <3>2, <3>3, <3>4 DEF SoundRecord
  <2>5. o.state # "kept" /\ r.state # "kept" /\ r.state # "full" /\ r.used # 0
    <3>1. SoundRecord(s, o)
      BY DEF Records
    <3>2. o.used # 0
      BY <1>1, <1>3, <1>4
    <3>3. o.state # "kept"
      BY <3>1, <3>2 DEF SoundRecord
    <3> QED
      BY <1>5, <1>7, <2>2, <3>3
  <2> HIDE DEF r, m, n
  <2>6. /\ Spans' = Spans /\ metas'[s] = r /\ \A x \in Spans \ {s} : metas'[x] = metas[x]
        /\ metas' \in [Spans' -> Record] /\ Records'
    BY <2>2, <2>3, <2>4, RecordPut
  <2>7. \A x \in Spans : metas'[x].class = metas[x].class /\ metas'[x].bump = metas[x].bump
                         /\ metas'[x].thread = metas[x].thread
    BY <2>2, <2>6
  <2>8. Layout'
    BY <2>1, <2>6, <2>7, LayoutKept
  <2>9. KeptList'
    BY <2>1, <2>5, <2>6, KeptListKept
  <2>10. Listed' /\ partial' \in [Class -> SUBSET Place]
    <3>1. partial \in [Class -> SUBSET Place]
      BY DEF Types
    <3>2. CASE o.state = "full"
      <4>1. /\ partial' = [partial EXCEPT ![o.class] = @ \cup {s}] /\ r.state = "partial"
            /\ r.class = o.class
        BY <1>5, <2>1, <2>2, <3>2
      <4>2. partial' \in [Class -> SUBSET Place]
        BY <1>1, <3>1, <4>1
      <4>3. \A c \in Class : \A x \in Place :
               x \in partial'[c] <=> x \in partial[c] \/ (x = s /\ c = o.class)
        BY <1>1, <3>1, <4>1
      <4>4. \A c \in Class : cur[c] # s
        BY <3>2, NoneAssumption, <1>1 DEF Listed, Place
      <4>5. o.state \notin {"cur", "kept", "partial"}
        BY <3>2
      <4> HIDE DEF o
      <4> QED
        BY <1>1, <2>1, <2>6, <4>1, <4>2, <4>3, <4>4, <4>5 DEF Listed, o
    <3>3. CASE o.state # "full"
      <4>1. r.state = o.state /\ partial' = partial
        BY <1>5, <2>1, <2>2, <3>3
      <4> QED
        BY <2>1, <2>6, <2>7, <3>1, <4>1, ListedKept
    <3> QED
      BY <3>2, <3>3
  <2>11. Uncollected' = Uncollected
    BY <2>6, <2>7 DEF Uncollected
  <2>12. Rows' = Rows /\ Abroad' = Abroad /\ Carried' = Carried
    BY DEF Rows, Abroad, Carried
  <2>13. Apart'
    BY <2>11, <2>12 DEF Apart
  <2>14. Out' = Out \ run
    <3>1. run \cap Rows = {} /\ run \cap Carried = {} /\ run \cap Uncollected = {}
      BY DEF Apart
    <3> QED
      BY <2>11, <2>12, <3>1 DEF Out
  <2>15. Homes'
    <3>1. Carved(s) = Slotted(s, o.class, 0, r.bump)
      BY <2>2, CarvedSlots
    <3>2. \A b \in Carved(s) : b \in Out' <=> b \notin r.free
      BY <2>2, <2>14 DEF Homes
    <3>3. \A b : b \notin Carved(s) => (b \in Out' <=> b \in Out)
      BY <2>14
    <3>4. r.bump \in Nat /\ o.bump <= r.bump /\ r.bump <= Slots[o.class]
      BY <1>1, <2>2 DEF Records, SoundRecord
    <3> HIDE DEF o
    <3> QED
      BY <2>2, <2>6, <3>1, <3>2, <3>3, <3>4, HomesChanged DEF o
  <2>16. Calling'
    <3>1. \A x \in Spans : metas[x].used = 0 => metas[x].state = "kept"
      BY DEF Calling, Emptied
    <3>2. \A x \in Spans : metas'[x].used = 0 => metas'[x].state = "kept"
      BY <2>5, <2>6, <3>1
    <3> QED
      BY <2>6, <3>2 DEF Calling, Emptied
  <2>17. Types'
    <3>1. live' \subseteq Block /\ row' \in [Small -> SUBSET Block]
          /\ remote' \in [Thread -> Release \cup {none}]
          /\ cur' \in [Class -> Place \cup {none}] /\ kept' \in Seq(Place)
      BY <2>1 DEF Types
    <3> QED
      BY <2>1, <2>6, <2>10, <3>1, TypesPut
  <2>18. Rowed' /\ OneEach'
    BY <2>12 DEF Rowed, OneEach
  <2> QED
    BY <2>6, <2>8, <2>9, <2>10, <2>13, <2>15, <2>16, <2>17, <2>18
<1> QED
  BY <1>6, <1>7

-----------------------------------------------------------------------------
(* The owner's releases.                                                   *)

\* A block that is out is of the span the page map names.
LEMMA OutHome ==
    ASSUME HeapInv, NEW b \in Out
    PROVE  SpanOf(b) \in Spans /\ b \in Carved(SpanOf(b))
<1> USE DEF HeapInv
<1>1. PICK s \in Spans : b \in Carved(s)
  BY DEF Homes
<1>2. SpanOf(b) = s
  BY <1>1, HomeFound
<1> QED
  BY <1>1, <1>2

\* release_chain and settle_chain: a run of the spilled blocks, of one span.
LEMMA SpillRunKeeps ==
    ASSUME HeapInv, SpillRun
    PROVE  HeapInv'
<1>1. /\ call.op = "spill" /\ UNCHANGED <<live, row, remote>>
  BY DEF SpillRun
<1>2. PICK s \in Spans : \E run \in (SUBSET {b \in call.left : SpanOf(b) = s}) \ {{}} :
         /\ call' = IF call.left \ run = {} THEN Idle ELSE [call EXCEPT !.left = call.left \ run]
         /\ Settle(s, run)
  BY DEF SpillRun
<1>3. PICK run \in (SUBSET {b \in call.left : SpanOf(b) = s}) \ {{}} :
         /\ call' = IF call.left \ run = {} THEN Idle ELSE [call EXCEPT !.left = call.left \ run]
         /\ Settle(s, run)
  BY <1>2
<1>4. call \in [op : {"spill"}, left : SUBSET Block]
  BY <1>1 DEF HeapInv, Types, Calls
<1>5. Spilling = call.left /\ run \subseteq Spilling /\ run # {}
  BY <1>1, <1>3 DEF Spilling
<1>6. run \in SUBSET Carved(s)
  <2>1. \A b \in run : b \in Out /\ SpanOf(b) = s
    BY <1>3, <1>5 DEF Out
  <2> QED
    BY <2>1, OutHome
<1>7. live' = live \ run
  BY <1>1, <1>5 DEF HeapInv, Apart
<1>8. /\ Spilling' = Spilling \ run
      /\ call' \in Calls /\ call'.op \in {"none", "spill"}
  <2>1. CASE call.left \ run = {}
    <3>1. call' = Idle /\ call'.op = "none"
      BY <1>3, <2>1 DEF Idle
    <3> QED
      BY <1>5, <2>1, <3>1 DEF Spilling, Calls, Idle
  <2>2. CASE call.left \ run # {}
    <3>1. call' = [call EXCEPT !.left = call.left \ run]
      BY <1>3, <2>2
    <3>2. /\ call' \in [op : {"spill"}, left : SUBSET Block]
          /\ call'.op = "spill" /\ call'.left = call.left \ run
      BY <1>4, <3>1
    <3> QED
      BY <1>5, <3>2 DEF Spilling, Calls
  <2> QED
    BY <2>1, <2>2
<1> QED
  BY <1>1, <1>3, <1>5, <1>6, <1>7, <1>8, SettleKeeps

\* free_medium's last block of a span that is held back: the span is empty and
\* the call is about to keep it.
LEMMA FreeLastKeeps ==
    ASSUME HeapInv, NEW b \in live, NEW s \in Spans, b \in Carved(s),
           metas[s].used = 1, Keeps(s), call = Idle, live' = live \ {b},
           metas' = [metas EXCEPT ![s].free = @ \cup {b}, ![s].used = 0],
           call' = [op |-> "keep", span |-> s],
           UNCHANGED <<row, remote>>,
           UNCHANGED <<cur, partial, kept, keptPages, freePages, advised, arenas, spare>>
    PROVE  HeapInv'
<1> USE DEF HeapInv
<1> DEFINE o == metas[s]
           m == [o EXCEPT !.free = @ \cup {b}, !.used = 0]
<1>1. /\ o \in Record /\ o.class \in Class /\ o.bump \in Nat /\ o.used \in Nat
      /\ o.free \subseteq Block /\ s \in Place /\ b \in Block
      /\ o.state = "cur" /\ Touched(s) <= KeptBudget
  BY SpanTyped, RecordFields, CarvedFacts DEF Keeps
<1>2. /\ IsFiniteSet(o.free) /\ Cardinality(o.free \cup {b}) = Cardinality(o.free) + 1
  <2>1. {b} \in SUBSET Carved(s) /\ {b} \subseteq Out
    BY DEF Out
  <2>2. /\ IsFiniteSet(o.free)
        /\ Cardinality(o.free \cup {b}) = Cardinality(o.free) + Cardinality({b})
    BY <2>1, OutCount
  <2>3. Cardinality({b}) = 1
    BY FS_Singleton
  <2> QED
    BY <2>2, <2>3
<1>3. /\ m \in Record /\ m.free = o.free \cup {b} /\ m.used = 0
      /\ m.class = o.class /\ m.bump = o.bump /\ m.thread = o.thread /\ m.state = "cur"
  <2>1. o.free \cup {b} \in SUBSET Block
    BY <1>1
  <2> QED
    BY <1>1, <2>1 DEF Record
<1>4. metas' = [metas EXCEPT ![s] = m]
  BY <1>1 DEF Types
<1>5. SoundRecord(s, m)
  <2>1. SoundRecord(s, o) /\ Carved(s) = Slotted(s, o.class, 0, o.bump)
    BY CarvedSlots DEF Records
  <2>2. m.used = m.bump - Cardinality(m.free)
    <3>1. Cardinality(o.free) \in Nat /\ 1 = o.bump - Cardinality(o.free)
      BY <1>2, <2>1, FS_CardinalityType DEF SoundRecord
    <3> HIDE DEF m, o
    <3> QED
      BY <1>1, <1>2, <1>3, <3>1
  <2> HIDE DEF m, o
  <2> QED
    BY <1>3, <2>1, <2>2 DEF SoundRecord
<1> HIDE DEF m
<1>6. /\ Spans' = Spans /\ metas'[s] = m /\ \A x \in Spans \ {s} : metas'[x] = metas[x]
      /\ metas' \in [Spans' -> Record] /\ Records'
  BY <1>3, <1>4, <1>5, RecordPut
<1>7. \A x \in Spans : metas'[x].class = metas[x].class /\ metas'[x].bump = metas[x].bump
                       /\ metas'[x].thread = metas[x].thread
                       /\ metas'[x].state = metas[x].state
  BY <1>1, <1>3, <1>6
<1>8. Layout' /\ Listed' /\ KeptList'
  BY <1>6, <1>7, LayoutKept, ListedKept, KeptListKept
<1>9. call.op = "none" /\ call'.op = "keep" /\ call'.span = s /\ call' \in Calls
  BY <1>1 DEF Idle, Calls
<1>10. /\ Uncollected' = Uncollected /\ Rows' = Rows /\ Abroad' = Abroad /\ Carried' = Carried
       /\ Spilling' = Spilling
  BY <1>6, <1>7, <1>9 DEF Uncollected, Rows, Abroad, Carried, Spilling
<1>11. Apart' /\ Out' = Out \ {b}
  BY <1>10 DEF Apart, Out
<1>12. Homes'
  <2>1. Carved(s) = Slotted(s, o.class, 0, m.bump)
    BY <1>3, CarvedSlots
  <2>2. \A e \in Carved(s) : e \in Out' <=> e \notin m.free
    BY <1>3, <1>11 DEF Homes
  <2>3. \A e : e \notin Carved(s) => (e \in Out' <=> e \in Out)
    BY <1>11
  <2>4. m.bump \in Nat /\ o.bump <= m.bump /\ m.bump <= Slots[o.class]
    BY <1>1, <1>3 DEF Records, SoundRecord
  <2> HIDE DEF o
  <2> QED
    BY <1>3, <1>6, <2>1, <2>2, <2>3, <2>4, HomesChanged DEF o
<1>13. Calling'
  <2>1. \A x \in Spans : metas[x].used = 0 => metas[x].state = "kept"
    BY <1>9 DEF Calling, Emptied
  <2>2. \A x \in Spans' : metas'[x].used = 0 => Emptied(x)'
    BY <1>6, <1>9, <2>1 DEF Emptied
  <2>3. (Touched(call.span))' = Touched(s)
    BY <1>7, <1>9 DEF Touched
  <2> QED
    BY <1>1, <1>3, <1>6, <1>9, <2>2, <2>3 DEF Calling
<1>14. Types'
  <2>1. live' \subseteq Block
    BY DEF Types
  <2> QED
    BY <1>6, <1>9, <2>1, TypesPut DEF Types
<1>15. Rowed' /\ OneEach'
  BY <1>10 DEF Rowed, OneEach
<1> QED
  BY <1>6, <1>8, <1>11, <1>12, <1>13, <1>14, <1>15

\* free_medium.
LEMMA FreeMediumKeeps ==
    ASSUME HeapInv, NEW b, FreeMedium(b)
    PROVE  HeapInv'
<1> DEFINE s == SpanOf(b)
<1>1. /\ call = Idle /\ b \in live /\ live' = live \ {b} /\ UNCHANGED <<row, remote>>
      /\ \/ Settle(s, {b}) /\ call' = call
         \/ metas[s].used = 1 /\ Retire(s, TRUE) /\ call' = call
         \/ /\ metas[s].used = 1
            /\ Keeps(s)
            /\ metas' = [metas EXCEPT ![s].free = @ \cup {b}, ![s].used = 0]
            /\ call' = [op |-> "keep", span |-> s]
            /\ UNCHANGED <<cur, partial, kept, keptPages, freePages, advised, arenas, spare>>
  BY DEF FreeMedium
<1>2. s \in Spans /\ b \in Carved(s)
  BY <1>1, OutHome DEF Out
<1> HIDE DEF s
<1>3. call.op = "none" /\ Spilling = {} /\ call \in Calls
  BY <1>1 DEF Idle, Spilling, HeapInv, Types
<1>4. {b} \in SUBSET Carved(s) /\ {b} # {} /\ {b} \subseteq live \cup Spilling
  BY <1>1, <1>2
<1>5. call' = call => Spilling' = Spilling \ {b}
  BY <1>3 DEF Spilling
<1>6. CASE Settle(s, {b}) /\ call' = call
  BY <1>1, <1>2, <1>3, <1>4, <1>5, <1>6, SettleKeeps
<1>7. CASE metas[s].used = 1 /\ Retire(s, TRUE) /\ call' = call
  <2>1. Cardinality({b}) = 1
    BY FS_Singleton
  <2> QED
    BY <1>1, <1>2, <1>3, <1>4, <1>5, <1>7, <2>1, RetireKeeps
<1>8. CASE /\ metas[s].used = 1
           /\ Keeps(s)
           /\ metas' = [metas EXCEPT ![s].free = @ \cup {b}, ![s].used = 0]
           /\ call' = [op |-> "keep", span |-> s]
           /\ UNCHANGED <<cur, partial, kept, keptPages, freePages, advised, arenas, spare>>
  BY <1>1, <1>2, <1>8, FreeLastKeeps
<1> QED
  BY <1>1, <1>6, <1>7, <1>8

\* What a call of keep has in hand is empty, current and not on the kept list.
LEMMA KeepFacts ==
    ASSUME HeapInv, call.op = "keep"
    PROVE  /\ call.span \in Spans /\ call.span \in Place
           /\ metas[call.span].used = 0 /\ metas[call.span].state = "cur"
           /\ Touched(call.span) \in Nat /\ Touched(call.span) <= KeptBudget
           /\ Spilling = {} /\ keptPages \in Nat
<1>1. /\ call.span \in Spans /\ metas[call.span].used = 0 /\ metas[call.span].state = "cur"
      /\ Touched(call.span) <= KeptBudget
  BY DEF HeapInv, Calling
<1>2. keptPages \in Nat
  BY FS_CardinalityType DEF HeapInv, KeptList
<1> QED
  BY <1>1, <1>2, TouchedNat, SpanTyped DEF HeapInv, Spilling

\* keep's loop: the oldest kept span, which there is, goes.
LEMMA KeepEvictKeeps ==
    ASSUME HeapInv, KeepEvict
    PROVE  HeapInv'
<1> USE DEF HeapInv
<1> DEFINE x == call.span
           l == Len(kept)
           s == kept[l]
<1>1. /\ call.op = "keep" /\ keptPages + Touched(x) > KeptBudget
      /\ Retire(Last(kept), TRUE) /\ UNCHANGED <<live, row, call, remote>>
  BY DEF KeepEvict
<1>2. /\ x \in Spans /\ metas[x].state = "cur" /\ Touched(x) \in Nat
      /\ Touched(x) <= KeptBudget /\ Spilling = {} /\ keptPages \in Nat
  BY <1>1, KeepFacts
<1>3. kept \in Seq(Place) /\ l \in Nat /\ DOMAIN kept = 1 .. l
  BY DEF Types
<1>4. l # 0
  <2> SUFFICES ASSUME l = 0 PROVE FALSE
    OBVIOUS
  <2>1. Range(kept) = {}
    BY <1>3 DEF Range
  <2>2. WrittenPages = {}
    BY <2>1 DEF WrittenPages
  <2>3. Cardinality({}) = 0
    BY FS_EmptySet
  <2>4. keptPages = 0
    BY <2>2, <2>3 DEF KeptList
  <2> HIDE DEF x, l
  <2>5. KeptBudget \in Nat
    BY LimitsAssumption
  <2> QED
    BY <1>1, <1>2, <2>4, <2>5
<1>5. l \in DOMAIN kept /\ s \in Place
  BY <1>3, <1>4
<1>6. s \in Spans /\ metas[s].state = "kept" /\ metas[s].used = 0
  <2>1. s \in Spans /\ metas[s].state = "kept"
    <3> HIDE DEF l
    <3> QED
      BY <1>5 DEF KeptList
  <2> QED
    BY <2>1 DEF Records, SoundRecord
<1>7. Retire(s, TRUE)
  BY <1>1 DEF Last
<1>8. x # s
  BY <1>2, <1>6
<1>9. Spilling' = Spilling \ {} /\ live' = live \ {} /\ call' \in Calls
  BY <1>1 DEF Spilling, Types
<1>10. Cardinality({}) = metas[s].used
  BY <1>6, FS_EmptySet
<1> HIDE DEF s
<1>11. {} \in SUBSET Carved(s) /\ {} \subseteq live \cup Spilling
  OBVIOUS
<1> QED
  BY <1>1, <1>6, <1>7, <1>8, <1>9, <1>10, <1>11, RetireKeeps

\* keep: the span is the newest kept one, and its written pages are counted.
LEMMA KeepKeeps ==
    ASSUME HeapInv, Keep, NEW s, s = call.span
    PROVE  HeapInv'
<1> USE DEF HeapInv
<1> DEFINE o == metas[s]
           m == [o EXCEPT !.state = "kept"]
           n == Touched(s)
           S == {s} \X (1 .. n)
<1>1. /\ call.op = "keep" /\ keptPages + n <= KeptBudget
      /\ metas' = [metas EXCEPT ![s].state = "kept"]
      /\ kept' = <<s>> \o kept
      /\ keptPages' = keptPages + n
      /\ call' = Idle
      /\ UNCHANGED <<live, row, cur, partial, freePages, advised, arenas, spare, remote>>
  BY DEF Keep
<1>2. /\ s \in Spans /\ s \in Place /\ o.used = 0 /\ o.state = "cur"
      /\ n \in Nat /\ n <= KeptBudget /\ Spilling = {} /\ keptPages \in Nat
  BY <1>1, KeepFacts
<1>3. o \in Record /\ o.class \in Class
  BY <1>2, SpanTyped
<1>4. /\ m \in Record /\ m.free = o.free /\ m.used = o.used
      /\ m.class = o.class /\ m.bump = o.bump /\ m.thread = o.thread /\ m.state = "kept"
  BY <1>3 DEF Record, States
<1>5. metas' = [metas EXCEPT ![s] = m]
  BY <1>1, <1>2 DEF Types
<1>6. SoundRecord(s, m)
  <2>1. SoundRecord(s, o)
    BY <1>2 DEF Records
  <2> HIDE DEF m, o
  <2> QED
    BY <1>2, <1>4, <2>1 DEF SoundRecord
<1> HIDE DEF m
<1>7. /\ Spans' = Spans /\ metas'[s] = m /\ \A x \in Spans \ {s} : metas'[x] = metas[x]
      /\ metas' \in [Spans' -> Record] /\ Records'
  BY <1>2, <1>4, <1>5, <1>6, RecordPut
<1>8. \A x \in Spans : metas'[x].class = metas[x].class /\ metas'[x].bump = metas[x].bump
                       /\ metas'[x].thread = metas[x].thread /\ metas'[x].free = metas[x].free
                       /\ metas'[x].used = metas[x].used
  BY <1>4, <1>7
<1>9. \A x \in Spans : Touched(x)' = Touched(x)
  BY <1>8 DEF Touched
<1>10. Layout'
  BY <1>1, <1>7, <1>8, LayoutKept
<1>11. Listed'
  <2>1. \A x \in Spans : /\ metas[x].state = "partial" <=> metas'[x].state = "partial"
                         /\ metas[x].state \in {"cur", "kept"} <=> metas'[x].state \in {"cur", "kept"}
    BY <1>2, <1>4, <1>7
  <2> QED
    BY <1>1, <1>7, <1>8, <2>1 DEF Listed
<1>12. KeptList' /\ kept' \in Seq(Place)
  <2>1. kept \in Seq(Place) /\ IsInjective(kept)
    BY DEF Types, KeptList, IsInjective
  <2>2. s \notin Range(kept) /\ Range(kept) \subseteq Spans
    <3>1. \A i \in DOMAIN kept : kept[i] \in Place
      BY <2>1
    <3>2. \A i \in DOMAIN kept : kept[i] \in Spans /\ metas[kept[i]].state = "kept"
      BY <3>1 DEF KeptList
    <3> QED
      BY <1>2, <3>2 DEF Range
  <2>3. /\ kept' \in Seq(Place) /\ IsInjective(kept')
        /\ Range(kept') = {s} \cup Range(kept)
    BY <1>1, <1>2, <2>1, <2>2, PushedList
  <2>4. \A x : (\E i \in DOMAIN kept' : kept'[i] = x)
               <=> x = s \/ \E i \in DOMAIN kept : kept[i] = x
    <3>1. \A x : x \in Range(kept') <=> \E i \in DOMAIN kept' : kept'[i] = x
      BY DEF Range
    <3>2. \A x : x \in Range(kept) <=> \E i \in DOMAIN kept : kept[i] = x
      BY DEF Range
    <3> QED
      BY <2>3, <3>1, <3>2
  <2>5. \A i, j \in DOMAIN kept' : kept'[i] = kept'[j] => i = j
    BY <2>3 DEF IsInjective
  <2>6. \A x \in Place : (\E i \in DOMAIN kept' : kept'[i] = x)
                         <=> x \in Spans' /\ metas'[x].state = "kept"
    <3>1. \A x \in Place : (\E i \in DOMAIN kept : kept[i] = x)
                           <=> x \in Spans /\ metas[x].state = "kept"
      BY DEF KeptList
    <3> QED
      BY <1>2, <1>4, <1>7, <2>4, <3>1
  <2>7. WrittenPages' = WrittenPages \cup S /\ WrittenPages \cap S = {}
    <3>1. \A e : e \in WrittenPages <=> \E x \in Range(kept) : e \in {x} \X (1 .. Touched(x))
      BY DEF WrittenPages
    <3>2. \A e : e \in WrittenPages'
                 <=> \E x \in Range(kept') : e \in {x} \X (1 .. Touched(x)')
      BY DEF WrittenPages
    <3>3. \A x : x # s => \A e \in {x} \X (1 .. Touched(x)) : e \notin S
      OBVIOUS
    <3>4. Touched(s)' = n
      BY <1>2, <1>9
    <3>5. \A x \in Range(kept) : Touched(x)' = Touched(x)
      BY <1>9, <2>2
    <3>6. \A e : e \in WrittenPages' <=> e \in S \/ e \in WrittenPages
      <4> SUFFICES ASSUME NEW e
                   PROVE  e \in WrittenPages' <=> e \in S \/ e \in WrittenPages
        OBVIOUS
      <4>1. e \in WrittenPages' <=> \/ e \in {s} \X (1 .. Touched(s)')
                                    \/ \E x \in Range(kept) : e \in {x} \X (1 .. Touched(x)')
        BY <2>3, <3>2
      <4>2. e \in {s} \X (1 .. Touched(s)') <=> e \in S
        BY <3>4
      <4>3. (\E x \in Range(kept) : e \in {x} \X (1 .. Touched(x)')) <=> e \in WrittenPages
        BY <3>1, <3>5
      <4> QED
        BY <4>1, <4>2, <4>3
    <3>7. \A e \in WrittenPages : e \notin S
      BY <2>2, <3>1, <3>3
    <3> HIDE DEF S
    <3> QED
      BY <3>6, <3>7
  <2>8. IsFiniteSet(S) /\ Cardinality(S) = n
    BY <1>2, WrittenOne
  <2>9. IsFiniteSet(WrittenPages) /\ keptPages = Cardinality(WrittenPages)
    BY DEF KeptList
  <2> HIDE DEF S, n
  <2>10. Cardinality({}) = 0
    BY FS_EmptySet
  <2>11. Cardinality(WrittenPages \cap S) = 0
    BY <2>7, <2>10
  <2>12. /\ IsFiniteSet(WrittenPages \cup S)
         /\ Cardinality(WrittenPages \cup S)
               = Cardinality(WrittenPages) + Cardinality(S) - Cardinality(WrittenPages \cap S)
    BY <2>8, <2>9, FS_Union
  <2>13. IsFiniteSet(WrittenPages') /\ Cardinality(WrittenPages') = keptPages + n - 0
    BY <2>7, <2>8, <2>9, <2>11, <2>12
  <2>14. keptPages' = Cardinality(WrittenPages') /\ keptPages' <= KeptBudget
    <3>1. keptPages + n - 0 = keptPages + n
      BY <1>2
    <3> QED
      BY <1>1, <2>13, <3>1
  <2> QED
    BY <2>3, <2>5, <2>6, <2>13, <2>14 DEF KeptList
<1>13. call'.op = "none" /\ call' \in Calls
  BY <1>1 DEF Idle, Calls
<1>14. /\ Uncollected' = Uncollected /\ Rows' = Rows /\ Abroad' = Abroad /\ Carried' = Carried
       /\ Spilling' = Spilling
  BY <1>1, <1>2, <1>7, <1>8, <1>13 DEF Uncollected, Rows, Abroad, Carried, Spilling
<1>15. Apart' /\ Out' = Out
  BY <1>1, <1>14 DEF Apart, Out
<1>16. Homes'
  BY <1>7, <1>8, <1>15, HomesKept
<1>17. Calling'
  <2>1. \A x \in Spans : metas[x].used = 0 => metas[x].state = "kept" \/ x = s
    BY <1>1 DEF Calling, Emptied
  <2>2. \A x \in Spans' : metas'[x].used = 0 => metas'[x].state = "kept"
    BY <1>4, <1>7, <2>1
  <2> QED
    BY <1>13, <2>2 DEF Calling, Emptied
<1>18. Types'
  <2>1. /\ live' \subseteq Block /\ row' \in [Small -> SUBSET Block]
        /\ remote' \in [Thread -> Release \cup {none}]
        /\ cur' \in [Class -> Place \cup {none}] /\ partial' \in [Class -> SUBSET Place]
    BY <1>1 DEF Types
  <2> QED
    BY <1>1, <1>7, <1>12, <1>13, <2>1, TypesPut
<1>19. Rowed' /\ OneEach'
  BY <1>1, <1>14 DEF Rowed, OneEach
<1> QED
  BY <1>7, <1>10, <1>11, <1>12, <1>15, <1>16, <1>17, <1>18, <1>19

-----------------------------------------------------------------------------
(* Opening a span.                                                         *)

\* open_span: a partial span is the current one again.
LEMMA ReopenKeeps ==
    ASSUME HeapInv, NEW c \in Class, Reopen(c)
    PROVE  HeapInv'
<1> USE DEF HeapInv
<1>1. /\ call.op = "alloc" /\ c = call.class /\ cur[c] = none
      /\ UNCHANGED <<live, row, kept, keptPages, freePages, advised, arenas,
                     spare, call, remote>>
  BY DEF Reopen, Allocating
<1>2. PICK s \in partial[c] : /\ partial' = [partial EXCEPT ![c] = @ \ {s}]
                              /\ metas' = [metas EXCEPT ![s].state = "cur"]
                              /\ cur' = [cur EXCEPT ![c] = s]
  BY DEF Reopen
<1> DEFINE o == metas[s]
           m == [o EXCEPT !.state = "cur"]
<1>3. s \in Spans /\ s \in Place /\ o.class = c /\ o.state = "partial"
  BY <1>2 DEF Types, Listed
<1>4. o \in Record
  BY <1>3, SpanTyped
<1>5. /\ m \in Record /\ m.free = o.free /\ m.used = o.used
      /\ m.class = o.class /\ m.bump = o.bump /\ m.thread = o.thread /\ m.state = "cur"
  BY <1>4 DEF Record, States
<1>6. metas' = [metas EXCEPT ![s] = m]
  BY <1>2, <1>3 DEF Types
<1>7. SoundRecord(s, m)
  <2>1. SoundRecord(s, o)
    BY <1>3 DEF Records
  <2> HIDE DEF m, o
  <2> QED
    BY <1>5, <2>1 DEF SoundRecord
<1> HIDE DEF m
<1>8. /\ Spans' = Spans /\ metas'[s] = m /\ \A x \in Spans \ {s} : metas'[x] = metas[x]
      /\ metas' \in [Spans' -> Record] /\ Records'
  BY <1>3, <1>5, <1>6, <1>7, RecordPut
<1>9. \A x \in Spans : metas'[x].class = metas[x].class /\ metas'[x].bump = metas[x].bump
                       /\ metas'[x].thread = metas[x].thread /\ metas'[x].free = metas[x].free
                       /\ metas'[x].used = metas[x].used
  BY <1>5, <1>8
<1>10. Layout'
  BY <1>1, <1>8, <1>9, LayoutKept
<1>11. KeptList'
  BY <1>1, <1>3, <1>5, <1>8, <1>9, KeptListKept
<1>12. /\ cur' \in [Class -> Place \cup {none}] /\ partial' \in [Class -> SUBSET Place]
       /\ cur'[c] = s /\ \A d \in Class \ {c} : cur'[d] = cur[d]
       /\ \A d \in Class : \A x \in Place :
             x \in partial'[d] <=> x \in partial[d] /\ ~(d = c /\ x = s)
  BY <1>2, <1>3 DEF Types
<1>13. Listed'
  <2>1. \A d \in Class : \A x \in Place :
           x \in partial'[d] <=> x \in Spans' /\ metas'[x].class = d
                                 /\ metas'[x].state = "partial"
    <3>1. \A d \in Class : \A x \in Place :
             x \in partial[d] <=> x \in Spans /\ metas[x].class = d
                                  /\ metas[x].state = "partial"
      BY DEF Listed
    <3> QED
      BY <1>3, <1>5, <1>8, <1>12, <3>1
  <2>2. \A d \in Class : cur'[d] # none =>
           /\ cur'[d] \in Spans' /\ metas'[cur'[d]].class = d
           /\ metas'[cur'[d]].state \in {"cur", "kept"}
    BY <1>3, <1>5, <1>8, <1>12 DEF Listed
  <2>3. \A x \in Spans' : metas'[x].state \in {"cur", "kept"} => cur'[metas'[x].class] = x
    <3> SUFFICES ASSUME NEW x \in Spans \ {s}, metas[x].state \in {"cur", "kept"}
                 PROVE  cur'[metas[x].class] = x
      BY <1>3, <1>5, <1>8, <1>12
    <3>1. cur[metas[x].class] = x /\ metas[x].class \in Class
      BY SpanTyped DEF Listed
    <3>2. x # none
      BY NoneAssumption, SpanTyped DEF Place
    <3> QED
      BY <1>1, <1>12, <3>1, <3>2
  <2> QED
    BY <2>1, <2>2, <2>3 DEF Listed
<1>14. /\ Uncollected' = Uncollected /\ Rows' = Rows /\ Abroad' = Abroad /\ Carried' = Carried
       /\ Spilling' = Spilling
  BY <1>1, <1>8, <1>9 DEF Uncollected, Rows, Abroad, Carried, Spilling
<1>15. Apart' /\ Out' = Out
  BY <1>1, <1>14 DEF Apart, Out
<1>16. Homes'
  BY <1>8, <1>9, <1>15, HomesKept
<1>17. Calling'
  <2>1. \A x \in Spans : metas[x].used = 0 => metas[x].state = "kept"
    <3>1. \A x \in Spans : x # none
      BY NoneAssumption, SpanTyped DEF Place
    <3> QED
      BY <1>1, <3>1 DEF Calling, Emptied
  <2>2. \A x \in Spans' : metas'[x].used = 0 => Emptied(x)'
    <3>1. \A x \in Spans \ {s} : metas'[x].used = 0 => metas'[x].state = "kept"
      BY <1>8, <2>1
    <3>2. metas'[s].used = 0 => FALSE
      BY <1>3, <1>9, <2>1
    <3> QED
      BY <1>8, <3>1, <3>2 DEF Emptied
  <2> QED
    BY <1>1, <2>2 DEF Calling
<1>18. Types'
  BY <1>1, <1>8, <1>12, TypesPut DEF Types
<1>19. Rowed' /\ OneEach'
  BY <1>1, <1>14 DEF Rowed, OneEach
<1> QED
  BY <1>8, <1>10, <1>11, <1>13, <1>15, <1>16, <1>17, <1>18, <1>19

\* find_run finds a first run, within the pages it was given.
LEMMA FirstRun ==
    ASSUME NEW f \in SUBSET Page, NEW n \in Nat \ {0}, Runs(f, n) # {}
    PROVE  LET first == Min(Runs(f, n))
           IN  /\ first \in Page /\ first .. first + n - 1 \subseteq f
               /\ first \in first .. first + n - 1
<1> DEFINE R == Runs(f, n)
           first == Min(R)
<1>1. R \subseteq f /\ R \subseteq Page /\ R # {}
  BY DEF Runs
<1>2. ArenaPages \in Nat
  BY GeometryAssumption
<1>3. R \in SUBSET Nat
  BY <1>1, <1>2 DEF Page
<1>4. \E x \in R : \A y \in R : x <= y
  <2> HIDE DEF R
  <2> QED
    BY <1>1, <1>3, LeastNatural
<1>5. first \in R
  BY <1>4 DEF Min
<1> HIDE DEF first
<1>6. first .. first + n - 1 \subseteq f /\ first \in Page /\ first \in Nat
  BY <1>1, <1>2, <1>5 DEF Runs, Page
<1>7. first \in first .. first + n - 1
  BY <1>6
<1> QED
  BY <1>6, <1>7 DEF first

\* carve: a span of no blocks yet, on pages that were free, is the current one.
LEMMA CarveKeeps ==
    ASSUME HeapInv, NEW c \in Class, call.op = "alloc", c = call.class, cur[c] = none,
           NEW a \in Arena, NEW f \in SUBSET Page, NEW h \in SUBSET f,
           Runs(f, Pages[c]) # {}, Carve(a, c, f, h),
           \/ a \in Mapped /\ f = freePages[a] /\ h = advised[a]
           \/ a \notin Mapped /\ f = Page,
           spare' = IF spare = a THEN none ELSE spare,
           UNCHANGED <<live, row, partial, kept, keptPages, remote, call>>
    PROVE  HeapInv'
<1> USE DEF HeapInv
<1> DEFINE n == Pages[c]
           first == Min(Runs(f, n))
           run == first .. first + n - 1
           s == <<a, first>>
<1>1. /\ metas' = [x \in Spans \cup {s} |-> IF x = s THEN Fresh(c) ELSE metas[x]]
      /\ cur' = [cur EXCEPT ![c] = s]
      /\ freePages' = [x \in Mapped \cup {a} |->
                            IF x = a THEN f \ run ELSE freePages[x]]
      /\ advised' = [x \in Mapped \cup {a} |-> IF x = a THEN h \ run ELSE advised[x]]
      /\ arenas' = IF f = run THEN arenas \ {a} ELSE arenas \cup {a}
  BY DEF Carve
<1>2. n \in Nat \ {0} /\ Runs(f, n) # {}
  BY Geometry
<1>3. first \in Page /\ run \subseteq f /\ first \in run
  <2> HIDE DEF n, s
  <2>1. f \in SUBSET Page
    OBVIOUS
  <2> QED
    BY ONLY <1>2, <2>1, FirstRun
<1>4. s \in Place /\ s[1] = a /\ s[2] = first /\ s # none
  BY <1>3, NoneAssumption DEF Place
<1>5. PagesIn(s, c) = run
  BY <1>4 DEF PagesIn
<1> HIDE DEF n, first, run, s
<1>6. /\ Mapped \subseteq Arena /\ freePages \in [Mapped -> SUBSET Page]
      /\ advised \in [Mapped -> SUBSET Page] /\ spare \in Arena \cup {none}
      /\ arenas \subseteq Arena /\ none \notin Arena
      /\ cur \in [Class -> Place \cup {none}] /\ metas \in [Spans -> Record]
      /\ Spans \subseteq Place
  BY NoneAssumption DEF Types
<1>7. \A p \in f : ~Covered(a, p)
  BY DEF Layout, Covered
<1>8. s \notin Spans
  <2> SUFFICES ASSUME s \in Spans PROVE FALSE
    OBVIOUS
  <2>1. metas[s].class \in Class
    BY SpanTyped
  <2>2. first \in Nat /\ Pages[metas[s].class] \in Nat \ {0}
    BY <1>3, <2>1, Geometry DEF Page
  <2>3. first \in PagesOf(s)
    BY <1>4, <2>2 DEF PagesOf
  <2>4. Covered(a, first)
    BY <1>4, <2>3 DEF Covered
  <2> QED
    BY <1>3, <1>7, <2>4
<1>9. /\ Spans' = Spans \cup {s} /\ metas'[s] = Fresh(c)
      /\ \A x \in Spans : metas'[x] = metas[x]
  BY <1>1, <1>8 DEF Spans
<1>10. /\ Fresh(c) \in Record /\ Fresh(c).class = c /\ Fresh(c).bump = 0
       /\ Fresh(c).used = 0 /\ Fresh(c).free = {} /\ Fresh(c).thread = <<>>
       /\ Fresh(c).state = "cur"
  BY DEF Fresh, Record, States
<1>11. metas' \in [Spans' -> Record] /\ Spans' \subseteq Place
  <2>1. \A x \in Spans' : metas'[x] \in Record
    BY <1>6, <1>9, <1>10
  <2> QED
    BY <1>1, <1>4, <1>6, <1>9, <2>1
<1>12. Records'
  <2>1. SoundRecord(s, Fresh(c))
    <3> DEFINE F == Fresh(c)
    <3>1. /\ F.class = c /\ F.bump = 0 /\ F.used = 0 /\ F.free = {} /\ F.thread = <<>>
          /\ F.state = "cur"
      BY <1>10
    <3> HIDE DEF F
    <3>2. Slots[c] \in Nat /\ 0 <= Slots[c]
      BY Geometry
    <3>3. Cardinality({}) = 0
      BY FS_EmptySet
    <3>4. Range(F.thread) = {} /\ IsInjective(F.thread)
      BY <3>1 DEF Range, IsInjective
    <3>5. F.used = F.bump - Cardinality(F.free)
      BY <3>1, <3>3
    <3>6. SoundRecord(s, F)
      BY <3>1, <3>2, <3>4, <3>5 DEF SoundRecord
    <3> QED
      BY <3>6 DEF F
  <2> QED
    BY <1>9, <2>1 DEF Records
<1>13. PagesOf(s)' = run /\ \A x \in Spans : PagesOf(x)' = PagesOf(x)
  BY <1>5, <1>9, <1>10 DEF PagesOf, PagesIn
<1>14. \A e, p : Covered(e, p)' <=> Covered(e, p) \/ (e = a /\ p \in run)
  BY <1>4, <1>9, <1>13 DEF Covered
<1>15. /\ Mapped' = Mapped \cup {a}
       /\ freePages'[a] = f \ run /\ \A e \in Mapped \ {a} : freePages'[e] = freePages[e]
       /\ advised'[a] = h \ run /\ \A e \in Mapped \ {a} : advised'[e] = advised[e]
       /\ Mapped' \subseteq Arena
       /\ freePages' \in [Mapped' -> SUBSET Page] /\ advised' \in [Mapped' -> SUBSET Page]
       /\ arenas' \subseteq Arena /\ spare' \in Arena \cup {none}
  <2>1. Mapped' = Mapped \cup {a}
    BY <1>1 DEF Mapped
  <2>2. h \subseteq Page
    OBVIOUS
  <2> QED
    BY <1>1, <1>6, <2>1, <2>2
<1>16. Layout'
  <2>1. \A x \in Spans' : x[1] \in Mapped' /\ PagesOf(x)' \subseteq Page
    BY <1>3, <1>4, <1>9, <1>13, <1>15 DEF Layout
  <2>2. \A w, x \in Spans' : w # x /\ w[1] = x[1] => PagesOf(w)' \cap PagesOf(x)' = {}
    <3>1. \A x \in Spans : x[1] = a => PagesOf(x) \cap run = {}
      BY <1>3, <1>7 DEF Covered
    <3> QED
      BY <1>4, <1>9, <1>13, <3>1 DEF Layout
  <2>3. \A e \in Mapped' : \A p \in Page : p \in freePages'[e] <=> ~Covered(e, p)'
    <3>1. \A p \in Page : p \in f <=> ~Covered(a, p)
      BY DEF Layout, Covered
    <3> QED
      BY <1>14, <1>15, <3>1 DEF Layout
  <2>4. \A e \in Mapped' : advised'[e] \subseteq freePages'[e]
    BY <1>15 DEF Layout
  <2>5. \A e \in Mapped' : freePages'[e] = Page <=> e = spare'
    <3>1. freePages'[a] # Page
      BY <1>3, <1>15
    <3> QED
      BY <1>6, <1>15, <3>1 DEF Layout
  <2>6. spare' # none => spare' \in Mapped'
    BY <1>15 DEF Layout
  <2>7. arenas' = {e \in Mapped' \ {spare'} : freePages'[e] # {}}
    <3>1. arenas = {e \in Mapped \ {spare} : freePages[e] # {}}
      BY DEF Layout
    <3>2. spare' # a
      BY <1>6
    <3>3. f \ run = {} <=> f = run
      BY <1>3
    <3>4. \A e \in Mapped \ {a} : e = spare' <=> e = spare
      BY <1>6
    <3>5. \A e : e \in arenas' <=> e \in Mapped' /\ e # spare' /\ freePages'[e] # {}
      BY <1>1, <1>15, <3>1, <3>2, <3>3, <3>4
    <3> QED
      BY <1>15, <3>5
  <2> QED
    BY <2>1, <2>2, <2>3, <2>4, <2>5, <2>6, <2>7 DEF Layout
<1>17. KeptList'
  <2>1. \A x \in Place : /\ x \in Spans /\ metas[x].state = "kept"
                            <=> x \in Spans' /\ metas'[x].state = "kept"
                         /\ x \in Spans /\ metas[x].state = "kept" =>
                               /\ metas'[x].class = metas[x].class
                               /\ metas'[x].bump = metas[x].bump
    BY <1>8, <1>9, <1>10
  <2> QED
    BY <2>1, KeptListKept
<1>18. /\ cur' \in [Class -> Place \cup {none}]
       /\ cur'[c] = s /\ \A d \in Class \ {c} : cur'[d] = cur[d]
  BY <1>1, <1>4, <1>6
<1>19. Listed'
  <2>1. \A d \in Class : \A x \in Place :
           x \in partial'[d] <=> x \in Spans' /\ metas'[x].class = d
                                 /\ metas'[x].state = "partial"
    BY <1>8, <1>9, <1>10 DEF Listed
  <2>2. \A d \in Class : cur'[d] # none =>
           /\ cur'[d] \in Spans' /\ metas'[cur'[d]].class = d
           /\ metas'[cur'[d]].state \in {"cur", "kept"}
    BY <1>8, <1>9, <1>10, <1>18 DEF Listed
  <2>3. \A x \in Spans' : metas'[x].state \in {"cur", "kept"} => cur'[metas'[x].class] = x
    <3> SUFFICES ASSUME NEW x \in Spans, metas[x].state \in {"cur", "kept"}
                 PROVE  cur'[metas[x].class] = x
      BY <1>9, <1>10, <1>18
    <3>1. cur[metas[x].class] = x /\ metas[x].class \in Class
      BY SpanTyped DEF Listed
    <3>2. x # none
      BY NoneAssumption, SpanTyped DEF Place
    <3> QED
      BY <1>18, <3>1, <3>2
  <2> QED
    BY <2>1, <2>2, <2>3 DEF Listed
<1>20. Uncollected' = Uncollected
  <2>1. Range(Fresh(c).thread) = {}
    BY <1>10 DEF Range
  <2>2. \A b : b \in Uncollected <=> \E x \in Spans : b \in Range(metas[x].thread)
    BY DEF Uncollected
  <2>3. \A b : b \in Uncollected' <=> \E x \in Spans' : b \in Range(metas'[x].thread)
    BY DEF Uncollected
  <2> QED
    BY <1>9, <2>1, <2>2, <2>3
<1>21. Rows' = Rows /\ Abroad' = Abroad /\ Carried' = Carried /\ Spilling' = Spilling
  BY DEF Rows, Abroad, Carried, Spilling
<1>22. Apart' /\ Out' = Out
  BY <1>20, <1>21 DEF Apart, Out
<1>23. Homes'
  BY <1>8, <1>9, <1>10, <1>22, HomesAdded
<1>24. Calling'
  <2>1. \A x \in Spans : metas[x].used = 0 => metas[x].state = "kept"
    <3>1. \A x \in Spans : x # none
      BY NoneAssumption, SpanTyped DEF Place
    <3> QED
      BY <3>1 DEF Calling, Emptied
  <2>2. \A x \in Spans' : metas'[x].used = 0 => Emptied(x)'
    <3>1. \A x \in Spans : metas'[x].used = 0 => metas'[x].state = "kept"
      BY <1>9, <2>1
    <3>2. Emptied(s)'
      BY <1>18 DEF Emptied
    <3> QED
      BY <1>9, <3>1, <3>2 DEF Emptied
  <2> QED
    BY <2>2 DEF Calling
<1>25. Types'
  <2>1. /\ live' \subseteq Block /\ row' \in [Small -> SUBSET Block]
        /\ remote' \in [Thread -> Release \cup {none}] /\ call' \in Calls
        /\ partial' \in [Class -> SUBSET Place] /\ kept' \in Seq(Place)
    BY DEF Types
  <2> QED
    BY <1>11, <1>15, <1>18, <2>1 DEF Types
<1>26. Rowed' /\ OneEach'
  BY <1>21 DEF Rowed, OneEach
<1> QED
  BY <1>12, <1>16, <1>17, <1>19, <1>22, <1>23, <1>24, <1>25, <1>26

\* new_span: in an arena with room, the spare or a new one, or the call fails.
LEMMA NewSpanKeeps ==
    ASSUME HeapInv, NEW c \in Class, NewSpan(c)
    PROVE  HeapInv'
<1>1. /\ call.op = "alloc" /\ c = call.class /\ cur[c] = none
      /\ UNCHANGED <<live, row, partial, kept, keptPages, remote>>
  BY DEF NewSpan, Allocating
<1>2. /\ Mapped \subseteq Arena /\ freePages \in [Mapped -> SUBSET Page]
      /\ spare \in Arena \cup {none} /\ none \notin Arena
      /\ \A a \in Mapped : advised[a] \subseteq freePages[a]
      /\ arenas = {a \in Mapped \ {spare} : freePages[a] # {}}
      /\ spare # none => spare \in Mapped /\ freePages[spare] = Page
  BY NoneAssumption DEF HeapInv, Types, Layout
<1>3. Runs(Page, Pages[c]) # {}
  <2>1. Pages[c] \in Nat \ {0} /\ Pages[c] <= ArenaPages /\ ArenaPages \in Nat
    BY Geometry
  <2>2. 1 \in Runs(Page, Pages[c])
    BY <2>1 DEF Runs, Page
  <2> QED
    BY <2>2
<1>4. CASE (\E a \in Roomy(c) : Carve(a, c, freePages[a], advised[a])) /\ UNCHANGED <<spare, call>>
  <2>1. PICK a \in Roomy(c) : Carve(a, c, freePages[a], advised[a])
    BY <1>4
  <2>2. a \in Mapped /\ a # spare /\ Runs(freePages[a], Pages[c]) # {}
    BY <1>2 DEF Roomy
  <2>3. spare' = IF spare = a THEN none ELSE spare
    BY <1>4, <2>2
  <2>4. a \in Arena /\ freePages[a] \in SUBSET Page /\ advised[a] \in SUBSET freePages[a]
    BY <1>2, <2>2
  <2> QED
    BY <1>1, <1>4, <2>1, <2>2, <2>3, <2>4, CarveKeeps
<1>5. CASE /\ spare # none
           /\ Carve(spare, c, freePages[spare], advised[spare])
           /\ spare' = none
           /\ UNCHANGED call
  <2>1. spare' = IF spare = spare THEN none ELSE spare
    BY <1>5
  <2>2. /\ spare \in Mapped /\ spare \in Arena
        /\ freePages[spare] \in SUBSET Page /\ advised[spare] \in SUBSET freePages[spare]
        /\ Runs(freePages[spare], Pages[c]) # {}
    BY <1>2, <1>3, <1>5
  <2> QED
    BY <1>1, <1>5, <2>1, <2>2, CarveKeeps
<1>6. CASE /\ spare = none
           /\ \E a \in Arena \ Mapped : Carve(a, c, Page, {})
           /\ UNCHANGED <<spare, call>>
  <2>1. PICK a \in Arena \ Mapped : Carve(a, c, Page, {})
    BY <1>6
  <2>2. spare' = IF spare = a THEN none ELSE spare
    BY <1>2, <1>6
  <2>3. Page \in SUBSET Page /\ {} \in SUBSET Page
    OBVIOUS
  <2> QED
    BY <1>1, <1>3, <1>6, <2>1, <2>2, <2>3, CarveKeeps
<1>7. CASE /\ call' = Idle
           /\ UNCHANGED <<cur, metas, freePages, advised, arenas, spare>>
  <2>1. /\ Spans' = Spans /\ Uncollected' = Uncollected
        /\ Records' /\ Layout' /\ Listed' /\ KeptList'
    BY <1>1, <1>7, SpansKept
  <2>2. call'.op = "none" /\ call' \in Calls
    BY <1>7 DEF Idle, Calls
  <2>3. Spilling' = Spilling /\ Carried' = Carried /\ Abroad' = Abroad /\ Rows' = Rows
    BY <1>1, <2>2 DEF Spilling, Carried, Abroad, Rows
  <2>4. Out' = Out /\ Apart'
    BY <1>1, <2>1, <2>3 DEF HeapInv, Out, Apart
  <2>5. Types'
    BY <1>1, <1>7, <2>2, TypesKept DEF HeapInv, Types
  <2>6. Homes'
    BY <1>7, <2>1, <2>4, HomesKept DEF HeapInv
  <2>7. Calling'
    <3>1. \A x \in Spans : x # none
      BY NoneAssumption, SpanTyped DEF HeapInv, Place
    <3>2. \A x \in Spans : metas[x].used = 0 => metas[x].state = "kept"
      BY <1>1, <3>1 DEF HeapInv, Calling, Emptied
    <3> QED
      BY <1>7, <2>1, <2>2, <3>2 DEF Calling, Emptied
  <2>8. Rowed' /\ OneEach'
    BY <1>1, <2>3 DEF HeapInv, Rowed, OneEach
  <2> QED
    BY <2>1, <2>4, <2>5, <2>6, <2>7, <2>8 DEF HeapInv
<1> QED
  BY <1>4, <1>5, <1>6, <1>7 DEF NewSpan

-----------------------------------------------------------------------------
(* A turn of the refill loop.                                              *)

\* The lesser and the greater of two, as take_chain's bounds are computed.
LEMMA MinTwo ==
    ASSUME NEW i \in Int, NEW k \in Int
    PROVE  Min({i, k}) \in {i, k} /\ Min({i, k}) <= i /\ Min({i, k}) <= k
<1>1. \E x \in {i, k} : \A y \in {i, k} : x <= y
  <2>1. CASE i <= k
    BY <2>1
  <2>2. CASE k <= i
    BY <2>2
  <2> QED
    BY <2>1, <2>2
<1>2. Min({i, k}) \in {i, k} /\ \A y \in {i, k} : Min({i, k}) <= y
  BY <1>1 DEF Min
<1> QED
  BY <1>2

\* The same of the greater, the slots a turn carves.
LEMMA MaxTwo ==
    ASSUME NEW i \in Int, NEW k \in Int
    PROVE  Max({i, k}) \in {i, k} /\ i <= Max({i, k}) /\ k <= Max({i, k})
<1>1. \E x \in {i, k} : \A y \in {i, k} : x >= y
  <2>1. CASE i <= k
    BY <2>1
  <2>2. CASE k <= i
    BY <2>2
  <2> QED
    BY <2>1, <2>2
<1>2. Max({i, k}) \in {i, k} /\ \A y \in {i, k} : Max({i, k}) >= y
  BY <1>1 DEF Max
<1> QED
  BY <1>2

\* A chain can be cut to any length.
LEMMA SubsetOfSize ==
    ASSUME NEW S, IsFiniteSet(S), NEW k \in Nat, k <= Cardinality(S)
    PROVE  \E T \in SUBSET S : Cardinality(T) = k
<1> DEFINE n == Cardinality(S)
<1>1. n \in Nat /\ ExistsBijection(1 .. n, S)
  BY FS_CardinalityType
<1> HIDE DEF n
<1>2. PICK f \in Bijection(1 .. n, S) : TRUE
  BY <1>1 DEF ExistsBijection
<1>3. k <= n
  BY DEF n
<1>4. 1 .. k \subseteq 1 .. n
  BY <1>1, <1>3
<1> DEFINE g == [i \in 1 .. k |-> f[i]]
           T == {f[i] : i \in 1 .. k}
<1>5. f \in [1 .. n -> S] /\ \A i, j \in 1 .. n : f[i] = f[j] => i = j
  BY <1>2 DEF Bijection, Injection, IsInjective
<1>6. T \in SUBSET S
  BY <1>4, <1>5
<1>7. g \in Bijection(1 .. k, T)
  <2>1. g \in [1 .. k -> T]
    OBVIOUS
  <2>2. \A i, j \in 1 .. k : g[i] = g[j] => i = j
    BY <1>4, <1>5
  <2>3. \A x \in T : \E i \in 1 .. k : g[i] = x
    OBVIOUS
  <2> HIDE DEF g, T
  <2> QED
    BY <2>1, <2>2, <2>3 DEF Bijection, Injection, Surjection, IsInjective
<1>8. IsFiniteSet(1 .. k) /\ Cardinality(1 .. k) = k
  <2>1. 1 \in Int /\ k \in Int
    OBVIOUS
  <2>2. IsFiniteSet(1 .. k) /\ Cardinality(1 .. k) = IF 1 > k THEN 0 ELSE k - 1 + 1
    BY <2>1, FS_Interval
  <2> QED
    BY <2>2
<1>9. ExistsBijection(1 .. k, T)
  BY <1>7 DEF ExistsBijection
<1> HIDE DEF T
<1>10. Cardinality(T) = k
  BY <1>8, <1>9, FS_Bijection
<1> QED
  BY <1>6, <1>10

\* A list without repetition has as many members as places.
LEMMA ListCount ==
    ASSUME NEW S, NEW q \in Seq(S), IsInjective(q)
    PROVE  IsFiniteSet(Range(q)) /\ Cardinality(Range(q)) = Len(q)
<1> DEFINE n == Len(q)
           R == Range(q)
<1>1. n \in Nat /\ DOMAIN q = 1 .. n /\ q \in [1 .. n -> S]
  OBVIOUS
<1>2. q \in [1 .. n -> R] /\ \A x \in R : \E i \in 1 .. n : q[i] = x
  BY <1>1 DEF Range
<1>3. IsFiniteSet(1 .. n) /\ Cardinality(1 .. n) = n
  <2>1. 1 \in Int /\ n \in Int
    BY <1>1
  <2> HIDE DEF n
  <2>2. IsFiniteSet(1 .. n) /\ Cardinality(1 .. n) = IF 1 > n THEN 0 ELSE n - 1 + 1
    BY <2>1, FS_Interval
  <2> QED
    BY <1>1, <2>2
<1> HIDE DEF R, n
<1>4. q \in Bijection(1 .. n, R)
  BY <1>1, <1>2 DEF Bijection, Injection, Surjection, IsInjective
<1>5. ExistsBijection(1 .. n, R)
  BY <1>4 DEF ExistsBijection
<1> QED
  BY <1>3, <1>5, FS_Bijection DEF R, n

\* What collect_remote takes over from other threads.
Gathered(s) == Range(metas[s].thread) \ Range(Collected(s).thread)

\* collect_remote: the record is still sound, and its free list holds what is
\* not out once those blocks are taken over.
LEMMA CollectedFacts ==
    ASSUME HeapInv, NEW s \in Spans, NEW m, m = Collected(s)
    PROVE  /\ m \in Record /\ m.class = metas[s].class /\ m.bump = metas[s].bump
           /\ IsFiniteSet(m.free) /\ m.free \subseteq Carved(s)
           /\ Range(m.thread) \subseteq Range(metas[s].thread) /\ IsInjective(m.thread)
           /\ m.used = m.bump - Cardinality(m.free)
           /\ Gathered(s) \subseteq Carved(s) /\ Gathered(s) \subseteq Uncollected
           /\ \A b \in Carved(s) : b \in Out /\ b \notin Gathered(s) <=> b \notin m.free
<1> USE DEF HeapInv
<1> DEFINE o == metas[s]
           Q == Range(o.thread)
<1>1. /\ o \in Record /\ o.class \in Class /\ o.bump \in Nat /\ o.used \in Nat
      /\ o.free \subseteq Block /\ o.thread \in Seq(Block)
  BY SpanTyped, RecordFields
<1>2. /\ IsFiniteSet(Carved(s)) /\ Cardinality(Carved(s)) = o.bump
      /\ Carved(s) \subseteq Block
  BY CarvedFacts
<1>3. /\ o.free \subseteq Carved(s) /\ Q \subseteq Carved(s) /\ IsInjective(o.thread)
      /\ o.used = o.bump - Cardinality(o.free) /\ o.bump <= Slots[o.class]
  BY CarvedSlots DEF Records, SoundRecord
<1>4. Q \subseteq Uncollected
  BY DEF Uncollected
<1>5. \A b \in Carved(s) : b \in Out <=> b \notin o.free
  BY DEF Homes
<1>6. Gathered(s) = Q \ Range(m.thread)
  BY DEF Gathered
<1>7. CASE o.free # {} \/ o.bump < Slots[o.class]
  <2>1. m = o
    BY <1>7 DEF Collected
  <2>2. IsFiniteSet(o.free)
    BY <1>2, <1>3, FS_Subset
  <2>3. Gathered(s) = {}
    BY <1>6, <2>1
  <2> HIDE DEF o, Q
  <2> QED
    BY <1>1, <1>3, <1>5, <2>1, <2>2, <2>3 DEF o, Q
<1>8. CASE ~(o.free # {} \/ o.bump < Slots[o.class])
  <2>1. m = [o EXCEPT !.free = Q, !.thread = <<>>, !.used = @ - Len(o.thread)]
    BY <1>8 DEF Collected
  <2>2. IsFiniteSet(Q) /\ Cardinality(Q) = Len(o.thread)
    BY <1>1, <1>3, ListCount
  <2>3. Cardinality(Q) <= o.bump
    BY <1>2, <1>3, FS_Subset
  <2>4. o.used = o.bump
    <3>1. Cardinality({}) = 0
      BY FS_EmptySet
    <3>2. Cardinality(o.free) = 0
      BY <1>8, <3>1
    <3> HIDE DEF o
    <3> QED
      BY <1>1, <1>3, <3>2
  <2>5. /\ m.class = o.class /\ m.bump = o.bump /\ m.state = o.state
        /\ m.free = Q /\ m.thread = <<>> /\ m.used = o.used - Cardinality(Q)
    BY <1>1, <2>1, <2>2 DEF Record
  <2>6. m \in Record
    <3>1. Q \in SUBSET Block
      BY <1>2, <1>3
    <3>2. o.used - Len(o.thread) \in Nat
      BY <1>1, <2>2, <2>3, <2>4
    <3>3. <<>> \in Seq(Block)
      OBVIOUS
    <3> HIDE DEF Q
    <3> QED
      BY <1>1, <2>1, <3>1, <3>2, <3>3 DEF Record
  <2>7. Range(m.thread) = {} /\ IsInjective(m.thread)
    BY <2>5 DEF Range, IsInjective
  <2>8. Gathered(s) = Q
    BY <1>6, <2>7
  <2>9. \A b \in Carved(s) : b \in Out /\ b \notin Gathered(s) <=> b \notin m.free
    BY <1>5, <1>8, <2>5, <2>8
  <2> HIDE DEF o, Q
  <2> QED
    BY <1>3, <1>4, <2>2, <2>4, <2>5, <2>6, <2>7, <2>8, <2>9 DEF o
<1> QED
  BY <1>7, <1>8

\* A refill carves one slot at least and as many as a row takes at most.
LEMMA CarveForRange ==
    ASSUME NEW c \in Class
    PROVE  CarveFor(c) \in Nat /\ 1 <= CarveFor(c) /\ CarveFor(c) <= SpillAt
<1> DEFINE q == PageUnits \div Size[c]
           g == Max({1, q})
<1>1. q \in Nat
  BY Geometry
<1> HIDE DEF q
<1>2. g \in Nat /\ 1 <= g
  <2>1. 1 \in Int /\ q \in Int
    BY <1>1
  <2>2. g \in {1, q} /\ 1 <= g
    BY <2>1, MaxTwo
  <2> HIDE DEF g
  <2> QED
    BY <1>1, <2>2
<1>3. SpillAt \in Nat \ {0}
  BY LimitsAssumption
<1> HIDE DEF g
<1>4. Min({SpillAt, g}) \in Nat /\ 1 <= Min({SpillAt, g}) /\ Min({SpillAt, g}) <= SpillAt
  BY <1>2, <1>3, MinTwo
<1> QED
  BY <1>4 DEF CarveFor, g, q

\* The slots carved next are the ones after those carved.
LEMMA SlottedSplit ==
    ASSUME NEW s \in Place, NEW c \in Class, NEW p \in Nat, NEW n \in Nat
    PROVE  /\ Slotted(s, c, 0, p + n) = Slotted(s, c, 0, p) \cup Slotted(s, c, p, p + n)
           /\ Slotted(s, c, 0, p) \cap Slotted(s, c, p, p + n) = {}
<1>1. 0 .. p + n - 1 = (0 .. p - 1) \cup (p .. p + n - 1)
  OBVIOUS
<1>2. \A i \in 0 .. p - 1 : \A k \in p .. p + n - 1 : i \in Nat /\ k \in Nat /\ i # k
  OBVIOUS
<1>3. Slotted(s, c, 0, p + n) = Slotted(s, c, 0, p) \cup Slotted(s, c, p, p + n)
  BY <1>1 DEF Slotted
<1>4. ASSUME NEW b \in Slotted(s, c, 0, p), b \in Slotted(s, c, p, p + n)
      PROVE  FALSE
  <2>1. PICK i \in 0 .. p - 1 : b = Slot(s, c, i)
    BY DEF Slotted
  <2>2. PICK k \in p .. p + n - 1 : b = Slot(s, c, k)
    BY <1>4 DEF Slotted
  <2>3. i \in Nat /\ k \in Nat /\ i # k
    BY <1>2
  <2> QED
    BY <2>1, <2>2, <2>3, SlotInjective
<1> QED
  BY <1>3, <1>4

\* take_chain and take_one: blocks of the free list, or slots next to those
\* carved; the counts of the record that is left.
LEMMA TakesFacts ==
    ASSUME HeapInv, NEW s \in Spans, NEW m, m = Collected(s), NEW c, c = metas[s].class,
           NEW take \in Takes(s, m)
    PROVE  /\ take.carved \in Nat /\ m.bump + take.carved <= Slots[c]
           /\ take.blocks \subseteq Slotted(s, c, 0, m.bump + take.carved)
           /\ \A b \in Slotted(s, c, 0, m.bump + take.carved) :
                 b \in Carved(s) \/ b \in take.blocks
           /\ \A b \in take.blocks : b \in m.free \/ b \notin Carved(s)
           /\ IsFiniteSet(take.blocks)
           /\ m.used + Cardinality(take.blocks)
                 = (m.bump + take.carved) - Cardinality(m.free \ take.blocks)
           /\ c \in Small => Cardinality(take.blocks) <= SpillAt
           /\ c \notin Small => Cardinality(take.blocks) <= 1
<1> USE DEF HeapInv
<1> DEFINE most == IF c \in Small THEN SpillAt ELSE 1
           left == Slots[c] - m.bump
           n == IF c \in Small THEN Min({left, CarveFor(c)}) ELSE 1
           F == m.free
           f == Cardinality(F)
<1>1. /\ m.class = c /\ m.bump = metas[s].bump /\ IsFiniteSet(F) /\ F \subseteq Carved(s)
      /\ m.used = m.bump - f
  BY CollectedFacts
<1>2. /\ s \in Place /\ c \in Class /\ m.bump \in Nat /\ m.bump <= Slots[c] /\ Slots[c] \in Nat
      /\ SpillAt \in Nat
  BY <1>1, SpanTyped, RecordFields, Geometry, LimitsAssumption DEF Records, SoundRecord
<1>3. Carved(s) = Slotted(s, c, 0, m.bump)
  BY <1>1, CarvedSlots
<1>4. f \in Nat
  BY <1>1, FS_CardinalityType
<1>5. \/ /\ F # {} /\ take.carved = 0
         /\ take.blocks \in kSubset(Min({f, most}), F)
      \/ /\ F = {} /\ left # 0 /\ take.carved = n
         /\ take.blocks = SlotsFrom(s, m.bump, m.bump + n)
  <2>1. Takes(s, m) = IF F # {}
        THEN {[blocks |-> b, carved |-> 0] : b \in kSubset(Min({f, most}), F)}
        ELSE IF left = 0 THEN {}
        ELSE {[blocks |-> SlotsFrom(s, m.bump, m.bump + n), carved |-> n]}
    BY <1>1 DEF Takes
  <2> HIDE DEF F, f, most, left, n
  <2>2. CASE F # {}
    <3>1. PICK b \in kSubset(Min({f, most}), F) : take = [blocks |-> b, carved |-> 0]
      BY <2>1, <2>2
    <3> QED
      BY <2>2, <3>1
  <2>3. CASE F = {}
    <3>1. left # 0 /\ take = [blocks |-> SlotsFrom(s, m.bump, m.bump + n), carved |-> n]
      BY <2>1, <2>3
    <3> QED
      BY <2>3, <3>1
  <2> QED
    BY <2>2, <2>3
<1> DEFINE B == take.blocks
           k == Cardinality(B)
<1>6. CASE F # {} /\ take.carved = 0 /\ B \in kSubset(Min({f, most}), F)
  <2>1. B \in SUBSET F /\ k = Min({f, most})
    BY <1>6 DEF kSubset
  <2>2. k <= most
    <3>1. f \in Int /\ most \in Int
      BY <1>2, <1>4
    <3> HIDE DEF f, most
    <3> QED
      BY <2>1, <3>1, MinTwo
  <2>3. IsFiniteSet(B)
    BY <1>1, <2>1, FS_Subset
  <2>4. F \cap B = B
    BY <2>1
  <2>5. Cardinality(F \ B) = f - Cardinality(F \cap B)
    BY <1>1, FS_Difference
  <2>6. k \in Nat /\ Cardinality(F \ B) = f - k
    BY <2>3, <2>4, <2>5, FS_CardinalityType
  <2>7. m.used + k = (m.bump + 0) - Cardinality(F \ B)
    <3> DEFINE u == m.used
               p == m.bump
               e == Cardinality(F \ B)
    <3>1. u = p - f /\ e = f - k /\ p \in Nat /\ f \in Nat /\ k \in Nat
      BY <1>1, <1>2, <1>4, <2>6
    <3> HIDE DEF u, p, e, f, k
    <3>2. u + k = (p + 0) - e
      BY <3>1
    <3> QED
      BY <3>2 DEF u, p, e
  <2>8. m.bump + take.carved = m.bump
    BY <1>2, <1>6
  <2>9. (c \in Small => k <= SpillAt) /\ (c \notin Small => k <= 1)
    BY <2>2
  <2>10. B \subseteq Carved(s)
    BY <1>1, <2>1
  <2> HIDE DEF k, F, f, B, most, left, n
  <2> QED
    BY <1>2, <1>3, <1>6, <2>1, <2>3, <2>7, <2>8, <2>9, <2>10 DEF k, F, B
<1>7. CASE F = {} /\ left # 0 /\ take.carved = n /\ B = SlotsFrom(s, m.bump, m.bump + n)
  <2>1. B = Slotted(s, c, m.bump, m.bump + n)
    BY <1>1, <1>7 DEF SlotsFrom, Slotted
  <2>2. left \in Nat \ {0}
    BY <1>2, <1>7
  <2>3. n \in Nat /\ n <= left /\ (c \in Small => n <= SpillAt) /\ (c \notin Small => n <= 1)
    <3>1. CASE c \in Small
      <4>1. n = Min({left, CarveFor(c)})
        BY <3>1
      <4>2. CarveFor(c) \in Nat /\ CarveFor(c) <= SpillAt
        BY <1>2, CarveForRange
      <4>3. left \in Int /\ CarveFor(c) \in Int
        BY <2>2, <4>2
      <4> HIDE DEF left, n
      <4>4. n \in {left, CarveFor(c)} /\ n <= left /\ n <= CarveFor(c)
        BY <4>1, <4>3, MinTwo
      <4> QED
        BY <1>2, <2>2, <3>1, <4>2, <4>4
    <3>2. CASE c \notin Small
      BY <2>2, <3>2
    <3> QED
      BY <3>1, <3>2
  <2>4. m.bump + n \in Nat /\ m.bump <= m.bump + n /\ m.bump + n <= Slots[c]
        /\ (m.bump + n) - m.bump = n
    <3> HIDE DEF n
    <3> QED
      BY <1>2, <2>3
  <2> HIDE DEF n
  <2>5. IsFiniteSet(B) /\ k = n
    BY <1>2, <2>1, <2>4, SlottedCount
  <2>6. F \ B = {} /\ f = 0 /\ Cardinality(F \ B) = 0
    <3>1. Cardinality({}) = 0
      BY FS_EmptySet
    <3> QED
      BY <1>7, <3>1
  <2>7. m.used + k = (m.bump + n) - Cardinality(F \ B)
    <3> DEFINE u == m.used
               p == m.bump
               e == Cardinality(F \ B)
    <3>1. u = p - f /\ e = 0 /\ f = 0 /\ k = n /\ p \in Nat /\ n \in Nat
      BY <1>1, <1>2, <2>3, <2>5, <2>6
    <3> HIDE DEF u, p, e, f, k
    <3>2. u + k = (p + n) - e
      BY <3>1
    <3> QED
      BY <3>2 DEF u, p, e
  <2>8. /\ Slotted(s, c, 0, m.bump + n) = Carved(s) \cup B
        /\ Carved(s) \cap B = {}
    BY <1>2, <1>3, <2>1, <2>3, SlottedSplit
  <2>9. (c \in Small => k <= SpillAt) /\ (c \notin Small => k <= 1)
    BY <2>3, <2>5
  <2> HIDE DEF k, F, f, B, most, left
  <2> QED
    BY <1>7, <2>3, <2>4, <2>5, <2>7, <2>8, <2>9 DEF k, F, B
<1> QED
  BY <1>5, <1>6, <1>7

\* Nothing to take: the list is empty and every slot is carved.
LEMMA TakesNone ==
    ASSUME HeapInv, NEW s \in Spans, NEW m, m = Collected(s), Takes(s, m) = {}
    PROVE  m.free = {} /\ m.bump = Slots[metas[s].class]
<1> DEFINE c == metas[s].class
           most == IF c \in Small THEN SpillAt ELSE 1
           F == m.free
           f == Cardinality(F)
<1>1. m.class = c /\ IsFiniteSet(F) /\ m.bump = metas[s].bump
  BY CollectedFacts
<1>2. c \in Class /\ m.bump \in Nat /\ Slots[c] \in Nat /\ SpillAt \in Nat
  BY <1>1, SpanTyped, RecordFields, Geometry, LimitsAssumption DEF HeapInv
<1>3. F = {}
  <2> SUFFICES ASSUME F # {} PROVE FALSE
    OBVIOUS
  <2>1. f \in Nat /\ most \in Nat
    BY <1>1, <1>2, FS_CardinalityType
  <2>2. Min({f, most}) \in Nat /\ Min({f, most}) <= f
    <3>1. f \in Int /\ most \in Int
      BY <2>1
    <3> HIDE DEF f, most
    <3>2. Min({f, most}) \in {f, most} /\ Min({f, most}) <= f
      BY <3>1, MinTwo
    <3> QED
      BY <2>1, <3>2
  <2>3. PICK T \in SUBSET F : Cardinality(T) = Min({f, most})
    <3> HIDE DEF most
    <3> QED
      BY <1>1, <2>2, SubsetOfSize
  <2>4. T \in kSubset(Min({f, most}), F)
    BY <2>3 DEF kSubset
  <2>5. [blocks |-> T, carved |-> 0] \in Takes(s, m)
    BY <1>1, <2>4 DEF Takes
  <2> QED
    BY <2>5
<1>4. m.bump = Slots[c]
  <2> SUFFICES ASSUME Slots[c] - m.bump # 0 PROVE FALSE
    BY <1>2
  <2>1. Takes(s, m) # {}
    BY <1>1, <1>3 DEF Takes
  <2> QED
    BY <2>1
<1> QED
  BY <1>3, <1>4

\* What a turn does to its span and to the lists, whether it takes or gives up:
\* a kept span that is used again is off the kept list.
LEMMA RefillPut ==
    ASSUME HeapInv, NEW c \in Class, NEW s \in Spans, cur[c] = s, call.op = "alloc",
           c = call.class,
           NEW r \in Record, SoundRecord(s, r), metas' = [metas EXCEPT ![s] = r],
           r.class = c, r.used # 0, metas[s].bump <= r.bump,
           Range(r.thread) = Range(Collected(s).thread),
           \/ r.state = "cur" /\ cur' = cur
           \/ r.state = "full" /\ cur' = [cur EXCEPT ![c] = none],
           IF metas[s].state = "kept" THEN KeptUnlink(s) ELSE UNCHANGED <<kept, keptPages>>,
           UNCHANGED <<partial, freePages, advised, arenas, spare, remote>>
    PROVE  /\ Spans' = Spans /\ metas'[s] = r /\ \A x \in Spans \ {s} : metas'[x] = metas[x]
           /\ metas' \in [Spans' -> Record]
           /\ cur' \in [Class -> Place \cup {none}] /\ kept' \in Seq(Place)
           /\ Records' /\ Layout' /\ Listed' /\ KeptList'
           /\ Uncollected' = Uncollected \ Gathered(s)
           /\ \A x \in Spans : metas'[x].used = 0 => metas'[x].state = "kept"
<1> USE DEF HeapInv
<1>1. /\ Spans' = Spans /\ metas'[s] = r /\ \A x \in Spans \ {s} : metas'[x] = metas[x]
      /\ metas' \in [Spans' -> Record] /\ Records'
  BY RecordPut
<1>2. /\ s \in Place /\ s # none /\ metas[s].class = c /\ metas[s].state \in {"cur", "kept"}
      /\ cur \in [Class -> Place \cup {none}] /\ kept \in Seq(Place)
  BY SpanTyped, NoneAssumption DEF Listed, Place, Types
<1>3. \A x \in Spans : metas'[x].class = metas[x].class
  BY <1>1, <1>2
<1>4. Layout'
  BY <1>1, <1>3, LayoutKept
<1>5. KeptList' /\ kept' \in Seq(Place)
  <2>1. r.state # "kept"
    OBVIOUS
  <2>2. CASE metas[s].state = "kept"
    <3>1. KeptUnlink(s)
      BY <2>2
    <3>2. \A x \in Place : /\ x \in Spans' /\ metas'[x].state = "kept"
                               <=> x \in Spans /\ metas[x].state = "kept" /\ x # s
                           /\ x \in Spans /\ metas[x].state = "kept" /\ x # s =>
                                  /\ metas'[x].class = metas[x].class
                                  /\ metas'[x].bump = metas[x].bump
      BY <1>1, <2>1
    <3> QED
      BY <2>2, <3>1, <3>2, Unlinked
  <2>3. CASE metas[s].state # "kept"
    <3>1. UNCHANGED <<kept, keptPages>>
      BY <2>3
    <3>2. \A x \in Place : /\ x \in Spans /\ metas[x].state = "kept"
                              <=> x \in Spans' /\ metas'[x].state = "kept"
                           /\ x \in Spans /\ metas[x].state = "kept" =>
                                 /\ metas'[x].class = metas[x].class
                                 /\ metas'[x].bump = metas[x].bump
      BY <1>1, <2>1, <2>3
    <3> QED
      BY <1>2, <3>1, <3>2, KeptListKept
  <2> QED
    BY <2>2, <2>3
<1>6. /\ cur' \in [Class -> Place \cup {none}]
      /\ cur'[c] = IF r.state = "cur" THEN s ELSE none
      /\ \A d \in Class \ {c} : cur'[d] = cur[d]
  <2>1. CASE r.state = "cur" /\ cur' = cur
    BY <1>2, <2>1
  <2>2. CASE r.state = "full" /\ cur' = [cur EXCEPT ![c] = none]
    BY <1>2, <2>2
  <2> QED
    BY <2>1, <2>2
<1>7. Listed'
  <2>1. \A d \in Class : \A x \in Place :
           x \in partial'[d] <=> x \in Spans' /\ metas'[x].class = d
                                 /\ metas'[x].state = "partial"
    <3>1. \A x \in Spans : metas[x].state = "partial" <=> metas'[x].state = "partial"
      BY <1>1, <1>2
    <3> QED
      BY <1>1, <1>3, <3>1 DEF Listed
  <2>2. \A d \in Class : cur'[d] # none =>
           /\ cur'[d] \in Spans' /\ metas'[cur'[d]].class = d
           /\ metas'[cur'[d]].state \in {"cur", "kept"}
    <3>1. \A d \in Class \ {c} : cur[d] # s
      BY <1>2 DEF Listed
    <3> QED
      BY <1>1, <1>2, <1>6, <3>1 DEF Listed
  <2>3. \A x \in Spans' : metas'[x].state \in {"cur", "kept"} => cur'[metas'[x].class] = x
    <3>1. metas'[s].state \in {"cur", "kept"} => cur'[metas'[s].class] = s
      BY <1>1, <1>6
    <3>2. ASSUME NEW x \in Spans \ {s}, metas[x].state \in {"cur", "kept"}
          PROVE  cur'[metas[x].class] = x
      <4>1. cur[metas[x].class] = x /\ metas[x].class \in Class
        BY <3>2, SpanTyped DEF Listed
      <4> QED
        BY <1>6, <4>1
    <3> QED
      BY <1>1, <3>1, <3>2
  <2> QED
    BY <2>1, <2>2, <2>3 DEF Listed
<1>8. Uncollected' = Uncollected \ Gathered(s)
  <2>1. Uncollected' = (Uncollected \ Range(metas[s].thread)) \cup Range(r.thread)
    BY <1>1, ThreadPut
  <2>2. Range(metas[s].thread) \subseteq Uncollected
    BY DEF Uncollected
  <2>3. Range(r.thread) \subseteq Range(metas[s].thread)
    BY CollectedFacts
  <2> QED
    BY <2>1, <2>2, <2>3 DEF Gathered
<1>9. \A x \in Spans : metas'[x].used = 0 => metas'[x].state = "kept"
  <2>1. \A x \in Spans \ {s} : metas[x].used = 0 => metas[x].state = "kept"
    BY DEF Calling, Emptied
  <2> QED
    BY <1>1, <2>1
<1> QED
  BY <1>1, <1>4, <1>5, <1>6, <1>7, <1>8, <1>9

\* A turn that takes: one block is the program's, the rest are the row.
LEMMA TakeKeeps ==
    ASSUME HeapInv, NEW c \in Class, NEW s \in Spans, cur[c] = s, call.op = "alloc",
           c = call.class, TakeFrom(s),
           IF metas[s].state = "kept" THEN KeptUnlink(s) ELSE UNCHANGED <<kept, keptPages>>,
           UNCHANGED <<partial, freePages, advised, arenas, spare, remote>>
    PROVE  HeapInv'
<1> USE DEF HeapInv
<1> DEFINE m == Collected(s)
<1>1. m = Collected(s)
  OBVIOUS
<1> HIDE DEF m
<1>2. /\ m \in Record /\ m.class = metas[s].class /\ m.bump = metas[s].bump
      /\ IsFiniteSet(m.free) /\ m.free \subseteq Carved(s)
      /\ Range(m.thread) \subseteq Range(metas[s].thread) /\ IsInjective(m.thread)
      /\ m.used = m.bump - Cardinality(m.free)
      /\ Gathered(s) \subseteq Carved(s) /\ Gathered(s) \subseteq Uncollected
      /\ \A b \in Carved(s) : b \in Out /\ b \notin Gathered(s) <=> b \notin m.free
  BY <1>1, CollectedFacts
<1>3. /\ s \in Place /\ metas[s].class = c /\ m.class = c /\ m.bump \in Nat
      /\ m.bump <= Slots[c] /\ m.used \in Nat /\ PagesIn(s, c) \subseteq Page
  <2>1. s \in Place /\ metas[s].class = c
    BY SpanTyped, NoneAssumption DEF Listed, Place
  <2>2. m.bump \in Nat /\ m.used \in Nat
    BY <1>2, RecordFields
  <2>3. PagesIn(s, c) \subseteq Page
    BY <2>1, CarvedSlots DEF Layout
  <2> QED
    BY <1>2, <2>1, <2>2, <2>3 DEF Records, SoundRecord
<1>4. PICK take \in Takes(s, m) : \E b \in take.blocks :
         /\ live' = live \cup {b}
         /\ IF m.class \in Small THEN row' = [row EXCEPT ![m.class] = take.blocks \ {b}]
            ELSE UNCHANGED row
         /\ metas' = [metas EXCEPT ![s] =
                        [m EXCEPT !.free = @ \ take.blocks, !.bump = @ + take.carved,
                                  !.used = @ + Cardinality(take.blocks),
                                  !.state = "cur"]]
         /\ call' = Idle
         /\ UNCHANGED cur
  BY DEF TakeFrom, m
<1> DEFINE B == take.blocks
           p == m.bump + take.carved
           k == Cardinality(B)
           K == Slotted(s, c, 0, p)
           r == [m EXCEPT !.free = @ \ B, !.bump = @ + take.carved, !.used = @ + k,
                          !.state = "cur"]
<1>5. /\ take.carved \in Nat /\ p <= Slots[c] /\ B \subseteq K
      /\ \A e \in K : e \in Carved(s) \/ e \in B
      /\ \A e \in B : e \in m.free \/ e \notin Carved(s)
      /\ IsFiniteSet(B)
      /\ m.used + k = p - Cardinality(m.free \ B)
      /\ c \in Small => k <= SpillAt
      /\ c \notin Small => k <= 1
  <2>1. c = metas[s].class
    BY <1>3
  <2> HIDE DEF HeapInv, B, p, k, K, r
  <2>2. /\ take.carved \in Nat /\ m.bump + take.carved <= Slots[c]
        /\ take.blocks \subseteq Slotted(s, c, 0, m.bump + take.carved)
        /\ \A e \in Slotted(s, c, 0, m.bump + take.carved) :
              e \in Carved(s) \/ e \in take.blocks
        /\ \A e \in take.blocks : e \in m.free \/ e \notin Carved(s)
        /\ IsFiniteSet(take.blocks)
        /\ m.used + Cardinality(take.blocks)
              = (m.bump + take.carved) - Cardinality(m.free \ take.blocks)
        /\ c \in Small => Cardinality(take.blocks) <= SpillAt
        /\ c \notin Small => Cardinality(take.blocks) <= 1
    BY <1>1, <2>1, TakesFacts
  <2> QED
    BY <2>2 DEF B, p, k, K
<1>6. PICK b \in B :
         /\ live' = live \cup {b}
         /\ IF c \in Small THEN row' = [row EXCEPT ![c] = B \ {b}]
            ELSE UNCHANGED row
         /\ metas' = [metas EXCEPT ![s] = r]
         /\ call' = Idle
         /\ UNCHANGED cur
  BY <1>3, <1>4
<1>7. p \in Nat /\ metas[s].bump <= p
  BY <1>2, <1>3, <1>5
<1>8. /\ IsFiniteSet(K) /\ Cardinality(K) = p
      /\ \A e \in K : e \in Block /\ e.class = c
  <2> HIDE DEF p
  <2> QED
    BY <1>3, <1>5, <1>7, SlottedPlace
<1>9. k \in Nat /\ k # 0
  <2>1. k \in Nat
    BY <1>5, FS_CardinalityType
  <2>2. k # 0
    BY <1>5, FS_EmptySet
  <2> QED
    BY <2>1, <2>2
<1>10. Carved(s) \subseteq K
  <2>1. Carved(s) = Slotted(s, c, 0, m.bump)
    BY <1>2, <1>3, CarvedSlots
  <2>2. 0 .. m.bump - 1 \subseteq 0 .. p - 1
    BY <1>3, <1>5
  <2> HIDE DEF p
  <2> QED
    BY <2>1, <2>2 DEF Slotted
<1>11. /\ r.class = c /\ r.bump = p /\ r.used = m.used + k /\ r.free = m.free \ B
       /\ r.thread = m.thread /\ r.state = "cur" /\ r \in Record
  <2>1. m.used + k \in Nat
    BY <1>3, <1>9
  <2>2. m.free \ B \in SUBSET Block
    BY <1>2 DEF Record
  <2> HIDE DEF k, B
  <2> QED
    BY <1>2, <1>3, <1>7, <2>1, <2>2 DEF Record, States
<1>12. SoundRecord(s, r)
  <2>1. r.used = r.bump - Cardinality(r.free)
    BY <1>5, <1>11
  <2>2. r.free \subseteq K
    BY <1>2, <1>10, <1>11
  <2>3. Range(r.thread) \subseteq K
    <3>1. Range(metas[s].thread) \subseteq Carved(s)
      BY CarvedSlots DEF Records, SoundRecord
    <3> QED
      BY <1>2, <1>10, <1>11, <3>1
  <2> HIDE DEF r, p, B
  <2> QED
    BY <1>2, <1>5, <1>11, <2>1, <2>2, <2>3 DEF SoundRecord
<1>13. r.used # 0
  BY <1>3, <1>9, <1>11
<1> HIDE DEF r, k
<1>14. /\ Spans' = Spans /\ metas'[s] = r /\ \A x \in Spans \ {s} : metas'[x] = metas[x]
       /\ metas' \in [Spans' -> Record]
       /\ cur' \in [Class -> Place \cup {none}] /\ kept' \in Seq(Place)
       /\ Records' /\ Layout' /\ Listed' /\ KeptList'
       /\ Uncollected' = Uncollected \ Gathered(s)
       /\ \A x \in Spans : metas'[x].used = 0 => metas'[x].state = "kept"
  <2>1. Range(r.thread) = Range(Collected(s).thread)
    BY <1>1, <1>11
  <2>2. metas[s].bump <= r.bump
    BY <1>7, <1>11
  <2> QED
    BY <1>6, <1>11, <1>12, <1>13, <2>1, <2>2, RefillPut
<1>15. \A e \in B : e \notin Out \/ e \in Gathered(s)
  <2> SUFFICES ASSUME NEW e \in B, e \in Out, e \notin Gathered(s)
               PROVE  FALSE
    OBVIOUS
  <2>1. PICK x \in Spans : e \in Carved(x)
    BY DEF Homes
  <2>2. e \notin Carved(s)
    BY <1>2, <1>5
  <2>3. x # s /\ e \in K
    BY <1>5, <2>1, <2>2
  <2>4. /\ x \in Place /\ metas[x].class \in Class /\ metas[x].bump \in Nat
        /\ metas[x].bump <= Slots[metas[x].class]
        /\ PagesIn(x, metas[x].class) \subseteq Page
        /\ s[1] = x[1] => PagesIn(s, c) \cap PagesIn(x, metas[x].class) = {}
    <3>1. x \in Place /\ metas[x].class \in Class /\ metas[x].bump \in Nat
      BY SpanTyped, RecordFields
    <3>2. metas[x].bump <= Slots[metas[x].class]
      BY DEF Records, SoundRecord
    <3> QED
      BY <1>3, <2>3, <3>1, <3>2, CarvedSlots DEF Layout
  <2>5. K \cap Slotted(x, metas[x].class, 0, metas[x].bump) = {}
    <3> HIDE DEF p
    <3> QED
      BY <1>3, <1>5, <1>7, <2>4, SlottedApart
  <2> QED
    BY <2>1, <2>3, <2>5, CarvedSlots
<1>16. Spilling = {} /\ Spilling' = {} /\ call'.op = "none" /\ call' \in Calls
  BY <1>6 DEF Spilling, Idle, Calls
<1>17. Abroad' = Abroad /\ Carried' = Carried
  BY DEF Abroad, Carried
<1>18. /\ Rowed' /\ Rows' = Rows \cup (B \ {b}) /\ row' \in [Small -> SUBSET Block]
  <2>1. CASE c \in Small
    <3> DEFINE R == B \ {b}
    <3>1. row' = [row EXCEPT ![c] = R]
      BY <1>6, <2>1
    <3>2. R \in SUBSET Block /\ \A e \in R : e.class = c
      BY <1>5, <1>8
    <3>3. IsFiniteSet(R) /\ Cardinality(R) <= SpillAt
      <4>1. IsFiniteSet(R) /\ Cardinality(R) = Cardinality(B) - 1
        BY <1>6, <1>5, FS_RemoveElement
      <4>2. Cardinality(B) \in Nat /\ Cardinality(B) <= SpillAt /\ SpillAt \in Nat
        BY <1>5, <1>9, <2>1, LimitsAssumption DEF k
      <4> QED
        BY <4>1, <4>2
    <3>4. row[c] = {}
      BY <2>1 DEF Calling
    <3> HIDE DEF R, B
    <3>5. Rowed' /\ Rows' = (Rows \ row[c]) \cup R /\ row' \in [Small -> SUBSET Block]
      BY <2>1, <3>1, <3>2, <3>3, RowPut
    <3> QED
      BY <3>4, <3>5 DEF R
  <2>2. CASE c \notin Small
    <3>1. row' = row
      BY <1>6, <2>2
    <3>2. B = {b}
      <4>1. Cardinality(B) <= 1 /\ Cardinality(B) \in Nat
        BY <1>5, <1>9, <2>2 DEF k
      <4>2. IsFiniteSet(B \ {b}) /\ Cardinality(B \ {b}) = Cardinality(B) - 1
        BY <1>6, <1>5, FS_RemoveElement
      <4>3. Cardinality(B \ {b}) \in Nat
        BY <4>2, FS_CardinalityType
      <4>4. Cardinality(B \ {b}) = 0
        BY <4>1, <4>2, <4>3
      <4>5. B \ {b} = {}
        BY <4>2, <4>4, FS_EmptySet
      <4> QED
        BY <1>6, <4>5
    <3>3. Rowed' /\ Rows' = Rows
      BY <3>1 DEF Rowed, Rows
    <3> QED
      BY <3>1, <3>2, <3>3 DEF Types
  <2> QED
    BY <2>1, <2>2
<1> HIDE DEF B, p, K
<1>19. Out' = (Out \ Gathered(s)) \cup B
  <2>1. Gathered(s) \cap live = {} /\ Gathered(s) \cap Rows = {} /\ Gathered(s) \cap Carried = {}
    BY <1>2 DEF Apart
  <2> QED
    BY <1>6, <1>14, <1>16, <1>17, <1>18, <2>1 DEF Out
<1>20. Apart'
  <2>1. B \cap live = {} /\ B \cap Rows = {} /\ B \cap Carried = {}
        /\ B \cap Uncollected' = {}
    BY <1>2, <1>14, <1>15 DEF Apart, Out
  <2> QED
    BY <1>6, <1>14, <1>16, <1>17, <1>18, <2>1 DEF Apart
<1>21. Homes'
  <2>1. \A e \in K : e \in Out' <=> e \notin r.free
    <3> SUFFICES ASSUME NEW e \in K PROVE e \in Out' <=> e \notin r.free
      OBVIOUS
    <3>1. CASE e \in B
      BY <1>11, <1>19, <3>1
    <3>2. CASE e \notin B
      BY <1>2, <1>5, <1>11, <1>19, <3>2
    <3> QED
      BY <3>1, <3>2
  <2>2. \A e : e \notin K => (e \in Out' <=> e \in Out)
    BY <1>2, <1>5, <1>10, <1>19
  <2> QED
    BY <1>3, <1>5, <1>7, <1>11, <1>14, <2>1, <2>2, HomesChanged DEF K
<1>22. Calling'
  BY <1>14, <1>16 DEF Calling, Emptied
<1>23. Types'
  <2>1. live' \subseteq Block
    BY <1>6, <1>5, <1>8 DEF Types
  <2> QED
    BY <1>14, <1>16, <1>18, <2>1, TypesPut DEF Types
<1>24. OneEach'
  BY <1>17 DEF OneEach
<1> QED
  BY <1>14, <1>18, <1>20, <1>21, <1>22, <1>23, <1>24

\* A turn that gives up: every block of the span is out.
LEMMA ExhaustKeeps ==
    ASSUME HeapInv, NEW c \in Class, NEW s \in Spans, cur[c] = s, call.op = "alloc",
           c = call.class, Exhaust(s),
           IF metas[s].state = "kept" THEN KeptUnlink(s) ELSE UNCHANGED <<kept, keptPages>>,
           UNCHANGED <<partial, freePages, advised, arenas, spare, remote>>
    PROVE  HeapInv'
<1> USE DEF HeapInv
<1>1. PICK m : m = Collected(s)
  OBVIOUS
<1>2. /\ m \in Record /\ m.class = metas[s].class /\ m.bump = metas[s].bump
      /\ m.free \subseteq Carved(s)
      /\ Range(m.thread) \subseteq Range(metas[s].thread) /\ IsInjective(m.thread)
      /\ m.used = m.bump - Cardinality(m.free)
      /\ Gathered(s) \subseteq Carved(s) /\ Gathered(s) \subseteq Uncollected
      /\ \A b \in Carved(s) : b \in Out /\ b \notin Gathered(s) <=> b \notin m.free
  BY <1>1, CollectedFacts
<1>3. s \in Place /\ metas[s].class = c /\ m.class = c
  BY <1>2, SpanTyped, NoneAssumption DEF Listed, Place
<1> DEFINE r == [m EXCEPT !.state = "full"]
<1>4. /\ Takes(s, m) = {} /\ metas' = [metas EXCEPT ![s] = r]
      /\ cur' = [cur EXCEPT ![c] = none]
      /\ UNCHANGED <<live, row, call>>
  BY <1>1, <1>3 DEF Exhaust
<1>5. m.free = {} /\ m.bump = Slots[c]
  BY <1>1, <1>3, <1>4, TakesNone
<1>6. /\ r \in Record /\ r.class = c /\ r.bump = m.bump /\ r.used = m.used /\ r.free = m.free
      /\ r.thread = m.thread /\ r.state = "full"
  BY <1>2, <1>3 DEF Record, States
<1>7. Slots[c] \in Nat \ {0} /\ Cardinality({}) = 0
  BY Geometry, FS_EmptySet
<1>8. m.used = Slots[c] - 0
  BY <1>2, <1>5, <1>7
<1>9. r.used # 0 /\ r.bump \in Nat /\ metas[s].bump <= r.bump /\ r.bump <= Slots[c]
  BY <1>2, <1>5, <1>6, <1>7, <1>8
<1>10. Carved(s) = Slotted(s, c, 0, r.bump)
  BY <1>2, <1>3, <1>6, CarvedSlots
<1>11. SoundRecord(s, r)
  <2>1. Range(r.thread) \subseteq Carved(s)
    <3>1. Range(metas[s].thread) \subseteq Carved(s)
      BY CarvedSlots DEF Records, SoundRecord
    <3> QED
      BY <1>2, <1>6, <3>1
  <2> HIDE DEF r
  <2> QED
    BY <1>2, <1>5, <1>6, <1>9, <1>10, <2>1 DEF SoundRecord
<1> HIDE DEF r
<1>12. /\ Spans' = Spans /\ metas'[s] = r /\ \A x \in Spans \ {s} : metas'[x] = metas[x]
       /\ metas' \in [Spans' -> Record]
       /\ cur' \in [Class -> Place \cup {none}] /\ kept' \in Seq(Place)
       /\ Records' /\ Layout' /\ Listed' /\ KeptList'
       /\ Uncollected' = Uncollected \ Gathered(s)
       /\ \A x \in Spans : metas'[x].used = 0 => metas'[x].state = "kept"
  <2>1. Range(r.thread) = Range(Collected(s).thread)
    BY <1>1, <1>6
  <2> QED
    BY <1>4, <1>6, <1>9, <1>11, <2>1, RefillPut
<1>13. /\ Rows' = Rows /\ Spilling' = Spilling /\ Abroad' = Abroad /\ Carried' = Carried
  BY <1>4 DEF Rows, Spilling, Abroad, Carried
<1>14. Apart'
  BY <1>4, <1>12, <1>13 DEF Apart
<1>15. Out' = Out \ Gathered(s)
  <2>1. /\ Gathered(s) \cap live = {} /\ Gathered(s) \cap Rows = {}
        /\ Gathered(s) \cap Carried = {} /\ Gathered(s) \cap Spilling = {}
    BY <1>2 DEF Apart
  <2> QED
    BY <1>4, <1>12, <1>13, <2>1 DEF Out
<1>16. Homes'
  <2>1. \A b \in Carved(s) : b \in Out' <=> b \notin r.free
    BY <1>2, <1>6, <1>15
  <2>2. \A b : b \notin Carved(s) => (b \in Out' <=> b \in Out)
    BY <1>2, <1>15
  <2> QED
    BY <1>3, <1>6, <1>9, <1>10, <1>12, <2>1, <2>2, HomesChanged
<1>17. Calling'
  <2>1. \A d \in Small : d = call'.class => row'[d] = {}
    BY <1>4 DEF Calling
  <2> QED
    BY <1>4, <1>12, <2>1 DEF Calling, Emptied
<1>18. Types'
  <2>1. /\ live' \subseteq Block /\ row' \in [Small -> SUBSET Block] /\ call' \in Calls
        /\ partial' \in [Class -> SUBSET Place]
        /\ remote' \in [Thread -> Release \cup {none}]
    BY <1>4 DEF Types
  <2> QED
    BY <1>12, <2>1, TypesPut
<1>19. Rowed' /\ OneEach'
  BY <1>4, <1>13 DEF Rowed, OneEach
<1> QED
  BY <1>12, <1>14, <1>16, <1>17, <1>18, <1>19

\* A turn of refill's loop.
LEMMA RefillKeeps ==
    ASSUME HeapInv, NEW c \in Class, Refill(c)
    PROVE  HeapInv'
<1>1. /\ call.op = "alloc" /\ c = call.class /\ cur[c] # none
      /\ TakeFrom(cur[c]) \/ Exhaust(cur[c])
      /\ IF metas[cur[c]].state = "kept" THEN KeptUnlink(cur[c])
         ELSE UNCHANGED <<kept, keptPages>>
      /\ UNCHANGED <<partial, freePages, advised, arenas, spare, remote>>
  BY DEF Refill, Allocating
<1>2. PICK s \in Spans : s = cur[c]
  BY <1>1 DEF HeapInv, Listed
<1> QED
  BY <1>1, <1>2, TakeKeeps, ExhaustKeeps

-----------------------------------------------------------------------------
(* The invariant, and what it says.                                        *)

\* A heap with nothing mapped, nothing out and no call under way.
LEMMA InitHeap == Init => HeapInv
<1> SUFFICES ASSUME Init PROVE HeapInv
  OBVIOUS
<1> USE DEF Init
<1>1. Spans = {} /\ Mapped = {}
  BY DEF Spans, Mapped
<1>2. kept = <<>> /\ kept \in Seq(Place) /\ Range(kept) = {} /\ DOMAIN kept = {}
  BY DEF Range
<1>3. call.op = "none" /\ call \in Calls
  BY DEF Idle, Calls
<1>4. Types
  <2>1. <<>> \in [{} -> Record] /\ <<>> \in [{} -> SUBSET Page]
    OBVIOUS
  <2>2. metas \in [Spans -> Record] /\ freePages \in [Mapped -> SUBSET Page]
        /\ advised \in [Mapped -> SUBSET Page]
    BY <1>1, <2>1
  <2> QED
    BY <1>1, <1>2, <1>3, <2>2 DEF Types
<1>5. Records /\ Layout
  BY <1>1 DEF Records, Layout
<1>6. Calling /\ Listed
  BY <1>1, <1>3 DEF Calling, Listed
<1>7. KeptList
  <2>1. WrittenPages = {}
    BY <1>2 DEF WrittenPages
  <2>2. IsFiniteSet({}) /\ Cardinality({}) = 0
    BY FS_EmptySet
  <2>3. 0 <= KeptBudget
    BY LimitsAssumption
  <2> QED
    BY <1>1, <1>2, <2>1, <2>2, <2>3 DEF KeptList
<1>8. Abroad = {} /\ Rows = {} /\ Spilling = {} /\ Carried = {} /\ Uncollected = {}
  BY <1>1, <1>3 DEF Abroad, Rows, Spilling, Carried, Uncollected
<1>9. Apart /\ Homes /\ OneEach
  BY <1>1, <1>8 DEF Apart, Homes, Out, OneEach
<1>10. Rowed
  <2>1. IsFiniteSet({}) /\ Cardinality({}) = 0
    BY FS_EmptySet
  <2>2. 0 <= SpillAt
    BY LimitsAssumption
  <2> QED
    BY <2>1, <2>2 DEF Rowed
<1> QED
  BY <1>4, <1>5, <1>6, <1>7, <1>9, <1>10 DEF HeapInv

\* No step of the owner or of another thread breaks it.
LEMMA NextHeap == HeapInv /\ [Next]_vars => HeapInv'
<1> SUFFICES ASSUME HeapInv, [Next]_vars PROVE HeapInv'
  OBVIOUS
<1>1. ASSUME NEW c \in Small, PopRow(c) PROVE HeapInv'
  BY <1>1, PopRowKeeps
<1>2. ASSUME NEW c \in Class, Call(c) PROVE HeapInv'
  BY <1>2, CallKeeps
<1>3. ASSUME NEW c \in Class, Reopen(c) PROVE HeapInv'
  BY <1>3, ReopenKeeps
<1>4. ASSUME NEW c \in Class, NewSpan(c) PROVE HeapInv'
  BY <1>4, NewSpanKeeps
<1>5. ASSUME NEW c \in Class, Refill(c) PROVE HeapInv'
  BY <1>5, RefillKeeps
<1>6. ASSUME NEW b \in live, FreeSmall(b) PROVE HeapInv'
  BY <1>6, FreeSmallKeeps
<1>7. ASSUME NEW b \in live, FreeMedium(b) PROVE HeapInv'
  BY <1>7, FreeMediumKeeps
<1>8. ASSUME SpillRun PROVE HeapInv'
  BY <1>8, SpillRunKeeps
<1>9. ASSUME KeepEvict PROVE HeapInv'
  BY <1>9, KeepEvictKeeps
<1>10. ASSUME Keep PROVE HeapInv'
  <2>1. PICK s : s = call.span
    OBVIOUS
  <2> QED
    BY <1>10, <2>1, KeepKeeps
<1>11. ASSUME NEW t \in Thread, Exchange(t) PROVE HeapInv'
  BY <1>11, ExchangeKeeps
<1>12. ASSUME NEW t \in Thread, NEW b \in live, FreeRemote(t, b) PROVE HeapInv'
  BY <1>12, FreeRemoteKeeps
<1>13. ASSUME UNCHANGED vars PROVE HeapInv'
  <2>1. /\ UNCHANGED <<live, row, call, remote>>
        /\ UNCHANGED <<cur, partial, kept, keptPages, metas, freePages, advised,
                       arenas, spare>>
    BY <1>13 DEF vars, heap
  <2>2. /\ Spans' = Spans /\ Uncollected' = Uncollected
        /\ Records' /\ Layout' /\ Listed' /\ KeptList'
    BY <2>1, SpansKept
  <2>3. /\ Rows' = Rows /\ Spilling' = Spilling /\ Carried' = Carried /\ Abroad' = Abroad
    BY <2>1 DEF Rows, Spilling, Carried, Abroad
  <2>4. Out' = Out /\ Apart'
    BY <2>1, <2>2, <2>3 DEF HeapInv, Out, Apart
  <2>5. Types' /\ Homes' /\ Calling'
    BY <2>1, <2>2, <2>4, TypesKept, HomesKept, CallingKept DEF HeapInv, Types
  <2>6. Rowed' /\ OneEach'
    BY <2>1, <2>3 DEF HeapInv, Rowed, OneEach
  <2> QED
    BY <2>2, <2>4, <2>5, <2>6 DEF HeapInv
<1> QED
  BY <1>1, <1>2, <1>3, <1>4, <1>5, <1>6, <1>7, <1>8, <1>9, <1>10, <1>11, <1>12, <1>13
     DEF Next

\* The blocks out, by the places they can be in.
LEMMA PlacesAre ==
    /\ DOMAIN Places = 1 .. 5
    /\ Places[1] = live /\ Places[2] = Rows /\ Places[3] = Spilling
    /\ Places[4] = Carried /\ Places[5] = Uncollected
    /\ UNION Range(Places) = Out
<1>1. /\ DOMAIN Places = 1 .. 5
      /\ Places[1] = live /\ Places[2] = Rows /\ Places[3] = Spilling
      /\ Places[4] = Carried /\ Places[5] = Uncollected
  BY DEF Places, Rows, Spilling, Carried
<1>2. 1 .. 5 = {1, 2, 3, 4, 5}
  OBVIOUS
<1>3. Range(Places) = {live, Rows, Spilling, Carried, Uncollected}
  BY <1>1, <1>2 DEF Range
<1>4. UNION Range(Places) = Out
  BY <1>3 DEF Out
<1> QED
  BY <1>1, <1>4

\* So no block that was carved is lost, and none is in two places.
LEMMA HeapBlocks == HeapInv => BlocksConserved
<1> SUFFICES ASSUME HeapInv PROVE BlocksConserved
  OBVIOUS
<1> USE DEF HeapInv
<1>1. \A i, k \in DOMAIN Places : i # k => Places[i] \cap Places[k] = {}
  <2>1. \A i \in DOMAIN Places : i = 1 \/ i = 2 \/ i = 3 \/ i = 4 \/ i = 5
    BY PlacesAre
  <2> QED
    BY <2>1, PlacesAre DEF Apart
<1>2. Out \subseteq UNION {Carved(s) : s \in Spans}
  BY DEF Homes
<1>3. ASSUME NEW s \in Spans
      PROVE  /\ metas[s].free \cup Range(metas[s].thread) \subseteq Carved(s)
             /\ Out \cap Carved(s) = Carved(s) \ metas[s].free
             /\ metas[s].used = Cardinality(Carved(s)) - Cardinality(metas[s].free)
             /\ IsInjective(metas[s].thread)
  BY CarvedFacts, CarvedSlots DEF Records, SoundRecord, Homes
<1>4. \A c \in Small : Cardinality(row[c]) <= SpillAt
  BY DEF Rowed
<1>5. UNION Range(Places) = Out
  BY PlacesAre
<1> QED
  BY <1>1, <1>2, <1>3, <1>4, <1>5 DEF BlocksConserved

\* So the lists, the kept pages and the bitmaps are what the spans' records say.
LEMMA HeapLists == HeapInv => ListsAgree
<1> SUFFICES ASSUME HeapInv PROVE ListsAgree
  OBVIOUS
<1> USE DEF HeapInv
<1>1. \A s \in Spans : s \in Place /\ metas[s].class \in Class /\ s # none
  BY SpanTyped, NoneAssumption DEF Place
<1>2. \A c \in Class : partial[c] = In(c, "partial")
  <2>1. \A c \in Class : partial[c] \subseteq Place
    BY DEF Types
  <2> QED
    BY <1>1, <2>1 DEF Listed, In
<1>3. \A c \in Class : In(c, "cur") \cup In(c, "kept") = {cur[c]} \ {none}
  <2> SUFFICES ASSUME NEW c \in Class
               PROVE  In(c, "cur") \cup In(c, "kept") = {cur[c]} \ {none}
    OBVIOUS
  <2>1. \A s \in Spans : metas[s].class = c /\ metas[s].state \in {"cur", "kept"} => cur[c] = s
    BY DEF Listed
  <2>2. cur[c] # none => /\ cur[c] \in Spans /\ metas[cur[c]].class = c
                         /\ metas[cur[c]].state \in {"cur", "kept"}
    BY DEF Listed
  <2>3. \A s : s \in In(c, "cur") \cup In(c, "kept")
               <=> s \in Spans /\ metas[s].class = c /\ metas[s].state \in {"cur", "kept"}
    BY DEF In
  <2> QED
    BY <1>1, <2>1, <2>2, <2>3
<1>4. \A s \in Spans : /\ metas[s].state = "partial" => metas[s].free # {}
                       /\ metas[s].state = "full" => /\ metas[s].free = {}
                                                     /\ metas[s].bump = Slots[metas[s].class]
  BY DEF Records, SoundRecord
<1>5. Range(kept) = UNION {In(c, "kept") : c \in Class} /\ IsInjective(kept)
  <2>1. \A s : s \in Range(kept) <=> s \in Spans /\ metas[s].state = "kept"
    <3>1. \A s : s \in Range(kept) <=> \E i \in DOMAIN kept : kept[i] = s
      BY DEF Range
    <3>2. \A i \in DOMAIN kept : kept[i] \in Place
      BY DEF Types
    <3> QED
      BY <1>1, <3>1, <3>2 DEF KeptList
  <2>2. \A s : s \in UNION {In(c, "kept") : c \in Class}
               <=> s \in Spans /\ metas[s].state = "kept"
    BY <1>1 DEF In
  <2>3. IsInjective(kept)
    BY DEF KeptList, IsInjective
  <2> QED
    BY <2>1, <2>2, <2>3
<1>6. keptPages = Cardinality(WrittenPages) /\ keptPages <= KeptBudget
  BY DEF KeptList
<1>7. \A s, x \in Spans : s # x /\ s[1] = x[1] => PagesOf(s) \cap PagesOf(x) = {}
  BY DEF Layout
<1>8. ASSUME NEW a \in Mapped
      PROVE  /\ freePages[a] = Page \ UNION {PagesOf(s) : s \in {x \in Spans : x[1] = a}}
             /\ advised[a] \subseteq freePages[a]
  <2>1. freePages[a] \subseteq Page
    BY DEF Types
  <2>2. \A p : p \in UNION {PagesOf(s) : s \in {x \in Spans : x[1] = a}} <=> Covered(a, p)
    BY DEF Covered
  <2>3. \A p \in Page : p \in freePages[a] <=> ~Covered(a, p)
    BY DEF Layout
  <2> QED
    BY <2>1, <2>2, <2>3 DEF Layout
<1>9. arenas = {a \in Mapped \ {spare} : freePages[a] # {}}
  BY DEF Layout
<1> QED
  BY <1>2, <1>3, <1>4, <1>5, <1>6, <1>7, <1>8, <1>9 DEF ListsAgree

\* So between calls an empty span is a kept one, and an empty arena the spare.
LEMMA HeapEmpty == HeapInv => EmptyGoesBack
<1> SUFFICES ASSUME HeapInv PROVE EmptyGoesBack
  OBVIOUS
<1>1. ASSUME call = Idle, NEW s \in Spans, metas[s].used = 0
      PROVE  metas[s].state = "kept"
  <2>1. call.op = "none"
    BY <1>1 DEF Idle
  <2> QED
    BY <1>1, <2>1 DEF HeapInv, Calling, Emptied
<1>2. \A a \in Mapped : freePages[a] = Page => a = spare
  BY DEF HeapInv, Layout
<1> QED
  BY <1>1, <1>2 DEF EmptyGoesBack

\* The heap's inductive invariant holds at every step of every number of
\* threads, arenas and classes.
THEOREM HeapHolds == Spec => []HeapInv
  BY InitHeap, NextHeap, PTL DEF Spec

\* span.rs:13-16: a carved block is on the free list of its span or in one other
\* place and no two, and used counts those elsewhere, however releases from other
\* threads fall between the owner's loads and stores.
THEOREM BlocksStay == Spec => []BlocksConserved
  BY HeapHolds, HeapBlocks, PTL

\* alloc.rs, medium.rs:37 and arena.rs:49-52: the lists, the kept list's count and
\* budget, the bitmaps and the list of arenas agree with the spans there are.
THEOREM ListsStay == Spec => []ListsAgree
  BY HeapHolds, HeapLists, PTL

\* medium.rs:17 and heap.rs:13-15: between calls an empty span is given back or
\* kept within the budget, and one empty arena at most is still mapped.
THEOREM EmptyReturns == Spec => []EmptyGoesBack
  BY HeapHolds, HeapEmpty, PTL

-----------------------------------------------------------------------------
(* The heap hands out memory as malloc promises it.                        *)

\* Blocks whose units end before the next begin share no cell.
LEMMA CellsBefore ==
    ASSUME NEW b \in Block, NEW e \in Block, b.unit + Size[b.class] <= e.unit
    PROVE  CellsOf(b) \cap CellsOf(e) = {}
<1>1. /\ b.unit \in Nat /\ e.unit \in Nat /\ Size[b.class] \in Nat /\ Size[e.class] \in Nat
  <2>1. PageUnits \in Nat /\ ArenaPages \in Nat
    BY GeometryAssumption
  <2>2. b.class \in Class /\ e.class \in Class /\ b.unit \in Unit /\ e.unit \in Unit
    BY DEF Block
  <2> QED
    BY <2>1, <2>2, Geometry DEF Unit
<1>2. \A u \in b.unit .. b.unit + Size[b.class] - 1 :
         u \notin e.unit .. e.unit + Size[e.class] - 1
  BY <1>1
<1> QED
  BY <1>2 DEF CellsOf

\* Two blocks carved, of one span or of spans that share no page, share no cell.
LEMMA CarvedCells ==
    ASSUME Types, Records, Layout, NEW s \in Spans, NEW x \in Spans,
           NEW b \in Carved(s), NEW e \in Carved(x), b # e
    PROVE  CellsOf(b) \cap CellsOf(e) = {}
<1> DEFINE c == metas[s].class
           d == metas[x].class
           P == PageUnits
           p == s[2] - 1
           q == x[2] - 1
<1>1. /\ s \in Place /\ c \in Class /\ metas[s].bump \in Nat /\ metas[s].bump <= Slots[c]
      /\ x \in Place /\ d \in Class /\ metas[x].bump \in Nat /\ metas[x].bump <= Slots[d]
      /\ b \in Block /\ e \in Block
  BY SpanTyped, RecordFields, CarvedFacts DEF Records, SoundRecord
<1>2. PICK i \in 0 .. metas[s].bump - 1 : b = Slot(s, c, i)
  BY DEF Carved, SlotsFrom
<1>3. PICK k \in 0 .. metas[x].bump - 1 : e = Slot(x, d, k)
  BY DEF Carved, SlotsFrom
<1> HIDE DEF c, d
<1>4. i \in Nat /\ i < Slots[c] /\ k \in Nat /\ k < Slots[d]
  BY <1>1, <1>2, <1>3, Geometry
<1>5. p \in Nat /\ q \in Nat /\ P \in Nat \ {0}
      /\ Size[c] \in Nat \ {0} /\ Size[d] \in Nat \ {0}
      /\ Pages[c] \in Nat \ {0} /\ Pages[d] \in Nat \ {0}
  BY <1>1, Geometry DEF Place, Page
<1>6. /\ b.arena = s[1] /\ b.class = c /\ b.unit = p * P + i * Size[c]
      /\ e.arena = x[1] /\ e.class = d /\ e.unit = q * P + k * Size[d]
  BY <1>2, <1>3 DEF Slot
<1>7. CASE s[1] # x[1]
  BY <1>6, <1>7 DEF CellsOf
<1>8. CASE s = x
  <2>1. c = d /\ p = q /\ i # k
    BY <1>2, <1>3, <1>8 DEF c, d
  <2> DEFINE w == p * P
             h == i * Size[c]
             g == k * Size[c]
             z == Size[c]
  <2>2. h \in Nat /\ g \in Nat /\ w \in Nat /\ z \in Nat
        /\ (i < k => h + z <= g) /\ (k < i => g + z <= h)
    BY <1>4, <1>5, Products
  <2>3. b.unit = w + h /\ e.unit = w + g /\ Size[b.class] = z /\ Size[e.class] = z
    BY <1>6, <2>1
  <2> HIDE DEF w, h, g, z
  <2>4. CASE i < k
    <3>1. b.unit + Size[b.class] <= e.unit
      BY <2>2, <2>3, <2>4
    <3> QED
      BY <1>1, <3>1, CellsBefore
  <2>5. CASE k < i
    <3>1. e.unit + Size[e.class] <= b.unit
      BY <2>2, <2>3, <2>5
    <3> QED
      BY <1>1, <3>1, CellsBefore
  <2> QED
    BY <1>4, <2>1, <2>4, <2>5
<1>9. CASE s # x /\ s[1] = x[1]
  <2>1. PagesIn(s, c) \cap PagesIn(x, d) = {}
    BY <1>9, CarvedSlots DEF Layout, c, d
  <2> DEFINE f == Pages[c]
             g == Pages[d]
  <2>2. p + f <= q \/ q + g <= p
    <3>1. s[2] = p + 1 /\ x[2] = q + 1
      BY <1>1, Geometry DEF Place, Page
    <3>2. s[2] \notin PagesIn(x, d) /\ x[2] \notin PagesIn(s, c)
      <4>1. s[2] \in PagesIn(s, c) /\ x[2] \in PagesIn(x, d)
        BY <1>5, <3>1 DEF PagesIn
      <4> QED
        BY <2>1, <4>1
    <3> HIDE DEF p, q
    <3> QED
      BY <1>5, <3>1, <3>2 DEF PagesIn
  <2> DEFINE u == p * P + i * Size[c]
             v == q * P + k * Size[d]
             pp == p * P
             qq == q * P
             pf == (p + f) * P
             qg == (q + g) * P
  <2>3. /\ u \in Nat /\ pp <= u /\ u + Size[c] <= pf
        /\ v \in Nat /\ qq <= v /\ v + Size[d] <= qg
    <3> HIDE DEF p, q
    <3> QED
      BY <1>1, <1>4, <1>5, SlotUnit
  <2>4. /\ p + f \in Nat /\ q + g \in Nat
        /\ pp \in Nat /\ qq \in Nat /\ pf \in Nat /\ qg \in Nat
        /\ p + f <= q => pf <= qq
        /\ q + g <= p => qg <= pp
    <3>1. p + f \in Nat /\ q + g \in Nat
      BY <1>5
    <3> HIDE DEF p, q
    <3> QED
      BY <1>5, <3>1, Products
  <2>5. b.unit = u /\ e.unit = v /\ Size[b.class] = Size[c] /\ Size[e.class] = Size[d]
    BY <1>6
  <2> HIDE DEF u, v, pp, qq, pf, qg
  <2>6. CASE p + f <= q
    <3>1. b.unit + Size[b.class] <= e.unit
      BY <1>5, <2>3, <2>4, <2>5, <2>6
    <3> QED
      BY <1>1, <3>1, CellsBefore
  <2>7. CASE q + g <= p
    <3>1. e.unit + Size[e.class] <= b.unit
      BY <1>5, <2>3, <2>4, <2>5, <2>7
    <3> QED
      BY <1>1, <3>1, CellsBefore
  <2> QED
    BY <2>2, <2>6, <2>7
<1> QED
  BY <1>7, <1>8, <1>9

\* The blocks in hand are blocks, and each has its cells to itself.
HandApart == /\ InHand \subseteq Block
             /\ \A b, e \in InHand : b # e => CellsOf(b) \cap CellsOf(e) = {}

\* So the blocks in the program's hands are apart: alloc never hands out a cell twice.
LEMMA HeapApart == HeapInv => HandApart
<1> SUFFICES ASSUME HeapInv PROVE HandApart
  OBVIOUS
<1> USE DEF HeapInv
<1>1. InHand \subseteq Out
  BY DEF InHand, Out, Carried
<1>2. InHand \subseteq Block
  BY <1>1, CarvedFacts DEF Homes
<1>3. ASSUME NEW b \in InHand, NEW e \in InHand, b # e
      PROVE  CellsOf(b) \cap CellsOf(e) = {}
  <2>1. PICK s \in Spans : b \in Carved(s)
    BY <1>1 DEF Homes
  <2>2. PICK x \in Spans : e \in Carved(x)
    BY <1>1 DEF Homes
  <2> QED
    BY <1>3, <2>1, <2>2, CarvedCells
<1> QED
  BY <1>2, <1>3 DEF HandApart

\* What a step does to the blocks in hand: nothing, one more, or one fewer.  A
\* release by another thread passes its block on, and its exchange lets it go.
LEMMA HandStep ==
    ASSUME HeapInv, [Next]_vars
    PROVE  \/ InHand' = InHand
           \/ \E b \in InHand : InHand' = InHand \ {b}
           \/ \E b : InHand' = InHand \cup {b}
<1> DEFINE Step == \/ InHand' = InHand
                   \/ \E b \in InHand : InHand' = InHand \ {b}
                   \/ \E b : InHand' = InHand \cup {b}
<1>1. InHand = live \cup Carried
  BY DEF InHand, Carried
<1>2. InHand' = live' \cup Carried'
  BY DEF InHand, Carried
<1>3. ASSUME UNCHANGED <<live, remote>> PROVE Step
  BY <1>3 DEF InHand, Abroad
<1>4. ASSUME UNCHANGED remote, NEW b, live' = live \cup {b} PROVE Step
  <2>1. Carried' = Carried
    BY <1>4 DEF Carried, Abroad
  <2> QED
    BY <1>1, <1>2, <1>4, <2>1
<1>5. ASSUME UNCHANGED remote, NEW b \in live, live' = live \ {b} PROVE Step
  <2>1. Carried' = Carried
    BY <1>5 DEF Carried, Abroad
  <2>2. b \notin Carried
    BY DEF HeapInv, Apart
  <2> QED
    BY <1>1, <1>2, <1>5, <2>1, <2>2
<1>6. ASSUME NEW t \in Thread, NEW b \in live, FreeRemote(t, b) PROVE Step
  <2> DEFINE q == [block |-> b, seen |-> HeadOf(SpanOf(b))]
  <2>1. /\ remote[t] = none /\ live' = live \ {b}
        /\ remote' = [remote EXCEPT ![t] = q]
    BY <1>6 DEF FreeRemote
  <2>2. q # none /\ q.block = b
    <3>1. b \in Block /\ b \in Out
      BY DEF HeapInv, Types, Out
    <3>2. SpanOf(b) \in Spans
      BY <3>1, OutHome
    <3>3. HeadOf(SpanOf(b)) \in Block \cup {none}
      <4>1. metas[SpanOf(b)].thread \in Seq(Block)
        BY <3>2, SpanTyped, RecordFields DEF HeapInv
      <4> QED
        BY <4>1 DEF HeadOf
    <3> QED
      BY <3>1, <3>3, NoneAssumption
  <2> HIDE DEF q
  <2>3. remote'[t] = q /\ \A u \in Thread \ {t} : remote'[u] = remote[u]
    BY <2>1 DEF HeapInv, Types
  <2>4. Abroad' = Abroad \cup {t} /\ t \notin Abroad
    BY <2>1, <2>2, <2>3 DEF Abroad
  <2>5. Carried' = Carried \cup {b}
    BY <2>2, <2>3, <2>4 DEF Carried, Abroad
  <2> QED
    BY <1>1, <1>2, <1>6, <2>1, <2>5
<1>7. ASSUME NEW t \in Thread, Exchange(t) PROVE Step
  <2> DEFINE b == remote[t].block
  <2>1. /\ remote[t] # none /\ UNCHANGED live
        /\ \/ remote' = [remote EXCEPT ![t] = none]
           \/ remote' = [remote EXCEPT ![t].seen = HeadOf(SpanOf(b))]
    BY <1>7 DEF Exchange
  <2>2. t \in Abroad /\ remote[t] \in Release /\ remote \in [Thread -> Release \cup {none}]
    BY <2>1 DEF HeapInv, Types, Abroad
  <2>3. CASE remote' = [remote EXCEPT ![t] = none]
    <3>1. remote'[t] = none /\ \A u \in Thread \ {t} : remote'[u] = remote[u]
      BY <2>2, <2>3
    <3>2. Abroad' = Abroad \ {t}
      BY <3>1 DEF Abroad
    <3>3. \A u \in Abroad \ {t} : remote'[u] = remote[u] /\ remote[u].block # b
      BY <2>2, <3>1 DEF HeapInv, OneEach, Abroad
    <3>4. Carried' = Carried \ {b} /\ b \in Carried
      <4>1. \A e : e \in Carried <=> \E u \in Abroad : e = remote[u].block
        BY DEF Carried
      <4>2. \A e : e \in Carried' <=> \E u \in Abroad \ {t} : e = remote'[u].block
        BY <3>2 DEF Carried
      <4> QED
        BY <2>2, <3>3, <4>1, <4>2
    <3>5. b \notin live
      BY <3>4 DEF HeapInv, Apart
    <3> QED
      BY <1>1, <1>2, <2>1, <3>4, <3>5
  <2>4. CASE remote' = [remote EXCEPT ![t].seen = HeadOf(SpanOf(b))]
    <3>1. /\ remote'[t].block = b /\ remote'[t] # none
          /\ \A u \in Thread \ {t} : remote'[u] = remote[u]
      <4>1. b \in Out
        BY <2>2 DEF Out, Carried
      <4>2. HeadOf(SpanOf(b)) \in Block \cup {none}
        <5>1. SpanOf(b) \in Spans
          BY <4>1, OutHome
        <5>2. metas[SpanOf(b)].thread \in Seq(Block)
          BY <5>1, SpanTyped, RecordFields DEF HeapInv
        <5> QED
          BY <5>2 DEF HeadOf
      <4>3. remote'[t] \in Release /\ remote'[t].block = b
        BY <2>2, <2>4, <4>2 DEF Release
      <4> QED
        BY <2>2, <2>4, <4>3, NoneAssumption DEF Release
    <3>2. Abroad' = Abroad
      BY <2>2, <3>1 DEF Abroad
    <3>3. \A u \in Abroad : remote'[u].block = remote[u].block
      BY <3>1 DEF Abroad
    <3>4. Carried' = Carried
      BY <3>2, <3>3 DEF Carried
    <3> QED
      BY <1>1, <1>2, <2>1, <3>4
  <2> QED
    BY <2>1, <2>3, <2>4
<1>8. ASSUME NEW c \in Small, PopRow(c) PROVE Step
  BY <1>4, <1>8 DEF PopRow
<1>9. ASSUME NEW c \in Class, Refill(c) PROVE Step
  <2>1. UNCHANGED remote
    BY <1>9 DEF Refill
  <2>2. (\E b : live' = live \cup {b}) \/ UNCHANGED live
    BY <1>9 DEF Refill, TakeFrom, Exhaust
  <2> QED
    BY <1>3, <1>4, <2>1, <2>2
<1>10. ASSUME NEW c \in Class, Call(c) \/ Reopen(c) \/ NewSpan(c) PROVE Step
  BY <1>3, <1>10 DEF Call, Reopen, NewSpan
<1>11. ASSUME NEW b \in live, FreeSmall(b) \/ FreeMedium(b) PROVE Step
  BY <1>5, <1>11 DEF FreeSmall, FreeMedium
<1>12. ASSUME SpillRun \/ KeepEvict \/ Keep \/ UNCHANGED vars PROVE Step
  BY <1>3, <1>12 DEF SpillRun, KeepEvict, Keep, vars
<1> HIDE DEF Step
<1>13. Step
  BY <1>6, <1>7, <1>8, <1>9, <1>10, <1>11, <1>12 DEF Next
<1> QED
  BY <1>13 DEF Step

\* A step of the heap is a step of the abstract one, or none.
LEMMA MemoryStep ==
    ASSUME HeapInv, [Next]_vars, HandApart'
    PROVE  [Memory!Next]_InHand
<1>1. CASE InHand' = InHand
  BY <1>1
<1>2. ASSUME NEW b \in InHand, InHand' = InHand \ {b} PROVE Memory!Next
  <2>1. b \in Block
    BY HeapApart DEF HandApart
  <2>2. Memory!Free(b)
    BY <1>2 DEF Memory!Free
  <2> QED
    BY <2>1, <2>2 DEF Memory!Next
<1>3. ASSUME NEW b, InHand' = InHand \cup {b}, b \notin InHand PROVE Memory!Next
  <2>1. b \in Block /\ \A e \in InHand : CellsOf(b) \cap CellsOf(e) = {}
    BY <1>3 DEF HandApart
  <2>2. Memory!Alloc(b)
    BY <1>3, <2>1 DEF Memory!Alloc
  <2> QED
    BY <2>1, <2>2 DEF Memory!Next
<1>4. ASSUME NEW b, InHand' = InHand \cup {b}, b \in InHand PROVE InHand' = InHand
  BY <1>4
<1> QED
  BY <1>1, <1>2, <1>3, <1>4, HandStep

\* The refinement: no block handed out shares memory with one in hand, through
\* rows, spans, pages and arenas that come and go and change class.
THEOREM BlocksImplemented == Spec => ImplementsBlocks
<1>1. Init => Memory!Init
  BY DEF Init, Memory!Init, InHand, Abroad
<1>2. HeapInv /\ [Next]_vars /\ HandApart' => [Memory!Next]_InHand
  BY MemoryStep
<1> QED
  BY <1>1, <1>2, HeapHolds, HeapApart, PTL DEF Spec, ImplementsBlocks, Memory!Spec
=============================================================================
