------------------------------ MODULE SpanHeap ------------------------------
(***************************************************************************)
(* torajs-mmalloc's heap: arenas of pages, spans of pages carved into the  *)
(* slots of one size class, rows of free blocks in front of the small      *)
(* classes, and the releases other threads' heaps make of its blocks.      *)
(*                                                                         *)
(* A call of the owner is one step where a row answers it, and a step for  *)
(* each turn of its loop where none does.  A release by another thread is  *)
(* the load of the span's atomic list and each exchange tried on it.       *)
(* Rows, free lists and the lists of partial spans and of arenas are sets: *)
(* which member comes next is left open.  Memory is counted in units.      *)
(* Left out are the header page of an arena, blocks past the medium        *)
(* classes, which have a mapping of their own, and the registry of         *)
(* mappings, which free without a size reads.                              *)
(***************************************************************************)
EXTENDS Integers, Sequences, FiniteSets, Functions, FiniteSetsExt, SequencesExt, Filtering

CONSTANTS Small, Medium,  \* size classes with a row, and without
          Size,           \* class_size, in units
          Pages,          \* span_pages
          Slots,          \* slots_per_span
          PageUnits,      \* ARENA_PAGE
          Arena,          \* the arenas the kernel has room for
          ArenaPages,     \* pages of an arena past its header
          SpillAt,        \* SPILL_AT
          KeptBudget,     \* KEPT_BUDGET_PAGES
          Thread,         \* other threads that release blocks
          OutBound,       \* blocks out before the owner asks for no more
          AwayBound,      \* of those, with other threads or uncollected from them
          none            \* a null pointer

Class == Small \cup Medium

\* The slots of a span lie in its pages, and a span in an arena.
ASSUME GeometryAssumption ==
    /\ PageUnits \in Nat \ {0} /\ ArenaPages \in Nat
    /\ Size \in [Class -> Nat \ {0}]
    /\ Pages \in [Class -> 1 .. ArenaPages]
    /\ Slots \in [Class -> Nat \ {0}]
    /\ \A c \in Class : Slots[c] * Size[c] <= Pages[c] * PageUnits

ASSUME LimitsAssumption == SpillAt \in Nat \ {0} /\ KeptBudget \in Nat

Page == 1..ArenaPages
Unit == 0..(ArenaPages * PageUnits - 1)
Block == [arena : Arena, unit : Unit, class : Class]

ASSUME NoneAssumption ==
    /\ none \notin Arena /\ none \notin Arena \X Page
    /\ none \notin [block : Block, seen : Block \cup {none}]

VARIABLES live,      \* blocks the program holds
          row,       \* for each small class, the blocks of its row
          cur,       \* the span each class refills from
          partial,   \* for each class, the spans of its partial list
          kept,      \* the kept list, newest first
          keptPages, \* kept_pages
          metas,     \* the spans there are, and their bookkeeping
          freePages, \* for each mapped arena, the pages of its bitmap
          advised,   \* for each mapped arena, pages handed to the kernel
          arenas,    \* the list of arenas with free pages
          spare,     \* the empty arena held back
          call,      \* the owner's call under way
          remote     \* each other thread's release under way

heap == <<row, cur, partial, kept, keptPages, metas, freePages, advised, arenas, spare>>
vars == <<live, heap, call, remote>>

Idle == [op |-> "none"]

Init == /\ live = {}
        /\ row = [c \in Small |-> {}]
        /\ cur = [c \in Class |-> none]
        /\ partial = [c \in Class |-> {}]
        /\ kept = <<>>
        /\ keptPages = 0
        /\ metas = <<>>
        /\ freePages = <<>>
        /\ advised = <<>>
        /\ arenas = {}
        /\ spare = none
        /\ call = Idle
        /\ remote = [t \in Thread |-> none]

-----------------------------------------------------------------------------
(* Arenas, spans and blocks.  A span is its arena and its first page.      *)

Mapped == DOMAIN freePages
Spans == DOMAIN metas
PagesOf(s) == s[2] .. s[2] + Pages[metas[s].class] - 1

\* Arena::containing and meta_of.
SpanOf(b) == CHOOSE s \in Spans :
                s[1] = b.arena /\ 1 + b.unit \div PageUnits \in PagesOf(s)

Slot(s, c, i) == [arena |-> s[1], unit |-> (s[2] - 1) * PageUnits + i * Size[c], class |-> c]

\* The slots of s from number i up to number k.
SlotsFrom(s, i, k) == {Slot(s, metas[s].class, j) : j \in i .. k - 1}

\* touched_pages: those under the slots carved so far.
Touched(s) == (metas[s].bump * Size[metas[s].class] + PageUnits - 1) \div PageUnits

\* Mutant: a run is tried for all its pages but the last.
RunsShort(f, n) == {p \in f : p + n - 1 \in Page /\ p .. p + n - 2 \subseteq f}

\* find_run: the pages at which n free ones of f begin.
Runs(f, n) == {p \in f : p .. p + n - 1 \subseteq f}

-----------------------------------------------------------------------------
(* The owner's lists.  Each changes the lists it names only.               *)

\* Mutant: the pages the span covers are given back, not those it has written.
KeptUnlinkCovered(s) == /\ kept' = Filter(kept, Spans \ {s})
                        /\ keptPages' = keptPages - Pages[metas[s].class]

\* kept_unlink: nothing was carved since keep counted the pages.
KeptUnlink(s) == /\ kept' = Filter(kept, Spans \ {s})
                 /\ keptPages' = keptPages - Touched(s)

\* retire and, with advise, retire_medium: pages back to the arena, an empty
\* arena to the spare or the kernel, which may not take the pages it is handed.
\* The record of s is not read again before init writes it.
Retire(s, advise) ==
    LET a == s[1]
        c == metas[s].class
        state == metas[s].state
        pages == freePages[a] \cup PagesOf(s)
        empty == pages = Page
        destroyed == empty /\ spare # none
    IN  /\ metas' = Restrict(metas, Spans \ {s})
        /\ partial' = IF state = "partial" THEN [partial EXCEPT ![c] = @ \ {s}] ELSE partial
        /\ cur' = IF state \in {"cur", "kept"} THEN [cur EXCEPT ![c] = none] ELSE cur
        /\ IF state = "kept" THEN KeptUnlink(s) ELSE UNCHANGED <<kept, keptPages>>
        /\ arenas' = IF empty THEN arenas \ {a} ELSE arenas \cup {a}
        /\ spare' = IF empty /\ spare = none THEN a ELSE spare
        /\ freePages' = IF destroyed THEN Restrict(freePages, Mapped \ {a})
                        ELSE [freePages EXCEPT ![a] = pages]
        /\ \E handed \in IF advise THEN {{}, PagesOf(s)} ELSE {{}} :
              advised' = IF destroyed THEN Restrict(advised, Mapped \ {a})
                         ELSE [advised EXCEPT ![a] = @ \cup handed]

\* Mutant: a full span goes to the partial list before its count is looked at.
SettleFullFirst(s, run) ==
    LET m == [metas[s] EXCEPT !.free = @ \cup run, !.used = @ - Cardinality(run)]
    IN  IF m.state = "full"
        THEN /\ metas' = [metas EXCEPT ![s] = [m EXCEPT !.state = "partial"]]
             /\ partial' = [partial EXCEPT ![m.class] = @ \cup {s}]
             /\ UNCHANGED <<cur, kept, keptPages, freePages, advised, arenas, spare>>
        ELSE IF m.used = 0 THEN Retire(s, FALSE)
        ELSE /\ metas' = [metas EXCEPT ![s] = m]
             /\ UNCHANGED <<partial, cur, kept, keptPages, freePages, advised, arenas,
                            spare>>

\* settle: the blocks of run are on the span's free list, and the span goes
\* where that puts it.
Settle(s, run) ==
    LET m == [metas[s] EXCEPT !.free = @ \cup run, !.used = @ - Cardinality(run)]
    IN  IF m.used = 0 THEN Retire(s, FALSE)
        ELSE /\ IF m.state = "full"
                THEN /\ metas' = [metas EXCEPT ![s] = [m EXCEPT !.state = "partial"]]
                     /\ partial' = [partial EXCEPT ![m.class] = @ \cup {s}]
                ELSE /\ metas' = [metas EXCEPT ![s] = m]
                     /\ UNCHANGED partial
             /\ UNCHANGED <<cur, kept, keptPages, freePages, advised, arenas, spare>>

-----------------------------------------------------------------------------
(* Allocation.                                                             *)

\* Releases of other threads under way, and blocks they have released that no
\* refill has collected.
Abroad == {t \in Thread : remote[t] # none}
Uncollected == UNION {Range(metas[s].thread) : s \in Spans}
Away == Cardinality(Abroad) + Cardinality(Uncollected)

MayAlloc == call = Idle /\ Cardinality(live) + Away < OutBound

\* pop.
PopRow(c) == /\ MayAlloc
             /\ \E b \in row[c] : /\ row' = [row EXCEPT ![c] = @ \ {b}]
                                  /\ live' = live \cup {b}
             /\ UNCHANGED <<cur, partial, kept, keptPages, metas, freePages, advised,
                            arenas, spare, call, remote>>

\* refill and alloc_medium begin.
Call(c) == /\ MayAlloc
           /\ c \in Small => row[c] = {}
           /\ call' = [op |-> "alloc", class |-> c]
           /\ UNCHANGED <<live, heap, remote>>

Allocating(c) == call.op = "alloc" /\ c = call.class

Fresh(c) == [class |-> c, bump |-> 0, used |-> 0, free |-> {}, thread |-> <<>>,
             state |-> "cur"]

\* carve, by alloc_span, in arena a with the free pages f, those of h advised.
Carve(a, c, f, h) ==
    LET first == Min(Runs(f, Pages[c]))
        run == first .. first + Pages[c] - 1
        s == <<a, first>>
    IN  /\ metas' = [x \in Spans \cup {s} |-> IF x = s THEN Fresh(c) ELSE metas[x]]
        /\ cur' = [cur EXCEPT ![c] = s]
        /\ freePages' = [x \in Mapped \cup {a} |->
                            IF x = a THEN f \ run ELSE freePages[x]]
        /\ advised' = [x \in Mapped \cup {a} |-> IF x = a THEN h \ run ELSE advised[x]]
        /\ arenas' = IF f = run THEN arenas \ {a} ELSE arenas \cup {a}

\* open_span: a partial span.
Reopen(c) == /\ Allocating(c)
             /\ cur[c] = none
             /\ \E s \in partial[c] :
                    /\ partial' = [partial EXCEPT ![c] = @ \ {s}]
                    /\ metas' = [metas EXCEPT ![s].state = "cur"]
                    /\ cur' = [cur EXCEPT ![c] = s]
             /\ UNCHANGED <<live, row, kept, keptPages, freePages, advised, arenas,
                            spare, call, remote>>

Roomy(c) == {a \in arenas : Runs(freePages[a], Pages[c]) # {}}

\* new_span: in an arena with room, the spare or a new mapping, which the
\* kernel may refuse.
NewSpan(c) ==
    /\ Allocating(c)
    /\ cur[c] = none
    /\ partial[c] = {}
    /\ \/ /\ \E a \in Roomy(c) : Carve(a, c, freePages[a], advised[a])
          /\ UNCHANGED <<spare, call>>
       \/ /\ Roomy(c) = {}
          /\ spare # none
          /\ Carve(spare, c, freePages[spare], advised[spare])
          /\ spare' = none
          /\ UNCHANGED call
       \/ /\ Roomy(c) = {}
          /\ spare = none
          /\ \E a \in Arena \ Mapped : Carve(a, c, Page, {})
          /\ UNCHANGED <<spare, call>>
       \/ /\ Roomy(c) = {}
          /\ spare = none
          /\ call' = Idle
          /\ UNCHANGED <<cur, metas, freePages, advised, arenas, spare>>
    /\ UNCHANGED <<live, row, partial, kept, keptPages, remote>>

\* collect_remote, when the span has nothing of its own.
Collected(s) ==
    LET m == metas[s]
    IN  IF m.free # {} \/ m.bump < Slots[m.class] THEN m
        ELSE [m EXCEPT !.free = Range(m.thread), !.thread = <<>>,
                       !.used = @ - Len(m.thread)]

\* The virgin slots a refill carves at once.
CarveFor(c) == Min({SpillAt, Max({1, PageUnits \div Size[c]})})

\* take_chain and take_one: what may be taken of span s with its record m,
\* each with the slots carved for it.
Takes(s, m) ==
    LET c == m.class
        most == IF c \in Small THEN SpillAt ELSE 1
        left == Slots[c] - m.bump
        n == IF c \in Small THEN Min({left, CarveFor(c)}) ELSE 1
    IN  IF m.free # {}
        THEN {[blocks |-> b, carved |-> 0] :
                b \in kSubset(Min({Cardinality(m.free), most}), m.free)}
        ELSE IF left = 0 THEN {}
        ELSE {[blocks |-> SlotsFrom(s, m.bump, m.bump + n), carved |-> n]}

\* A turn of the loop on the current span, which has something to give: all
\* but the block handed out become the row.
TakeFrom(s) ==
    LET m == Collected(s)
        c == m.class
    IN  \E take \in Takes(s, m) : \E b \in take.blocks :
            /\ live' = live \cup {b}
            /\ IF c \in Small THEN row' = [row EXCEPT ![c] = take.blocks \ {b}]
               ELSE UNCHANGED row
            /\ metas' = [metas EXCEPT ![s] =
                           [m EXCEPT !.free = @ \ take.blocks, !.bump = @ + take.carved,
                                     !.used = @ + Cardinality(take.blocks),
                                     !.state = "cur"]]
            /\ call' = Idle
            /\ UNCHANGED cur

\* One that has nothing.
Exhaust(s) ==
    LET m == Collected(s)
    IN  /\ Takes(s, m) = {}
        /\ metas' = [metas EXCEPT ![s] = [m EXCEPT !.state = "full"]]
        /\ cur' = [cur EXCEPT ![m.class] = none]
        /\ UNCHANGED <<live, row, call>>

Refill(c) == /\ Allocating(c)
             /\ cur[c] # none
             /\ TakeFrom(cur[c]) \/ Exhaust(cur[c])
             /\ IF metas[cur[c]].state = "kept" THEN KeptUnlink(cur[c])
                ELSE UNCHANGED <<kept, keptPages>>
             /\ UNCHANGED <<partial, freePages, advised, arenas, spare, remote>>

-----------------------------------------------------------------------------
(* Release by the owner.                                                   *)

\* push, or the start of spill: b and half of the row go back to their spans.
FreeSmall(b) ==
    /\ call = Idle
    /\ b \in live
    /\ b.class \in Small
    /\ live' = live \ {b}
    /\ LET r == row[b.class]
       IN  \/ /\ Cardinality(r) < SpillAt
              /\ row' = [row EXCEPT ![b.class] = @ \cup {b}]
              /\ UNCHANGED call
           \/ /\ Cardinality(r) = SpillAt
              /\ \E newest \in kSubset(SpillAt \div 2, r) :
                    /\ row' = [row EXCEPT ![b.class] = @ \ newest]
                    /\ call' = [op |-> "spill", left |-> {b} \cup newest]
    /\ UNCHANGED <<cur, partial, kept, keptPages, metas, freePages, advised, arenas,
                   spare, remote>>

\* release_chain and settle_chain: a run of neighbours on one span, which ends
\* with the chain or at a block of another.
SpillRun == /\ call.op = "spill"
            /\ \E s \in Spans : \E run \in (SUBSET {b \in call.left : SpanOf(b) = s}) \ {{}} :
                  LET left == call.left \ run
                  IN  /\ left # {} => \E b \in left : SpanOf(b) # s
                      /\ call' = IF left = {} THEN Idle ELSE [call EXCEPT !.left = left]
                      /\ Settle(s, run)
            /\ UNCHANGED <<live, row, remote>>

\* Whether an empty span is held back.
Keeps(s) == metas[s].state = "cur" /\ Touched(s) <= KeptBudget

\* free_medium.
FreeMedium(b) ==
    LET s == SpanOf(b)
        last == metas[s].used = 1
    IN  /\ call = Idle
        /\ b \in live
        /\ b.class \in Medium
        /\ live' = live \ {b}
        /\ \/ /\ ~last
              /\ Settle(s, {b})
              /\ UNCHANGED call
           \/ /\ last
              /\ ~Keeps(s)
              /\ Retire(s, TRUE)
              /\ UNCHANGED call
           \/ /\ last
              /\ Keeps(s)
              /\ metas' = [metas EXCEPT ![s].free = @ \cup {b}, ![s].used = 0]
              /\ call' = [op |-> "keep", span |-> s]
              /\ UNCHANGED <<cur, partial, kept, keptPages, freePages, advised, arenas,
                             spare>>
        /\ UNCHANGED <<row, remote>>

\* keep: the oldest kept spans go until the new one fits.
KeepEvict == /\ call.op = "keep"
             /\ keptPages + Touched(call.span) > KeptBudget
             /\ Retire(Last(kept), TRUE)
             /\ UNCHANGED <<live, row, call, remote>>

Keep == /\ call.op = "keep"
        /\ keptPages + Touched(call.span) <= KeptBudget
        /\ metas' = [metas EXCEPT ![call.span].state = "kept"]
        /\ kept' = <<call.span>> \o kept
        /\ keptPages' = keptPages + Touched(call.span)
        /\ call' = Idle
        /\ UNCHANGED <<live, row, cur, partial, freePages, advised, arenas, spare, remote>>

-----------------------------------------------------------------------------
(* Release by another thread: release_remote, by its heap's spill or       *)
(* free_medium.                                                            *)

\* The first block of the atomic list.
HeadOf(s) == IF metas[s].thread = <<>> THEN none ELSE Head(metas[s].thread)

FreeRemote(t, b) ==
    /\ remote[t] = none
    /\ b \in live
    /\ Away < AwayBound
    /\ live' = live \ {b}
    /\ remote' = [remote EXCEPT ![t] = [block |-> b, seen |-> HeadOf(SpanOf(b))]]
    /\ UNCHANGED <<heap, call>>

\* Mutant: the exchange is a store, and what was pushed since the load is lost.
ExchangeBlind(t) ==
    /\ remote[t] # none
    /\ LET b == remote[t].block
           s == SpanOf(b)
           old == metas[s].thread
           behind == SelectInSeq(old, LAMBDA x : x = remote[t].seen)
           linked == IF behind = 0 THEN <<>> ELSE SubSeq(old, behind, Len(old))
       IN  metas' = [metas EXCEPT ![s].thread = <<b>> \o linked]
    /\ remote' = [remote EXCEPT ![t] = none]
    /\ UNCHANGED <<live, row, cur, partial, kept, keptPages, freePages, advised, arenas,
                   spare, call>>

Exchange(t) ==
    /\ remote[t] # none
    /\ LET b == remote[t].block
           s == SpanOf(b)
       IN  \/ /\ HeadOf(s) = remote[t].seen
              /\ metas' = [metas EXCEPT ![s].thread = <<b>> \o @]
              /\ remote' = [remote EXCEPT ![t] = none]
           \/ /\ HeadOf(s) # remote[t].seen
              /\ remote' = [remote EXCEPT ![t].seen = HeadOf(s)]
              /\ UNCHANGED metas
    /\ UNCHANGED <<live, row, cur, partial, kept, keptPages, freePages, advised, arenas,
                   spare, call>>

Next == \/ \E c \in Small : PopRow(c)
        \/ \E c \in Class : Call(c) \/ Reopen(c) \/ NewSpan(c) \/ Refill(c)
        \/ \E b \in live : FreeSmall(b) \/ FreeMedium(b)
        \/ SpillRun \/ KeepEvict \/ Keep
        \/ \E t \in Thread : Exchange(t) \/ \E b \in live : FreeRemote(t, b)

Spec == Init /\ [][Next]_vars

-----------------------------------------------------------------------------
Carved(s) == SlotsFrom(s, 0, metas[s].bump)

\* The places a carved block can be in besides the free list of its span.
Places == <<live, UNION {row[c] : c \in Small},
            IF call.op = "spill" THEN call.left ELSE {},
            {remote[t].block : t \in Abroad}, Uncollected>>

\* span.rs:13-16 and the guard's "block freed twice": a carved block is on the
\* free list of its span or in one other place and no two, its pages stay with
\* that span meanwhile, and used counts those elsewhere, however releases from
\* other threads fall between the owner's loads and stores.
BlocksConserved ==
    LET out == UNION Range(Places)
    IN  /\ \A i, k \in DOMAIN Places : i # k => Places[i] \cap Places[k] = {}
        /\ out \subseteq UNION {Carved(s) : s \in Spans}
        /\ \A s \in Spans :
              LET m == metas[s]
              IN  /\ m.free \cup Range(m.thread) \subseteq Carved(s)
                  /\ out \cap Carved(s) = Carved(s) \ m.free
                  /\ m.used = Cardinality(Carved(s)) - Cardinality(m.free)
                  /\ IsInjective(m.thread)
        /\ \A c \in Small : Cardinality(row[c]) <= SpillAt

\* The written pages of the kept spans, by their numbers in the span.
WrittenPages == UNION {{s} \X (1 .. Touched(s)) : s \in Range(kept)}

In(c, st) == {s \in Spans : metas[s].class = c /\ metas[s].state = st}

\* The five structures a span or a page is found by agree at every step of a
\* refill, a spill and an eviction: a span's state with the owner's lists, the
\* kept list with its count of written pages and the budget (medium.rs:37), the
\* bitmaps with the spans, which never share a page, and the list of arenas with
\* the bitmaps.  A page in use is not one the kernel may take (arena.rs:49-52).
ListsAgree ==
    /\ \A c \in Class : /\ partial[c] = In(c, "partial")
                         /\ In(c, "cur") \cup In(c, "kept") = {cur[c]} \ {none}
    /\ \A s \in Spans : LET m == metas[s] IN
          /\ m.state = "partial" => m.free # {}
          /\ m.state = "full" => m.free = {} /\ m.bump = Slots[m.class]
    /\ Range(kept) = UNION {In(c, "kept") : c \in Class} /\ IsInjective(kept)
    /\ keptPages = Cardinality(WrittenPages)
    /\ keptPages <= KeptBudget
    /\ \A s, x \in Spans : s # x /\ s[1] = x[1] => PagesOf(s) \cap PagesOf(x) = {}
    /\ \A a \in Mapped :
          /\ freePages[a] = Page \ UNION {PagesOf(s) : s \in {x \in Spans : x[1] = a}}
          /\ advised[a] \subseteq freePages[a]
    /\ arenas = {a \in Mapped \ {spare} : freePages[a] # {}}

\* medium.rs:17 and heap.rs:13-15: between calls a span with nothing out has given
\* its pages back, unless it is kept within the budget, and of the empty arenas
\* one at most is still mapped.
EmptyGoesBack ==
    /\ call = Idle => \A s \in Spans : metas[s].used = 0 => metas[s].state = "kept"
    /\ \A a \in Mapped : freePages[a] = Page => a = spare

-----------------------------------------------------------------------------
CellsOf(b) == {<<b.arena, u>> : u \in b.unit .. b.unit + Size[b.class] - 1}

\* A block is in hand until its release is done.
InHand == live \cup {remote[t].block : t \in Abroad}

Memory == INSTANCE BlockHeap WITH Cells <- CellsOf, live <- InHand

\* No block handed out shares memory with one in hand, through rows, spans,
\* pages and arenas that come and go and change class.
ImplementsBlocks == Memory!Spec

=============================================================================
