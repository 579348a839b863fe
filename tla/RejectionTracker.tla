-------------------------- MODULE RejectionTracker --------------------------
(***************************************************************************)
(* torajs-promise's unhandled.rs: the list of rejected promises, on which  *)
(* each entry holds a reference; the compaction a full list makes before   *)
(* it grows; and the sweep at main's exit, which detaches the list and     *)
(* calls the default reporter or the user's listener for the entries no    *)
(* handler has observed.  A listener is user code: it may observe, drop    *)
(* and reject promises while the sweep is under way.                       *)
(*                                                                         *)
(* Reasons and their rendering are left out.  A cell at refcount 0 goes    *)
(* back to the pool and may come again as another promise.                 *)
(***************************************************************************)
EXTENDS Filtering

CONSTANTS Promise,     \* promise cells
          InitialCap   \* entries of the first buffer

ASSUME InitialCapAssumption == InitialCap \in Nat \ {0}

VARIABLES st,        \* "free", "pending" or "rejected"
          handled,   \* has_handler
          rc,        \* refcount
          named,     \* the promises the program holds a reference on
          list,      \* UNHANDLED_PTR's first UNHANDLED_LEN entries
          cap,       \* UNHANDLED_CAP
          listener,  \* whether UNHANDLED_CB_KIND is not CB_KIND_NONE
          swept,     \* entries of the detached list from the current one on
          phase,     \* "running", "sweeping", "listener" or "over"
          told,      \* the last promise reported
          occurred   \* UNHANDLED_REJECTION_OCCURRED

vars == <<st, handled, rc, named, list, cap, listener, swept, phase, told, occurred>>

Nobody == "nobody"

Init == /\ st = [p \in Promise |-> "free"]
        /\ handled = [p \in Promise |-> FALSE]
        /\ rc = [p \in Promise |-> 0]
        /\ named = {}
        /\ list = <<>>
        /\ cap = 0
        /\ listener = FALSE
        /\ swept = <<>>
        /\ phase = "running"
        /\ told = Nobody
        /\ occurred = FALSE

One(test) == IF test THEN 1 ELSE 0
Entries(s) == {s[i] : i \in DOMAIN s}

\* The references of taken come and those of given go; a cell left without
\* one is free.
Count(taken, given) ==
    LET count == [p \in Promise |-> rc[p] + One(p \in taken) - One(p \in given)]
    IN  /\ rc' = count
        /\ st' = [p \in Promise |->
                    IF p \in given /\ count[p] = 0 THEN "free"
                    ELSE IF p \in taken THEN "rejected" ELSE st[p]]

\* User code runs: the program, or a listener inside the sweep.
Code == phase \in {"running", "listener"}

New(p) == /\ Code
          /\ st[p] = "free"
          /\ st' = [st EXCEPT ![p] = "pending"]
          /\ handled' = [handled EXCEPT ![p] = FALSE]
          /\ rc' = [rc EXCEPT ![p] = 1]
          /\ named' = named \cup {p}
          /\ UNCHANGED <<list, cap, listener, swept, phase, told, occurred>>

\* then, catch or await of p.
Observe(p) == /\ Code
              /\ p \in named
              /\ handled' = [handled EXCEPT ![p] = TRUE]
              /\ UNCHANGED <<st, rc, named, list, cap, listener, swept, phase, told,
                             occurred>>

Drop(p) == /\ Code
           /\ p \in named
           /\ named' = named \ {p}
           /\ Count({}, {p})
           /\ UNCHANGED <<handled, list, cap, listener, swept, phase, told, occurred>>

\* process.on("unhandledRejection", cb).
Register == /\ Code
            /\ listener' = TRUE
            /\ UNCHANGED <<st, handled, rc, named, list, cap, swept, phase, told,
                           occurred>>

-----------------------------------------------------------------------------
(* The list.                                                               *)

Unseen == {p \in Promise : ~handled[p]}

\* Mutant: the last survivor fills the first hole.
SurvivorsSwapped ==
    LET kept == Filter(list, Unseen)
        n == Len(kept)
    IN  IF n < 2 \/ kept[1] = list[1] THEN kept
        ELSE <<kept[n]>> \o SubSeq(kept, 1, n - 1)

\* compact_observed packs the unobserved entries at the front.
Survivors == Filter(list, Unseen)

Full == Len(list) = cap

\* Mutant: an observed entry's reference goes to nobody.
ReleasedNone == {}

\* The entries whose reference the compaction gives up.
Released == IF Full THEN {p \in Entries(list) : handled[p]} ELSE {}

\* Mutant: the buffer doubles only when more than half of it is taken again.
GrownLate(n) == IF cap = 0 THEN InitialCap
                ELSE IF Full /\ n > cap \div 2 + 1 THEN 2 * cap ELSE cap

\* The capacity for one entry more, when n have survived.
Grown(n) == IF cap = 0 THEN InitialCap
            ELSE IF Full /\ n > cap \div 2 THEN 2 * cap ELSE cap

\* __torajs_promise_reject and alloc_rejected, by __torajs_promise_track_rejection.
Reject(p) ==
    /\ Code
    /\ st[p] = "pending"
    /\ LET kept == IF Full THEN Survivors ELSE list
       IN  /\ list' = Append(kept, p)
           /\ cap' = Grown(Len(kept))
    /\ Count({p}, Released)
    /\ UNCHANGED <<handled, named, listener, swept, phase, told, occurred>>

-----------------------------------------------------------------------------
(* The sweep.                                                              *)

\* The whole list is detached: what a listener rejects goes to a fresh one.
Detach == /\ phase = "running"
          /\ phase' = "sweeping"
          /\ swept' = list
          /\ list' = <<>>
          /\ cap' = 0
          /\ UNCHANGED <<st, handled, rc, named, listener, told, occurred>>

Current == Head(swept)
Sweeping == phase = "sweeping" /\ swept # <<>>

\* Whether the sweep reports the current entry.
Owed == ~handled[Current]

\* The entry is done with, and its reference dropped.
Pass == /\ Sweeping
        /\ ~Owed
        /\ swept' = Tail(swept)
        /\ Count({}, {Current})
        /\ UNCHANGED <<handled, named, list, cap, listener, phase, told, occurred>>

\* fire_unhandled_reporter.
Report == /\ Sweeping
          /\ Owed
          /\ ~listener
          /\ told' = Current
          /\ occurred' = TRUE
          /\ swept' = Tail(swept)
          /\ Count({}, {Current})
          /\ UNCHANGED <<handled, named, list, cap, listener, phase>>

CallListener == /\ Sweeping
                /\ Owed
                /\ listener
                /\ told' = Current
                /\ phase' = "listener"
                /\ UNCHANGED <<st, handled, rc, named, list, cap, listener, swept,
                               occurred>>

ListenerEnd == /\ phase = "listener"
               /\ phase' = "sweeping"
               /\ swept' = Tail(swept)
               /\ Count({}, {Current})
               /\ UNCHANGED <<handled, named, list, cap, listener, told, occurred>>

\* __torajs_main_exit_code answers; the process ends.
ExitCode == /\ phase = "sweeping"
            /\ swept = <<>>
            /\ phase' = "over"
            /\ UNCHANGED <<st, handled, rc, named, list, cap, listener, swept, told,
                           occurred>>

Over == phase = "over" /\ UNCHANGED vars

Next == \/ \E p \in Promise : New(p) \/ Observe(p) \/ Drop(p) \/ Reject(p)
        \/ Register \/ Detach \/ Pass \/ Report \/ CallListener \/ ListenerEnd
        \/ ExitCode \/ Over

Spec == Init /\ [][Next]_vars

-----------------------------------------------------------------------------
\* Every variable holds a value of its kind, and the list fits its buffer: a
\* compaction that avoids the growth leaves room for the entry pushed.
TypeOK ==
    /\ st \in [Promise -> {"free", "pending", "rejected"}]
    /\ handled \in [Promise -> BOOLEAN]
    /\ rc \in [Promise -> Nat]
    /\ named \subseteq Promise
    /\ Entries(list) \subseteq Promise /\ Entries(swept) \subseteq Promise
    /\ Len(list) <= cap
    /\ listener \in BOOLEAN /\ occurred \in BOOLEAN
    /\ phase \in {"running", "sweeping", "listener", "over"}
    /\ told \in Promise \cup {Nobody}

Stakes(p, s) == Cardinality({i \in DOMAIN s : s[i] = p})

\* unhandled.rs:324-334: an entry's reference keeps its cell out of the pool,
\* so no entry is of a recycled promise and has_handler is the rejected
\* promise's own; each promise is listed once and its reference dropped once,
\* by the compaction or by the sweep, whatever a listener does in between.
EntriesOwnCells ==
    \A p \in Promise :
        LET stakes == Stakes(p, list \o swept)
        IN  /\ rc[p] = One(p \in named) + stakes
            /\ stakes <= One(st[p] = "rejected")

-----------------------------------------------------------------------------
Unobserved(s) == Filter(s, Unseen)

\* The entries whose turn is still to come.
Ahead == IF phase = "running" THEN list
         ELSE IF phase = "listener" THEN Tail(swept) ELSE swept

Owing == Unobserved(Ahead)
Belated == IF phase = "running" THEN <<>> ELSE Unobserved(list)
Outside == IF phase \in {"sweeping", "listener"} THEN "exiting" ELSE phase

Tracking == INSTANCE RejectionTracking WITH
    owed <- Owing, late <- Belated, phase <- Outside, failed <- occurred

\* The list, compacted whenever it is full, detached at the exit and walked
\* once, reports what HostPromiseRejectionTracker is owed: every rejection
\* nothing has observed by its turn, once, in order, and none that was.
ImplementsTracking == Tracking!Spec

=============================================================================
