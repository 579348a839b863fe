------------------------------ MODULE MapTable ------------------------------
(* The table of a Map or a Set: an array of entries in insertion order and  *)
(* an index of slots into it, probed with robin-hood displacement. A        *)
(* removed entry leaves a tombstone in both until a rehash compacts them.   *)
(* The references of keys and values, the value kinds of a typed map and    *)
(* the 2^31 moves after which a generation repeats are left out.            *)
EXTENDS Integers, Sequences, FiniteSets

CONSTANTS
    Key, Value,     \* model values
    StrKey,         \* the keys whose call sites know them to be strings
    Iterator,       \* iterators made on the map
    Hash,           \* the hash of each key
    EntriesInitial, \* MAP_ENTRIES_INITIAL
    SlotsInitial,   \* MAP_SLOTS_INITIAL, a power of two
    None            \* a model value

ASSUME KeyAssumption == StrKey \subseteq Key /\ Hash \in [Key -> Nat \ {0}]
ASSUME SizeAssumption ==
    EntriesInitial \in Nat \ {0} /\ SlotsInitial \in Nat /\ SlotsInitial >= 4

VARIABLES
    table,          \* the Map block
    hint,           \* what the last find_str answered for its key, or None
    cursor          \* for each iterator, the number of entries it has passed

vars == <<table, hint, cursor>>
-----------------------------------------------------------------------------
(* Entries count from 1; a slot's `at` is its entry, 0 when it is empty and *)
(* -1 on a tombstone, whose hash field is zero as well.                     *)
Gone == [hash |-> 0, key |-> None, value |-> None]
Empty == [hash |-> 0, at |-> 0]
Tombstone == [hash |-> 0, at |-> -1]
Blank(size) == [i \in 0 .. size - 1 |-> Empty]

Live(entry) == entry # Gone
Size(slots) == Cardinality(DOMAIN slots)
SlotProbe(cell, i, size) == (i + size - (cell.hash % size)) % size

(* Insertion that displaces nobody.                                         *)
PlacedLinear(slots, cell) ==
    LET size == Size(slots)
        p == CHOOSE p \in 0 .. size - 1 :
               /\ slots[(cell.hash + p) % size] = Empty
               /\ \A q \in 0 .. p - 1 : slots[(cell.hash + q) % size] # Empty
    IN [slots EXCEPT ![(cell.hash + p) % size] = cell]

(* map_slot_insert: the cell in hand goes to the first empty slot from its  *)
(* home on, and changes places with every resident nearer to its own home;  *)
(* a tombstone is a resident like the others, at home in slot 0.            *)
Placed(slots, cell) ==
    LET size == Size(slots)
        Turn[n \in 0 .. size] ==
            IF n = 0 THEN [slots |-> slots, hand |-> cell, probe |-> 0]
            ELSE LET was == Turn[n - 1]
                     i == (cell.hash + n - 1) % size
                     nearer == SlotProbe(was.slots[i], i, size)
                 IN IF was.hand = Empty THEN was
                    ELSE IF was.slots[i] = Empty
                    THEN [was EXCEPT !.slots[i] = was.hand, !.hand = Empty]
                    ELSE IF nearer < was.probe
                    THEN [slots |-> [was.slots EXCEPT ![i] = was.hand],
                          hand |-> was.slots[i], probe |-> nearer + 1]
                    ELSE [was EXCEPT !.probe = @ + 1]
    IN Turn[size].slots

(* map_lookup_slot: the slot that holds k, or -1. The walk ends at an empty *)
(* slot, and at a key of another hash that is nearer to its home than k     *)
(* would be there.                                                          *)
Lookup(t, k) ==
    LET size == Size(t.slots)
        Slot(p) == (Hash[k] + p) % size
        Cell(p) == t.slots[Slot(p)]
        Hit(p) == /\ Cell(p).at > 0
                  /\ Cell(p).hash = Hash[k]
                  /\ t.entries[Cell(p).at].key = k
        Stop(p) == \/ Cell(p) = Empty
                   \/ /\ Cell(p).at > 0
                      /\ Cell(p).hash # Hash[k]
                      /\ SlotProbe(Cell(p), Slot(p), size) < p
        Reached(p) == Hit(p) /\ \A q \in 0 .. p - 1 : ~Hit(q) /\ ~Stop(q)
    IN IF \E p \in 0 .. size - 1 : Reached(p)
       THEN Slot(CHOOSE p \in 0 .. size - 1 : Reached(p)) ELSE -1

Found(t, k) == Lookup(t, k) # -1
EntryOf(t, k) == t.slots[Lookup(t, k)].at

(* map_rehash: live entries close up, in order, and are placed anew.        *)
Rehash(t, cap, size) ==
    LET kept == SelectSeq(t.entries, Live)
        Laid[n \in 0 .. Len(kept)] ==
            IF n = 0 THEN Blank(size)
            ELSE Placed(Laid[n - 1], [hash |-> kept[n].hash, at |-> n])
    IN [t EXCEPT !.entries = kept, !.cap = cap, !.slots = Laid[Len(kept)],
                 !.tombs = 0, !.moved = TRUE]

LoadExceeded(t) == (t.live + t.tombs + 1) * 4 > Size(t.slots) * 3

(* __torajs_map_set asks for one more slot before it knows whether the key  *)
(* is new, and for one more entry only after.                               *)
Grown(t) ==
    IF LoadExceeded(t)
    THEN Rehash(t, IF t.live + 1 > t.cap THEN t.cap * 2 ELSE t.cap,
                Size(t.slots) * 2)
    ELSE t

(* The slot leads to the index taken before the entries closed up.          *)
AppendedStale(t, k, v) ==
    LET room == IF Len(t.entries) >= t.cap
                THEN Rehash(t, t.cap * 2, Size(t.slots)) ELSE t
    IN [room EXCEPT
          !.entries = Append(@, [hash |-> Hash[k], key |-> k, value |-> v]),
          !.live = @ + 1,
          !.slots = Placed(@, [hash |-> Hash[k], at |-> Len(t.entries) + 1])]

Appended(t, k, v) ==
    LET room == IF Len(t.entries) >= t.cap
                THEN Rehash(t, t.cap * 2, Size(t.slots)) ELSE t
    IN [room EXCEPT
          !.entries = Append(@, [hash |-> Hash[k], key |-> k, value |-> v]),
          !.live = @ + 1,
          !.slots = Placed(@, [hash |-> Hash[k], at |-> Len(room.entries) + 1])]

Written(t, k, v) ==
    LET g == Grown(t)
    IN IF Found(g, k) THEN [g EXCEPT !.entries[EntryOf(g, k)].value = v]
                      ELSE Appended(g, k, v)

(* The last entry fills the hole, and its slot follows it.                  *)
RemovedBySwap(t, k) ==
    LET hole == EntryOf(t, k)
        last == Len(t.entries)
    IN [t EXCEPT
          !.entries = [i \in 1 .. last - 1 |-> IF i = hole THEN t.entries[last]
                                               ELSE t.entries[i]],
          !.slots = [s \in DOMAIN @ |-> IF s = Lookup(t, k) THEN Empty
                                       ELSE IF @[s].at = last THEN [@[s] EXCEPT !.at = hole]
                                       ELSE @[s]],
          !.live = @ - 1]

(* __torajs_map_delete, on a hit: tombstones on both sides, and a rehash at *)
(* the same sizes once they are more than a quarter of the slots.           *)
Removed(t, k) ==
    LET buried == [t EXCEPT !.entries[EntryOf(t, k)] = Gone,
                            !.slots[Lookup(t, k)] = Tombstone,
                            !.live = @ - 1, !.tombs = @ + 1]
    IN IF buried.tombs > Size(t.slots) \div 4
       THEN Rehash(buried, t.cap, Size(t.slots)) ELSE buried

(* A clear that keeps the generation.                                       *)
WipedUnmoved(t) ==
    [t EXCEPT !.entries = <<>>, !.slots = Blank(Size(t.slots)),
              !.live = 0, !.tombs = 0]

Wiped(t) ==
    [t EXCEPT !.entries = <<>>, !.slots = Blank(Size(t.slots)),
              !.live = 0, !.tombs = 0, !.moved = TRUE]

(* hint_holds: the entry is live, and nothing moved since the find or the   *)
(* keys are equal.                                                          *)
HintHolds(k) ==
    /\ hint.at <= Len(table.entries)
    /\ Live(table.entries[hint.at])
    /\ ~table.moved \/ table.entries[hint.at].key = k
-----------------------------------------------------------------------------
(* `moved` says that the generation is no longer the one the hint carries.  *)
Init ==
    /\ table = [entries |-> <<>>, cap |-> EntriesInitial,
                slots |-> Blank(SlotsInitial), live |-> 0, tombs |-> 0,
                moved |-> FALSE]
    /\ hint = None
    /\ cursor = [it \in Iterator |-> 0]

Set(k, v) ==
    /\ table' = Written(table, k, v)
    /\ UNCHANGED <<hint, cursor>>

(* A key that is there keeps its value.                                     *)
GetOrInsert(k, v) ==
    /\ ~Found(table, k)
    /\ table' = Written(table, k, v)
    /\ UNCHANGED <<hint, cursor>>

Delete(k) ==
    /\ Found(table, k)
    /\ table' = Removed(table, k)
    /\ UNCHANGED <<hint, cursor>>

Clear ==
    /\ table' = Wiped(table)
    /\ UNCHANGED <<hint, cursor>>

(* A find that hits keeps its answer for later sets of the same key.        *)
FindStr(k) ==
    /\ Found(table, k)
    /\ hint' = [key |-> k, at |-> EntryOf(table, k)]
    /\ table' = [table EXCEPT !.moved = FALSE]
    /\ UNCHANGED cursor

(* __torajs_map_set_str, with the hint of an earlier find of the same key.  *)
SetStr(k, v) ==
    /\ hint # None /\ hint.key = k
    /\ table' = IF HintHolds(k)
                THEN [table EXCEPT !.entries[hint.at].value = v]
                ELSE Written(table, k, v)
    /\ UNCHANGED <<hint, cursor>>

(* An iterator is made, or a forEach begins.                                *)
Start(it) ==
    /\ cursor' = [cursor EXCEPT ![it] = 0]
    /\ UNCHANGED <<table, hint>>

(* The next live entry after the cursor, or the end of the entries.         *)
Ahead(it) == {i \in cursor[it] + 1 .. Len(table.entries) : Live(table.entries[i])}

(* The cursor passes the entry it answers and the one after.                *)
StepTwice(it) ==
    /\ cursor' = [cursor EXCEPT ![it] =
         IF Ahead(it) = {} THEN Len(table.entries)
         ELSE 1 + CHOOSE i \in Ahead(it) : \A j \in Ahead(it) : i <= j]
    /\ UNCHANGED <<table, hint>>

Step(it) ==
    /\ cursor' = [cursor EXCEPT ![it] =
         IF Ahead(it) = {} THEN Len(table.entries)
         ELSE CHOOSE i \in Ahead(it) : \A j \in Ahead(it) : i <= j]
    /\ UNCHANGED <<table, hint>>

Next ==
    \/ \E k \in Key, v \in Value : Set(k, v)
    \/ \E k \in Key, v \in Value : GetOrInsert(k, v)
    \/ \E k \in Key : Delete(k)
    \/ Clear
    \/ \E k \in StrKey : FindStr(k)
    \/ \E k \in StrKey, v \in Value : SetStr(k, v)
    \/ \E it \in Iterator : Start(it)
    \/ \E it \in Iterator : Step(it)

Spec == Init /\ [][Next]_vars
-----------------------------------------------------------------------------
LiveEntries == {i \in DOMAIN table.entries : Live(table.entries[i])}
SlotsAt(at) == {i \in DOMAIN table.slots : table.slots[i].at = at}

(* The block keeps its shape.                                               *)
TypeOK ==
    /\ table.entries \in Seq([hash : Nat, key : Key \cup {None},
                              value : Value \cup {None}])
    /\ Len(table.entries) <= table.cap
    /\ table.slots \in [0 .. Size(table.slots) - 1 ->
                           [hash : Nat, at : -1 .. Len(table.entries)]]
    /\ table.live = Cardinality(LiveEntries)
    /\ table.tombs = Cardinality(SlotsAt(-1))
    /\ table.tombs = Len(table.entries) - table.live
    /\ hint # None => hint \in [key : Key, at : Nat \ {0}]
    /\ cursor \in [Iterator -> Nat]

(* The index and the entries agree: each live entry has one slot, with its  *)
(* hash, no slot leads to a removed entry, and the three counts are what    *)
(* they count. Every probe of map_slot_insert and map_lookup_slot meets an  *)
(* empty slot, since live keys and tombstones never fill more than three    *)
(* quarters of them.                                                        *)
IndexAgrees ==
    /\ TypeOK
    /\ Cardinality(SlotsAt(0)) * 4 >= Size(table.slots)
    /\ \A i \in LiveEntries :
          /\ Cardinality(SlotsAt(i)) = 1
          /\ \A s \in SlotsAt(i) : table.slots[s].hash = table.entries[i].hash
    /\ \A s \in DOMAIN table.slots :
          table.slots[s].at > 0 => table.slots[s].at \in LiveEntries

(* Early termination is sound: a walk for a live key never ends before it   *)
(* ("the key isn't anywhere later in the chain", probe.rs:16-18), so has,   *)
(* get and every write see the key where it was first set.                  *)
LookupFindsLive ==
    \A i \in LiveEntries :
       LET k == table.entries[i].key IN Found(table, k) /\ EntryOf(table, k) = i

(* A hint that holds is the entry of its key, although a matching           *)
(* generation spares the comparison of keys.                                *)
HintExact ==
    hint # None /\ HintHolds(hint.key) => table.entries[hint.at].key = hint.key
-----------------------------------------------------------------------------
Pairs ==
    LET kept == SelectSeq(table.entries, Live)
    IN [i \in DOMAIN kept |-> <<kept[i].key, kept[i].value>>]
Places == [it \in Iterator |-> Cardinality({i \in LiveEntries : i <= cursor[it]})]

Exact == INSTANCE OrderedMap WITH
    Skips <- FALSE, pairs <- Pairs, place <- Places
Skipping == INSTANCE OrderedMap WITH
    Skips <- TRUE, pairs <- Pairs, place <- Places

(* Every call leaves the pairs an ordered map has after it, in order; an    *)
(* iterator answers each pair once at most, in order, and never goes back,  *)
(* but may pass over pairs when a rehash or a clear moves them.             *)
ImplementsMap == Skipping!Spec

(* An entry took another index while an iterator was under way, or the      *)
(* entries it has passed are more than there are left.                      *)
Moves ==
    \E it \in Iterator :
       /\ cursor[it] > 0
       /\ \/ cursor[it] > Len(table.entries)
          \/ \E i \in DOMAIN table.entries :
                \/ i > Len(table'.entries)
                \/ table'.entries[i].key \notin {table.entries[i].key, None}

(* Iterators are exact but for those moves: removals, insertions and        *)
(* rehashes that drop nothing leave each one where it stood.                *)
ExactButForMoves == [][Moves \/ [Exact!Next]_(Exact!vars)]_vars
=============================================================================
