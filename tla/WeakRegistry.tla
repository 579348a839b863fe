---------------------------- MODULE WeakRegistry ----------------------------
(* WeakRefs, WeakMaps and FinalizationRegistries over counted objects, the  *)
(* registry of observers they share, the list of objects kept to the end of *)
(* a job, and the cleanup queue the host drains between jobs. A release is  *)
(* a stack of the calls under way; the program runs when it is empty.       *)
(* A WeakSet is a WeakMap of primitives. Containers are not themselves      *)
(* observed or stored, property bags and subclass identities are left out.  *)
EXTENDS Integers, Sequences, FiniteSets, SequencesExt, Filtering

CONSTANTS
    Object,         \* plain objects: targets, keys, values, tokens
    Ref, WMap, Reg, \* WeakRefs, WeakMaps, FinalizationRegistries
    Record,         \* FrCells, one per registration
    Key, Held, Token, \* the objects used as keys, values and tokens
    KeptBound, NodeBound, \* entries of the kept list; observers of an object
    Loops,          \* a value of a dropped map may hold a key of it
    None, Primitive \* model values

Cell == Object \cup Ref \cup WMap \cup Reg

(* Memory is finite, a cell is of one kind, and the null word and a         *)
(* primitive are no cells.                                                  *)
ASSUME CellAssumption ==
    /\ IsFiniteSet(Cell) /\ IsFiniteSet(Record)
    /\ Object \cap (Ref \cup WMap \cup Reg) = {}
    /\ Ref \cap (WMap \cup Reg) = {} /\ WMap \cap Reg = {}
    /\ {None, Primitive} \cap Cell = {} /\ None # Primitive
ASSUME RoleAssumption == Key \cup Held \cup Token \subseteq Object
ASSUME BoundAssumption == {KeptBound, NodeBound} \subseteq Nat \ {0} /\ Loops \in BOOLEAN

VARIABLES
    rc,             \* refcount of each cell, 0 when it is dead or freed
    owned,          \* the cells the program holds a reference of
    field,          \* the one strong field of an object
    nodes,          \* for each object, its ObserverNodes, newest first
    target,         \* of a WeakRef
    entry,          \* of a WeakMap: a value for each key, None for no entry
    rec,            \* the FrCells
    cells,          \* of a registry: its live records, in a vector
    pending,        \* of a registry: the records whose target died, in order
    queue,          \* the registries on the cleanup queue
    kept,           \* KEPT
    work,           \* the calls of the release under way, innermost first
    phase,          \* "job", "boundary", "drain", "callback", "cleaned"
    cleaning, given, \* in a drain: its registry, and the held value passed
    stopped         \* registries a throw left with records pending

weak == <<nodes, target, entry>>
fin == <<rec, cells, pending, queue>>
host == <<phase, cleaning, given, stopped>>
vars == <<rc, owned, field, weak, fin, kept, work, host>>
-----------------------------------------------------------------------------
Call(op, c, k, v) == [op |-> op, cell |-> c, key |-> k, value |-> v]
Drop(c) == Call("drop", c, None, None)
(* value_drop_heap of each cell among the values, in order.                 *)
Drops(values) ==
    LET counted == Filter(values, Object)
    IN [i \in DOMAIN counted |-> Drop(counted[i])]

Node(kind, owner) == [kind |-> kind, owner |-> owner]
Registered(ns, t, node) == [ns EXCEPT ![t] = <<node>> \o @]
(* The lists without the nodes that gone has for each object.              *)
Without(ns, gone) == [o \in Object |-> Filter(ns[o], Range(ns[o]) \ gone[o])]
(* Silent when there is no such node.                                       *)
Deregistered(ns, t, node) ==
    Without(ns, [o \in Object |-> IF o = t THEN {node} ELSE {}])

Watching(rs, o) ==
    {Node("target", r) : r \in {r \in rs : rec[r].target = o}}
    \cup {Node("token", r) : r \in {r \in rs : rec[r].token = o}}
(* cell_detach of each record of rs.                                        *)
Detached(ns, rs) == Without(ns, [o \in Object |-> Watching(rs, o)])

Unused == [state |-> "free", of |-> None, target |-> None, held |-> Primitive,
           token |-> None, idx |-> 0]

Inc(counts, c) == IF c \in Cell THEN [counts EXCEPT ![c] = @ + 1] ELSE counts

(* Mutant: the list keeps the object without a reference to it.             *)
KeepUncounted(counts, t) ==
    /\ Len(kept) < KeptBound
    /\ rc' = counts
    /\ kept' = Append(kept, t)

(* __torajs_kept_objects_add: a repeat of the newest takes no reference.    *)
Keep(counts, t) ==
    IF kept # <<>> /\ Last(kept) = t
    THEN rc' = counts /\ UNCHANGED kept
    ELSE /\ Len(kept) < KeptBound
         /\ rc' = Inc(counts, t)
         /\ kept' = Append(kept, t)

Running == work = <<>> /\ phase \in {"job", "callback"}
-----------------------------------------------------------------------------
Init ==
    /\ rc = [c \in Cell |-> 0]
    /\ owned = {}
    /\ field = [o \in Object |-> None]
    /\ nodes = [o \in Object |-> <<>>]
    /\ target = [w \in Ref |-> None]
    /\ entry = [m \in WMap |-> [o \in Object |-> None]]
    /\ rec = [r \in Record |-> Unused]
    /\ cells = [f \in Reg |-> <<>>]
    /\ pending = [f \in Reg |-> <<>>]
    /\ queue = <<>>
    /\ kept = <<>>
    /\ work = <<>>
    /\ phase = "job"
    /\ cleaning = None
    /\ given = Primitive
    /\ stopped = {}

(* Objects, weak maps and registries are made without more ado.             *)
New(c) ==
    /\ Running
    /\ c \notin Ref /\ rc[c] = 0
    /\ rc' = [rc EXCEPT ![c] = 1]
    /\ owned' = owned \cup {c}
    /\ UNCHANGED <<field, weak, fin, kept, work, host>>

(* The program's reference moves into a field.                              *)
Link(o, p) ==
    /\ Running
    /\ {o, p} \subseteq owned /\ o # p /\ field[o] = None
    /\ field' = [field EXCEPT ![o] = p]
    /\ owned' = owned \ {p}
    /\ UNCHANGED <<rc, weak, fin, kept, work, host>>

(* The objects in s and all that dies with them at most, by their fields    *)
(* and as keys, hold no key of m, and no value of m but is in s.            *)
Follows(o) == ({field[o]} \cup {entry[m][o] : m \in WMap}) \cap Object
Apart(m, s) ==
    /\ \A o \in s : Follows(o) \subseteq s /\ entry[m][o] = None
    /\ \A k \in Object : entry[m][k] \in s \cup {Primitive, None}

Release(c) ==
    /\ Running
    /\ c \in owned
    /\ c \in WMap => Loops \/ \E s \in SUBSET Object : Apart(c, s)
    /\ owned' = owned \ {c}
    /\ work' = <<Drop(c)>>
    /\ UNCHANGED <<rc, field, weak, fin, kept, host>>

RefCreate(w, t) ==
    /\ Running
    /\ rc[w] = 0 /\ t \in owned /\ Len(nodes[t]) < NodeBound
    /\ target' = [target EXCEPT ![w] = t]
    /\ nodes' = Registered(nodes, t, Node("ref", w))
    /\ owned' = owned \cup {w}
    /\ Keep([rc EXCEPT ![w] = 1], t)
    /\ UNCHANGED <<field, entry, fin, work, host>>

(* The answer is the program's, unless it holds one already.                *)
Deref(w) ==
    /\ Running
    /\ w \in owned /\ target[w] # None
    /\ owned' = owned \cup {target[w]}
    /\ Keep(IF target[w] \in owned THEN rc ELSE Inc(rc, target[w]), target[w])
    /\ UNCHANGED <<field, weak, fin, work, host>>

(* Mutant: an overwrite forgets the value it replaces.                      *)
MapSetForgetting(m, k, v) ==
    /\ Running
    /\ {m, k} \subseteq owned /\ v \in owned \cup {Primitive}
    /\ rc' = Inc(rc, v)
    /\ entry' = [entry EXCEPT ![m][k] = v]
    /\ nodes' = IF entry[m][k] = None THEN Registered(nodes, k, Node("map", m))
                ELSE nodes
    /\ UNCHANGED <<owned, field, target, fin, kept, work, host>>

(* __torajs_weakmap_set: the new value is counted before the old one goes,  *)
(* and stored after.                                                        *)
MapSet(m, k, v) ==
    /\ Running
    /\ {m, k} \subseteq owned /\ v \in owned \cup {Primitive}
    /\ rc' = Inc(rc, v)
    /\ IF entry[m][k] = None
       THEN /\ Len(nodes[k]) < NodeBound
            /\ nodes' = Registered(nodes, k, Node("map", m))
            /\ entry' = [entry EXCEPT ![m][k] = v]
            /\ UNCHANGED work
       ELSE /\ work' = Drops(<<entry[m][k]>>) \o <<Call("store", m, k, v)>>
            /\ UNCHANGED <<nodes, entry>>
    /\ UNCHANGED <<owned, field, target, fin, kept, host>>

MapGet(m, k) ==
    /\ Running
    /\ {m, k} \subseteq owned
    /\ entry[m][k] \in Object \ owned
    /\ rc' = Inc(rc, entry[m][k])
    /\ owned' = owned \cup {entry[m][k]}
    /\ UNCHANGED <<field, weak, fin, kept, work, host>>

(* __torajs_weakmap_delete: unlinked, value dropped, then deregistered.     *)
MapDelete(m, k) ==
    /\ Running
    /\ {m, k} \subseteq owned /\ entry[m][k] # None
    /\ entry' = [entry EXCEPT ![m][k] = None]
    /\ work' = Drops(<<entry[m][k]>>) \o <<Call("deregister", m, k, None)>>
    /\ UNCHANGED <<rc, owned, field, nodes, target, fin, kept, host>>
-----------------------------------------------------------------------------
(* __torajs_finreg_register; a target is never its own held value.          *)
Register(f, t, held, token) ==
    /\ Running
    /\ {f, t} \subseteq owned
    /\ held \in (owned \cap Object) \cup {Primitive} /\ held # t
    /\ token \in (owned \cap Object) \cup {None}
    /\ \E r \in Record :
          /\ rec[r] = Unused
          /\ rec' = [rec EXCEPT ![r] =
                [state |-> "live", of |-> f, target |-> t, held |-> held,
                 token |-> token, idx |-> Len(cells[f]) + 1]]
          /\ cells' = [cells EXCEPT ![f] = Append(@, r)]
          /\ LET watched == Registered(nodes, t, Node("target", r))
             IN /\ nodes' = IF token = None THEN watched
                            ELSE Registered(watched, token, Node("token", r))
                /\ \A o \in Object : Len(nodes'[o]) <= NodeBound
    /\ rc' = Inc(rc, held)
    /\ UNCHANGED <<owned, field, target, entry, pending, queue, kept, work, host>>

(* cells_swap_remove, by the index the record carries.                      *)
SwapRemoved(cs, i) ==
    [j \in 1 .. Len(cs) - 1 |-> IF j = i THEN Last(cs) ELSE cs[j]]
(* Mutant: the record moved into the hole keeps its old index.              *)
ReindexedStale(rs, cs, i) == rs

Reindexed(rs, cs, i) ==
    IF i = Len(cs) THEN rs ELSE [rs EXCEPT ![Last(cs)].idx = i]

Named(f, token) == {r \in Record : rec[r].of = f /\ rec[r].token = token}

(* __torajs_finreg_unregister: a sweep over the two vectors, then what the  *)
(* records taken out of them held is released.                              *)
Unregister(f, token) ==
    /\ Running
    /\ {f, token} \subseteq owned /\ Named(f, token) # {}
    /\ work' = <<Call("sweep", f, token, None)>>
    /\ UNCHANGED <<rc, owned, field, weak, fin, kept, host>>
-----------------------------------------------------------------------------
(* The call under way: one step of the innermost.                           *)
At(op) == work # <<>> /\ Head(work).op = op
Now == Head(work)

(* take_cell: the record is detached and free, its value due.               *)
TakeCell(r, rs) ==
    /\ rec' = [rs EXCEPT ![r] = Unused]
    /\ nodes' = Detached(nodes, {r})
    /\ work' = work \o Drops(<<rec[r].held>>)

(* Those in a vector still to be taken, by their places.                    *)
Left(vector) == {i \in DOMAIN vector : vector[i] \in Named(Now.cell, Now.key)}
First(vector, i) == i \in Left(vector) /\ \A n \in Left(vector) : i <= n

SweepLive ==
    /\ At("sweep")
    /\ \E i \in DOMAIN cells[Now.cell] :
          /\ First(cells[Now.cell], i)
          /\ cells' = [cells EXCEPT ![Now.cell] = SwapRemoved(@, i)]
          /\ TakeCell(cells[Now.cell][i], Reindexed(rec, cells[Now.cell], i))
    /\ UNCHANGED <<rc, owned, field, target, entry, pending, queue, kept, host>>

SweepPending ==
    /\ At("sweep")
    /\ Left(cells[Now.cell]) = {}
    /\ \E i \in DOMAIN pending[Now.cell] :
          /\ First(pending[Now.cell], i)
          /\ pending' = [pending EXCEPT ![Now.cell] =
                            Filter(@, Record \ {pending[Now.cell][i]})]
          /\ TakeCell(pending[Now.cell][i], rec)
    /\ UNCHANGED <<rc, owned, field, target, entry, cells, queue, kept, host>>

SweepEnds ==
    /\ At("sweep")
    /\ Left(cells[Now.cell]) = {} /\ Left(pending[Now.cell]) = {}
    /\ work' = Tail(work)
    /\ UNCHANGED <<rc, owned, field, weak, fin, kept, host>>

(* A reference goes; others remain.                                         *)
DropShared ==
    /\ At("drop") /\ rc[Now.cell] # 1
    /\ rc' = [rc EXCEPT ![Now.cell] = @ - 1]
    /\ work' = Tail(work)
    /\ UNCHANGED <<owned, field, weak, fin, kept, host>>

Last1(c) == At("drop") /\ Now.cell = c /\ rc[c] = 1 /\ rc' = [rc EXCEPT ![c] = 0]

(* dec_ref notifies the observers of an object before its field goes.       *)
ObjectDies(o) ==
    /\ Last1(o)
    /\ field' = [field EXCEPT ![o] = None]
    /\ work' = (IF nodes[o] = <<>> THEN <<>> ELSE <<Call("walk", o, None, None)>>)
               \o Drops(<<field[o]>>) \o Tail(work)
    /\ UNCHANGED <<owned, weak, fin, kept, host>>

(* Mutant: a dropped WeakRef stays on its target's list.                    *)
RefDiesRegistered(w) ==
    /\ Last1(w)
    /\ target' = [target EXCEPT ![w] = None]
    /\ work' = Tail(work)
    /\ UNCHANGED <<owned, field, nodes, entry, fin, kept, host>>

(* __torajs_weakref_drop.                                                   *)
RefDies(w) ==
    /\ Last1(w)
    /\ nodes' = Deregistered(nodes, target[w], Node("ref", w))
    /\ target' = [target EXCEPT ![w] = None]
    /\ work' = Tail(work)
    /\ UNCHANGED <<owned, field, entry, fin, kept, host>>

MapDies(m) ==
    /\ Last1(m)
    /\ work' = <<Call("entries", m, None, None)>> \o Tail(work)
    /\ UNCHANGED <<owned, field, weak, fin, kept, host>>

(* __torajs_weakmap_drop: each value goes before its entry does. Buckets    *)
(* are walked in the order of their addresses' hashes: any.                 *)
DropEntry ==
    /\ At("entries")
    /\ LET m == Now.cell
           keys == {k \in Object : entry[m][k] # None}
       IN \/ /\ keys = {}
             /\ work' = Tail(work)
          \/ \E k \in keys :
                work' = Drops(<<entry[m][k]>>)
                        \o <<Call("entryDropped", m, k, None)>> \o work
    /\ UNCHANGED <<rc, owned, field, weak, fin, kept, host>>

EntryDropped ==
    /\ At("entryDropped")
    /\ nodes' = Deregistered(nodes, Now.key, Node("map", Now.cell))
    /\ entry' = [entry EXCEPT ![Now.cell][Now.key] = None]
    /\ work' = Tail(work)
    /\ UNCHANGED <<rc, owned, field, target, fin, kept, host>>

(* The end of an overwrite, and of a deletion.                              *)
Store ==
    /\ At("store")
    /\ entry' = [entry EXCEPT ![Now.cell][Now.key] = Now.value]
    /\ work' = Tail(work)
    /\ UNCHANGED <<rc, owned, field, nodes, target, fin, kept, host>>

Deregister ==
    /\ At("deregister")
    /\ nodes' = Deregistered(nodes, Now.key, Node("map", Now.cell))
    /\ work' = Tail(work)
    /\ UNCHANGED <<rc, owned, field, target, entry, fin, kept, host>>

(* __torajs_finreg_drop: every record is detached before any value goes.    *)
RegistryDies(f) ==
    LET all == cells[f] \o pending[f]
    IN /\ Last1(f)
       /\ nodes' = Detached(nodes, Range(all))
       /\ rec' = [r \in Record |-> IF r \in Range(all) THEN Unused ELSE rec[r]]
       /\ cells' = [cells EXCEPT ![f] = <<>>]
       /\ pending' = [pending EXCEPT ![f] = <<>>]
       /\ work' = Drops([i \in DOMAIN all |-> rec[all[i]].held]) \o Tail(work)
       /\ stopped' = stopped \ {f}
       /\ UNCHANGED <<owned, field, target, entry, queue, kept, phase, cleaning,
                      given>>

-----------------------------------------------------------------------------
(* __torajs_weakref_target_dying: the handler of the first node, which is   *)
(* freed when the handler returns.                                          *)
Meets(kind) == At("walk") /\ nodes[Now.cell] # <<>>
               /\ Head(nodes[Now.cell]).kind = kind
Observer == Head(nodes[Now.cell]).owner
FreeNode == nodes' = [nodes EXCEPT ![Now.cell] = Tail(@)]

ClearRef ==
    /\ Meets("ref")
    /\ target' = [target EXCEPT ![Observer] = None]
    /\ FreeNode
    /\ UNCHANGED <<rc, owned, field, entry, fin, kept, work, host>>

(* __torajs_weakmap_invalidate_key: unlinked, then the value goes.          *)
InvalidateKey ==
    /\ Meets("map")
    /\ entry' = [entry EXCEPT ![Observer][Now.cell] = None]
    /\ work' = Drops(<<entry[Observer][Now.cell]>>)
               \o <<Call("next", Now.cell, None, None)>> \o Tail(work)
    /\ UNCHANGED <<rc, owned, field, nodes, target, fin, kept, host>>

NextNode ==
    /\ At("next")
    /\ FreeNode
    /\ work' = <<Call("walk", Now.cell, None, None)>> \o Tail(work)
    /\ UNCHANGED <<rc, owned, field, target, entry, fin, kept, host>>

(* target_died: the record moves to the pending vector and its registry to  *)
(* the queue, which takes a reference.                                      *)
TargetDied ==
    /\ Meets("target")
    /\ LET r == Observer
           f == rec[r].of
       IN /\ cells' = [cells EXCEPT ![f] = SwapRemoved(@, rec[r].idx)]
          /\ rec' = [Reindexed(rec, cells[f], rec[r].idx) EXCEPT
                       ![r].state = "pending", ![r].target = None,
                       ![r].idx = Len(pending[f]) + 1]
          /\ pending' = [pending EXCEPT ![f] = Append(@, r)]
          /\ IF f \in Range(queue) THEN UNCHANGED <<rc, queue>>
             ELSE rc' = Inc(rc, f) /\ queue' = Append(queue, f)
          /\ stopped' = stopped \ {f}
    /\ FreeNode
    /\ UNCHANGED <<owned, field, target, entry, kept, work, phase, cleaning, given>>

TokenDied ==
    /\ Meets("token")
    /\ rec' = [rec EXCEPT ![Observer].token = None]
    /\ FreeNode
    /\ UNCHANGED <<rc, owned, field, target, entry, cells, pending, queue, kept,
                   work, host>>

WalkEnds ==
    /\ At("walk") /\ nodes[Now.cell] = <<>>
    /\ work' = Tail(work)
    /\ UNCHANGED <<rc, owned, field, weak, fin, kept, host>>
-----------------------------------------------------------------------------
(* __torajs_kept_objects_clear, between two jobs and behind a host job: the *)
(* list is emptied first.                                                   *)
EndJob ==
    /\ phase \in {"job", "cleaned"} /\ work = <<>>
    /\ phase' = "boundary"
    /\ kept' = <<>>
    /\ work' = Drops(kept)
    /\ UNCHANGED <<rc, owned, field, weak, fin, cleaning, given, stopped>>

NextJob ==
    /\ phase = "boundary" /\ work = <<>>
    /\ phase' = "job"
    /\ UNCHANGED <<rc, owned, field, weak, fin, kept, work, cleaning, given, stopped>>

(* drain_one: the queue's reference passes to the drain.                    *)
QueuePop ==
    /\ phase = "boundary" /\ work = <<>> /\ queue # <<>>
    /\ cleaning' = Head(queue)
    /\ queue' = Tail(queue)
    /\ phase' = "drain"
    /\ UNCHANGED <<rc, owned, field, weak, rec, cells, pending, kept, work, given,
                   stopped>>

(* The oldest pending record goes, and the callback is called on its value. *)
TakePending ==
    /\ phase = "drain" /\ work = <<>> /\ pending[cleaning] # <<>>
    /\ LET r == Head(pending[cleaning])
       IN /\ given' = rec[r].held
          /\ nodes' = Detached(nodes, {r})
          /\ rec' = [rec EXCEPT ![r] = Unused]
    /\ pending' = [pending EXCEPT ![cleaning] = Tail(@)]
    /\ phase' = "callback"
    /\ UNCHANGED <<rc, owned, field, target, entry, cells, queue, kept, work,
                   cleaning, stopped>>

CallbackReturns ==
    /\ phase = "callback" /\ work = <<>>
    /\ work' = Drops(<<given>>)
    /\ given' = Primitive
    /\ phase' = "drain"
    /\ UNCHANGED <<rc, owned, field, weak, fin, kept, cleaning, stopped>>

(* The value passed goes, then the queue's reference of the registry.       *)
DrainEnds ==
    /\ cleaning' = None
    /\ given' = Primitive
    /\ phase' = "cleaned"
    /\ work' = Drops(<<given>>) \o <<Drop(cleaning)>>
    /\ UNCHANGED <<rc, owned, field, weak, fin, kept>>

NothingPending ==
    /\ phase = "drain" /\ work = <<>> /\ pending[cleaning] = <<>>
    /\ DrainEnds
    /\ UNCHANGED stopped

(* A throw ends the job: the remaining records stay pending, off the queue. *)
CallbackThrows ==
    /\ phase = "callback" /\ work = <<>>
    /\ DrainEnds
    /\ stopped' = IF pending[cleaning] = <<>> \/ cleaning \in Range(queue)
                  THEN stopped ELSE stopped \cup {cleaning}

Program ==
    \/ \E c \in Cell : New(c) \/ Release(c)
    \/ \E o, p \in Object : Link(o, p)
    \/ \E w \in Ref, t \in Object : RefCreate(w, t)
    \/ \E w \in Ref : Deref(w)
    \/ \E m \in WMap, k \in Key, v \in Held \cup {Primitive} : MapSet(m, k, v)
    \/ \E m \in WMap, k \in Key : MapGet(m, k) \/ MapDelete(m, k)
    \/ \E f \in Reg, t \in Object, h \in Held \cup {Primitive},
          k \in Token \cup {None} : Register(f, t, h, k)
    \/ \E f \in Reg, k \in Token : Unregister(f, k)

Cascade ==
    \/ DropShared
    \/ \E o \in Object : ObjectDies(o)
    \/ \E w \in Ref : RefDies(w)
    \/ \E m \in WMap : MapDies(m)
    \/ \E f \in Reg : RegistryDies(f)
    \/ SweepLive \/ SweepPending \/ SweepEnds
    \/ DropEntry \/ EntryDropped \/ Store \/ Deregister
    \/ ClearRef \/ InvalidateKey \/ NextNode \/ TargetDied \/ TokenDied \/ WalkEnds

Host ==
    \/ EndJob \/ NextJob \/ QueuePop \/ TakePending \/ CallbackReturns
    \/ NothingPending \/ CallbackThrows

Next == Program \/ Cascade \/ Host

Spec == Init /\ [][Next]_vars
-----------------------------------------------------------------------------
TypeOK ==
    /\ rc \in [Cell -> Nat]
    /\ owned \subseteq Cell
    /\ field \in [Object -> Object \cup {None}]
    /\ target \in [Ref -> Object \cup {None}]
    /\ entry \in [WMap -> [Object -> Object \cup {Primitive, None}]]
    /\ kept \in Seq(Object) /\ Len(kept) <= KeptBound
    /\ queue \in Seq(Reg)
    /\ given \in Object \cup {Primitive}
    /\ cleaning \in Reg \cup {None}
    /\ (cleaning # None) = (phase \in {"drain", "callback"})
    /\ stopped \subseteq Reg

Times(c, s) == Cardinality({i \in DOMAIN s : s[i] = c})
One(b) == IF b THEN 1 ELSE 0
(* An entry whose value is already being dropped no longer counts.          *)
Spent(m, k) ==
    \E i \in DOMAIN work :
       work[i].op \in {"entryDropped", "store"} /\ work[i].cell = m /\ work[i].key = k

(* Every reference count is the number of those who hold the cell: the      *)
(* program, fields, entries, held values, the kept list, the queue, a       *)
(* drain, and the drops still to be made. So nothing is released twice or   *)
(* leaks, whichever order a cascade of deaths takes.                        *)
CountsOwners ==
    /\ TypeOK
    /\ \A c \in Cell :
       rc[c] = One(c \in owned)
               + Cardinality({o \in Object : field[o] = c})
               + Cardinality({mk \in WMap \X Object :
                    entry[mk[1]][mk[2]] = c /\ ~Spent(mk[1], mk[2])})
               + Cardinality({r \in Record : rec[r].held = c})
               + Times(c, kept) + Times(c, queue) + One(cleaning = c)
               + One(given = c) + Times(Drop(c), work)
               + Cardinality({i \in DOMAIN work : work[i].value = c})

Observers(t) ==
    {Node("ref", w) : w \in {w \in Ref : target[w] = t}}
    \cup {Node("map", m) : m \in {m \in WMap : entry[m][t] # None}}
    \cup {Node("target", r) : r \in {r \in Record : rec[r].target = t}}
    \cup {Node("token", r) : r \in {r \in Record : rec[r].token = t}}
Walked(t) ==
    \E i \in DOMAIN work : work[i].op \in {"walk", "next"} /\ work[i].cell = t
Leaving(t) ==
    {Node("map", work[i].cell) :
        i \in {i \in DOMAIN work : work[i].op = "deregister" /\ work[i].key = t}}

(* Outside the walk of its death, an object has one node for each of its    *)
(* observers, and a dead one has none: no WeakRef, WeakMap entry, record or *)
(* token outlives what it names, and none is forgotten (registry.rs:206-    *)
(* 208, 283-287).                                                           *)
RegistryAgrees ==
    \A t \in Object : ~Walked(t) =>
       /\ \A node \in Observers(t) : Times(node, nodes[t]) = 1
       /\ Range(nodes[t]) \subseteq Observers(t) \cup Leaving(t)
       /\ rc[t] = 0 => Observers(t) = {}

(* A record sits where its index says, in the vector of its state, and a    *)
(* registry with pending records is queued or being drained, unless a throw *)
(* left it: no cleanup is owed that no job will run.                        *)
RecordsFiled ==
    /\ \A r \in Record :
          LET f == rec[r].of IN
          /\ rec[r].state = "live" =>
                rec[r].idx \in DOMAIN cells[f] /\ cells[f][rec[r].idx] = r
          /\ rec[r].state = "pending" =>
                /\ r \in Range(pending[f])
                /\ cleaning = f \/ f \in Range(queue) \cup stopped
    /\ \A f \in Reg :
          /\ \A i \in DOMAIN cells[f] : rec[cells[f][i]].state = "live"
          /\ \A i \in DOMAIN pending[f] : rec[pending[f][i]].state = "pending"
          /\ Times(f, queue) <= 1

(* A WeakRef a job made or saw a target through answers that target until   *)
(* the job ends, whatever the job drops: what was kept of its target leaves *)
(* the list only as a whole (create.rs:49, deref.rs:36).                    *)
SeenStays ==
    [][kept' # <<>> =>
          \A w \in Ref : target[w] \in Range(kept) =>
                           target'[w] = target[w] \/ rc'[w] = 0]_vars

(* An entry's value is released once ("drops its value's strong ref",       *)
(* weakmap.rs:356): no drop meets a count that is already zero.             *)
ReleasedOnce == At("drop") => rc[Now.cell] > 0
=============================================================================
