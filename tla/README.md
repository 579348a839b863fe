# A verification project for torajs

torajs compiles TypeScript ahead of time to native code (`src/crates/torajs-core`,
`-egraph`, `-codegen`, `-link`) and links it with a runtime written in Rust (the
other crates). These modules model the runtime's control: jobs and promises, the
exit of the program, reference counts and the cycle collector, weak references and
finalization, the table under Map and Set, the allocator, and the one lock it has. They
were written from the source; every definition that models code has its lines in
`PROJECT.json` under `map`.

Run a configuration with `tlc -config X.cfg M`, where `M` is the module the table
of runs names, and the proofs with `tlapm M_proofs.tla`. Paths below are relative
to `src/crates/`.

## The system

The runtime is **single-threaded** for JavaScript: a job runs until it returns, and
what is concurrent is concurrent by interleaving jobs, callbacks and destructors
with the structures they were called from. Native threads exist only around the
users of `torajs-mutex` (`torajs-str/src/symbol.rs`, `torajs-process/src/lib.rs`,
`torajs-meta/src/fnprops.rs`, `genfn.rs`).

| part | state | operations | talks to |
|---|---|---|---|
| Futex mutex, `torajs-mutex` | one word: unlocked, locked, locked with waiters | `lock`, `try_lock`, the guard's drop | the kernel's `ulock` |
| Microtask queue, `torajs-microtask` | a ring: buffer, capacity, free-running head and tail; two hooks | enqueue, grow, drain, `run_until`, `yield`, byte-watched runs | everything that queues a job; the kept-objects list |
| Top-level await, `torajs-promise/src/module_await*` | one waiter frame, its byte | await of a promise, a value, a call; the host-job loop; cancel | ring, promise lists, finalization queue |
| Promise reactions, `torajs-promise` | per cell: state, handled bit, refcount, callback list, two reaction words | `then`, `catch`, `finally`, resolving functions, the reaction job, run-on chains, adoption | ring, frames, rejection list |
| Async frames, `torajs-promise/src/frame*` | a closure block that is a list member itself: awaiting, result, place | await, resume, return, throw, cancel | promise cells, ring |
| Cell pool and teardown, `pool*` | free list; a stack of dead cells | allocate, release, `free_cell`, `free_chain` | lists, frames, rejection list |
| Unhandled rejections, `unhandled.rs` | a list of rejected promises, one reference each; a listener; the exit flag | track, compact, grow, sweep, register | reject, main's exit, user listeners |
| Cycle collector, `torajs-cycle` | colour and buffered bits in each header, a candidate buffer, a list of corpses | release, nominate, mark, scan, sweep, deferred free, drain at exit | every destructor |
| Value release, `torajs-value-drop` | the drop guard's list of releases put off | release by tag, `dropguard` | collector, all cells |
| Weak references and finalization, `torajs-weak` | a registry of observers for each watched object, a cleanup queue, the kept-objects list; per WeakMap its entries, per FinalizationRegistry two vectors of records | make, deref, set, get, delete, register, unregister, drop; the walk of a dying target; the host job that drains a registry | every release, ring, module body's await |
| Capture boxes, throw slot | boxes shared by environments; one pending tag | capture, read, write; throw, take | collector; every call |
| Allocator, `torajs-mmalloc` | per size class a row, a current span and partial spans; the kept spans; arenas with free pages, the spare; per span a free list, an atomic list and counts | allocate and free, small and medium; refill, spill, keep, retire; release from another heap | all; the kernel |
| Map and Set, `torajs-collections` | an array of entries in insertion order, a robin-hood index of slots into it, live and tombstone counts, a generation | get, set, upsert, delete, clear, hinted string sets, rehash, iterate under mutation | |
| Strings, numbers, arrays, objects, regular expressions | data | pure or sequential | |
| Compiler, optimiser, linker, CLI | programs and images | | the runtime's entry points |

How they meet: user code (the module body, a handler, an async body, a listener, a
destructor) calls the runtime, which counts references, links list entries and
queues jobs. `main` runs the module body, then the exit checkpoint
(`host_jobs_run_until_idle`: all jobs, then a host job, and around), then the exit
code (the rejection sweep), then the teardown, which drops locals and globals and
drains the collector (`torajs-core/src/ssa_lower_main_exit.rs:44-52`,
`ssa_lower_teardown.rs:57-68`). A module body's `await` does not suspend it: it
runs the jobs ahead of its continuation from its own frame.

What is hard here, and what no unit test enumerates:

- an interleaving of three threads over one word and one futex queue;
- a ring that grows while it is wrapped, while the loop that drains it is running;
- job order, with several shortcuts that each skip the queue for a case in which
  that cannot be seen: an await in place, a reaction run in the job of the one
  before it, a sole waiter woken directly;
- references *handed over* from list to job to dispatcher to next reaction, instead
  of being taken and dropped;
- user code in the middle of a walk: a listener in the rejection sweep, a
  destructor in the collector's free step, a host job in an await;
- a collection that starts in the middle of any release, and so meets cells that
  are half dismantled further up the same stack;
- a death that happens inside the observer walk of another, or inside the drop of the
  container that watches it;
- spans retired, kept, evicted and unmapped while rows, lists and bitmaps still name them;
- iterators and hints that hold an index into a table whose entries a write moves, and
  tombstones that a later insertion displaces.

`PROJECT.json` lists each hazard at its line under `hazards`, with the properties
that would catch it; those no property covers say why.

## Modules

Each detailed module has an abstract one it is checked to implement, wherever
the component promises something to the rest of the program.

| promise | implementation | composed through |
|---|---|---|
| (invariants only) | `FutexMutex` | |
| `JobQueue` | `MicrotaskRing` | `ImplementsJobQueue` |
| `PromiseSpec` | `PromiseReactions` | `ImplementsPromises` |
| `RejectionTracking` | `RejectionTracker` | `ImplementsTracking` |
| `ObjectGraph` | `CycleCollector` | `ImplementsGraph` |
| `OrderedMap` | `MapTable` | `ImplementsMap`, `ExactButForMoves` |
| (invariants only) | `WeakRegistry` | |
| `BlockHeap` | `SpanHeap` | `ImplementsBlocks` |

`MCPromiseReactions`, `MCRejectionTracker`, `MCCycleCollector` and `MCWeakRegistry` add
the symmetry of their cells or records, `MCSpanHeap` that of arenas and threads with the
geometry of its size classes, `MCMapTable` the hash functions; the other runs check the
modules themselves. `Reachable` is what `ObjectGraph` and its refinement both say of a
graph of cells. `FutexMutex_proofs`, `MicrotaskRing_proofs`, `RejectionTracker_proofs`,
`PromiseReactions_proofs`, `CycleCollector_proofs`, `SpanHeap_proofs` and
`WeakRegistry_proofs` hold the theorems; `Filtering` is the filter on sequences the
rejection modules, the collector's buffer, the kept spans' list and the lists of observers
are built from, `Filtering_proofs` the lemmas about it and about counting in sequences.

Definitions whose comment begins with *Mutant* are wrong variants of the one after
them. Nothing uses them; `PROJECT.json` names, for every property, one that breaks
it when it takes the definition's place.

### FutexMutex

`state` is the atomic word; `pc` says where each thread is between two accesses of
it. One action per atomic access or system call: `Acquire` and `Contend` are the
outcomes of the fast path's exchange, `SpinLoad` and `SpinCas` one turn of the spin
loop, `Swap` the park loop's exchange, `Park` the kernel's compare-and-sleep,
`Unlock` the guard's swap, `Wake` the system call after it. The kernel may wake any
sleeper, and may wake one for no reason (`SpuriousWake`). All accesses are of one
word, so sequential consistency loses nothing.

### MicrotaskRing and JobQueue

`buf`, `cap`, `head`, `tail` are the static variables of `torajs-microtask/src/lib.rs`,
with counts that run free and a buffer in which a slot nobody wrote reads `junk`.
`job` and `at` say what runs and which loop is under it: the module body, `run_until`
on one of the two watched bytes (`set`), `await_byte_run`, `await_slow`'s host-job
loop, or the exit checkpoint. `Push` with `Grow` is the enqueue, `Pop` and `EndJob`
the two ends of a job in any of the loops. `await` is what the body waits for, `kept`
and `hook` the kept-objects list and the hook installed to clear it.

`JobQueue` is ECMA-262's queue, in which an await of the body is a continuation
queued like any job. The mapping reads the mark and the waiter's resumption in the
ring as the body's continuation, and an await whose promise or call has settled but
that has queued nothing yet as a continuation behind all jobs.

A host job may settle what the body waits for, and then the two orders differ (see
Findings). `Overtaken` names the states in which they do, and `OrderedButForHost` is the
refinement up to them: every other step is a step of the language's queue.

The user's part is a choice among calls: queue a job, keep an object, settle what the
body waits for, await, return. An async call that settles its result does so as the
last thing its job does, so nothing is queued after it in the same job (`Enqueue`'s
second guard; `module_await.rs` relies on it as well).

### PromiseReactions and PromiseSpec

A cell has `st`, `handled`, `rc`, `list` (newest first, as pushed) and `rx` (the two
reaction words, of which the source is only a back-pointer while the reaction is
parked). A frame has its place, what it awaits and its result. `run` is the code that
runs: the main program, a handler with the two references its dispatcher holds, an
async body, or the next link of a chain inside the same job. `dead` is the teardown's
stack; until it is empty nothing else runs.

| action | code |
|---|---|
| `New`, `Resolve`, `Then`, `Drop` | allocation, resolving functions, `attach_inline`, release |
| `ThenTwo`, `ThenNone`, `Finally` | `__torajs_promise_then2`, `_then_passthrough`, `_finally`, `_finally_closure` |
| `CallAsync`, `BodyAwait`, `BodyAwaitValue`, `BodyEnd` | `__torajs_frame_await*`, `__torajs_frame_return`, `_throw`, `wake_sole_waiter` |
| `RunReact`, `RunNext`, `HandlerEnd` | `run_inline_reaction`, `run_chain`, `settle_into_chain`, `settle_handler_return` |
| `RunAttach`, `RunAdopt` | `adopt_attach_job`, `adopt_dispatch` |
| `RunRecord`, `FinallyEnd`, `RunWait` | `then2_dispatch` and the dispatchers of `finally`, `finish`, `finally_wait_dispatch` |
| `RunResume`, `RunFrame` | a frame's landing, from the queue or from a chain |
| `FreeCell` | `free_cell`, one cell of `free_chain` a step |

Values are abstracted to the outcome, and a handler's return to four forms that take
different paths: a plain one (may run on in the same job), a boxed one (general path),
a throw, a promise (adoption). Whether the kept-objects hook is installed is a choice
wherever the code tests it: `Chain` may run on or queue. The rejection list is a
choice too (compact or not), since `RejectionTracker` has its detail.

A reaction with two handlers, with none (`then()`), of `finally`, or that settles an
outer promise is a record of its own: a list entry, later a job, with a reference on the
promise it settles *and* on its own source, where an inline reaction takes the source's
only when it is queued. `finally` that is answered with a promise puts a third reference
into the wait: the source keeps the settlement to pass on until the answer settles.

`PromiseSpec` has no references, no frames' words and no chains: reactions in
registration order, one FIFO of jobs, thenable jobs, `Forget` for what nothing names.
The mapping reverses the lists and puts a link still to be run in this job behind the
queue (which is empty whenever there is such a link).

### RejectionTracker and RejectionTracking

The list with its capacity, each entry's reference, the compaction of a full list
before it grows, the sweep that detaches the list and walks it, and a listener that,
in the middle, may create, observe, drop and reject promises and register again.
Cells at count 0 go back to the pool and come again. `RejectionTracking` is
`HostPromiseRejectionTracker`: owed reports, oldest first; rejections of listeners are
kept apart because nothing reports them.

### CycleCollector and ObjectGraph

`rc`, `color`, `buffered` are a cell's header; `slot` its two children; `buffer` the
candidates; `corpses` the list of garbage not yet freed; `pending` the drop guard's
list. `stack` has a frame for each cell being dismantled, for the drop guard's loop
and for the collect, innermost last: a release is a step, so is the end of a drop, and
whatever those releases start (further drops, a collect at the threshold) runs to its
end above them. Mark, scan and sweep call no code but the collector's and are one step
each; the frees after them run destructors and are a step each, in any order.

Five layouts stand for the runtime's: a class instance (`obj`), an environment or
frame (`env`), an array (`arr`), a promise (`bag`), a string (`leaf`). They differ in
when a dying cell leaves the buffer, whether a corpse runs a destructor of its own,
and which slots the walk can read. Where the machine stack's floor lies is left open:
any nested last release may be put off. On targets without a floor nothing is, which
is a subset of these behaviours.

`ObjectGraph` is the heap of a program that never runs out of memory and counts
nothing: what it reaches changes only by its own stores, loads and drops.

### MapTable and OrderedMap

`table` is the Map block of `torajs-collections/src/map.rs`: its entries, counted from
1, with their capacity, the slots by number, and the two counts. `moved` stands for the
generation: it says that a rehash or a clear came since the hint was taken. `cursor` is
each iterator's index, `hint` what the last `find_str` left at its call site. One action
is one call, with the growth, the compaction and the rehash the call makes. `Placed` and
`Lookup` are the two probe loops, turn by turn, as recursive functions over the distance
from home; a slot number is the hash modulo the size, as the code's mask is. The hash of
a tombstone is 0, as `map_slot_tombstone` leaves it.

`OrderedMap` is the sequence of pairs of the language with iterators between them. The
mapping reads the live entries as the pairs, and an iterator's cursor as the number of
live entries behind it. `Skips` says whether a write may carry an iterator past pairs it
has not answered: with it, every call of the code is a call of the promise
(`ImplementsMap`); without it, every call but those that move an entry while an iterator
is under way (`ExactButForMoves`).

### WeakRegistry

`nodes` is the registry of `torajs-weak/src/registry.rs`, one list of observers for each
object, newest first; `target`, `entry` and `rec` are what the three kinds of container
hold, with `cells` and `pending` a registry's two vectors and `idx` a record's own place
in the one it is in. `queue`, `kept` are the cleanup queue and the kept-objects list.
`work` is the stack of the calls a release has under way, and the program takes a step
only when it is empty: a value dropped by a handler may be the last reference of another
object, whose walk then runs inside the first.

| actions | code |
|---|---|
| `New`, `Link`, `Release` | allocation, a strong field, a release |
| `RefCreate`, `Deref` | `create.rs`, `deref.rs`, `__torajs_kept_objects_add` |
| `MapSet`, `MapGet`, `MapDelete` | `__torajs_weakmap_set`, `_get`, `_delete` |
| `Register` | `__torajs_finreg_register` |
| `Unregister`, then `SweepLive`, `SweepPending`, `SweepEnds` | `__torajs_finreg_unregister`: its call, a record taken from either vector, its releases |
| `ObjectDies`, `RefDies`, `MapDies` with `DropEntry`, `RegistryDies` | the destructors |
| `ClearRef`, `InvalidateKey`, `TargetDied`, `TokenDied` | the four handlers of `__torajs_weakref_target_dying` |
| `EndJob`, `QueuePop`, `TakePending`, `CallbackReturns`, `CallbackThrows` | the end of a job, `drain_one` |

A callback is any sequence of the program's calls. A callback that throws leaves the
records after it pending, and its registry off the queue (`stopped`) until another target
of it dies; `RecordsFiled` says that nothing else does.

With `Loops` false, the program drops no WeakMap one of whose values leads to a key of
the same map: there must be a set of objects with the map's values, closed under what dies
with an object, that holds no key of the map (`Apart`). For a map without one the drop
releases a value twice (see Findings), and no invariant about counts holds after that.

### SpanHeap and BlockHeap

A block is an arena, a place in it and a size class; `live` are those the program holds.
`row`, `cur`, `partial`, `kept` with `keptPages`, `arenas` and `spare` are the fields of
`TlabCache` (`torajs-mmalloc/src/tlab.rs`); `metas` has a span's `SpanMeta`, its atomic
list newest first, and `freePages` and `advised` an arena's bitmaps. `call` is the owner's
call between two turns of its loop.

| actions | code |
|---|---|
| `PopRow`, `FreeSmall` | `alloc_sized`, `free_sized` where the row answers; the start of `spill` |
| `Call`, then `Reopen`, `NewSpan`, `Refill` | the loop of `refill` and `alloc_medium`, `open_span`, `new_span`, `take_chain`, `take_one`, `collect_remote` |
| `SpillRun` | one run of `release_chain`, with `settle`, `retire` |
| `FreeMedium`, `KeepEvict`, `Keep` | `free_medium`, a turn of `keep`, its end |
| `FreeRemote`, `Exchange` | `release_remote`: the load, and each compare-and-exchange |

The owner's steps are atomic but for its one access to an atomic list, the swap of
`collect_remote`, which is part of `Refill`; other threads touch nothing else. The process
has one heap today (`core.rs:24-28`), so releases from elsewhere are what the threaded
runtime will do and the crate's tests do with a second heap; a block in another heap's row
counts as the program's here. A full span is in no list: its atomic list is read only after
the owner releases a block of it, and where every block comes back from elsewhere, nothing
collects them. `EmptyGoesBack` is about spans whose blocks the owner has counted back.

The kernel may refuse a mapping, and may not take pages it is handed. `BlockHeap` is the
promise: a block handed out shares no memory with one still in hand. The mapping holds a
block to be in hand until its release is done, and takes its cells from its place and
class.

## Runs

| run | instance | states | question |
|---|---|---|---|
| `FutexMutex` | 3 threads, 2 spins | 785 | exclusion, no lost wakeup, every call returns |
| `MicrotaskRing` | first capacity 1, counts to 5, host jobs settle | 416 364 | the ring is a FIFO, loses no job, keeps no object past its job, and is the queue of the language but for one case |
| `MicrotaskHostSettles` | first capacity 2 | (violation) | the same without the exception, see Findings |
| `PromiseFrames` | 4 cells, 2 frames, every form | 882 010 | reactions, `finally`, chains, async frames and adoption: order, counts, back-pointers, rejections, nothing left |
| `RejectionTracker` | 5 promises, first capacity 1 | 69 544 | each owed rejection told once, in order, over a live list |
| `CycleCollector` | 3 cells, all layouts, threshold 2, 4 edges | 3 890 438 | counts, trial, buffer and dying cells agree at every step |
| `CycleDrain` | 3 cells, `obj`, `bag`, 3 edges | 938 471 | the program cannot tell the collector is there; the drain at exit ends and leaves nothing |
| `MapTable` | 3 keys, 2 of one hash, 1 iterator, 2 entries and 4 slots at first | 89 207 | index and entries agree, every key is found, a Map is an ordered map |
| `MapWrap` | 5 keys, 8 entries and 16 slots | (violation) | a key that is there is found, see Findings |
| `WeakRegistry` | 2 objects, 1 WeakRef, WeakMap, FinalizationRegistry, 2 records | 4 146 638 | counts, observers and records agree; what a job saw stays |
| `WeakMapDrop` | 2 objects, 1 WeakMap | (violation) | an entry's value is released once, see Findings |
| `SpanHeap` | 2 arenas of 2 pages, 1 small class, 2 medium, 2 other threads | 602 867 | blocks, spans, pages and arenas agree; no block lies over another; what is empty goes back |

Every bound is a constant in the `.cfg`, and each was chosen for what it lets happen:

- *Three threads*: a holder, a sleeper and a barging thread, the smallest set with all
  three roles at once. Two spins make an intermediate turn of the loop.
- *Capacity 1 and counts to 5* (32 in the code): the ring is allocated, grows twice, is
  full and wrapped when it grows, and restarts its counts in between. `CountBound`
  stops `Enqueue` and `AwaitSettled` only; the counts start again whenever the ring is
  empty, so runs are unbounded. Counts to 5 let two jobs stand ahead of a mark.
- *Four cells and two frames*: a chain of three links, a source with competing
  reactions, a frame awaiting the result of another, and a promise returned into both.
- *Capacity 1 and five promises* (8 in the code): growth to 2 and 4, with a compaction
  that avoids each of the two.
- *Three cells with two slots*, threshold 2 (1024 in the code, at least): cycles of one,
  two and three cells, a cell held twice by one parent, a garbage cycle with an edge
  into a live one, two corpses whose destructors release the same survivor, and a
  collect that starts in a drop in a destructor. `HandleBound` 1: more references of
  one scope on one cell only make it live. `EdgeBound` stops `Store`.
- *Two entries and four slots* (8 and 16 in the code), three keys: growth of the entries
  without the slots and of both, compaction by deletion, two keys of one hash and a third
  at home behind them. No chain there runs over the end of the slots; that case is
  `MapWrap`'s, at the code's own sizes.
- *Two objects*, `x` a key and a token, `y` a value and a held value, either a target and
  either in the other's field: a death inside the walk of another, of a key by its map's
  value, of a token. `NodeBound` 3: an observer of each kind on one object at once.
  *Two records*: a removal that moves the last record into a hole. `KeptBound` 1 stops
  what would keep a second object in one job.

- *Two arenas of two pages* (a kernel that may give out any number, of 63), a span of two
  pages that fills an arena, one of a page with one slot and one with two; rows of two
  (`SPILL_AT` is a power of two, so that a bit of the length tells a full row), a budget of
  two written pages (3). Reached: two spans kept and the older evicted, a span back in one
  run straight from full, the spare taken again, an arena unmapped, the kernel's refusal, an
  exchange that fails, a full span with all its blocks on its atomic list. Not reached: a
  hole between two spans too short for a third, a free list longer than a row.
  `OutBound` stops the owner's calls at four blocks out, `AwayBound` other threads at two
  they have not given back.

The two collector runs turn deadlock checking off: the program is over there. In
`MapTable`, `WeakRegistry` and `SpanHeap` some call of the program is always possible. In
`MicrotaskRing`, `PromiseReactions` and `RejectionTracker` the end is a step that changes
nothing (`Exited`, `Quiet`, `Over`), and threads never finish with the mutex, so there a
state without a successor would be reported.

### Fairness

- `FutexMutex`: weak fairness of each thread's `Step`, because the scheduler runs a
  thread that can run. None for `Acquire` and `Contend` (nobody has to ask for the lock) and none
  for `SpuriousWake`. `LockReturns` assumes the other threads leave the mutex alone in
  the end: the lock makes no promise to a thread while others barge.
- `MicrotaskRing`: weak fairness of `Progress`, the steps of the loops and the returns
  of jobs and body. It says user code returns; with a job that never does, no later one
  runs in the code either.
- `CycleCollector`: weak fairness of `Runtime`, the steps of a single thread inside
  runtime code, which nothing preempts.
- `PromiseReactions`, `RejectionTracker`, `MapTable`, `WeakRegistry` and `SpanHeap` are
  checked for safety only: nothing in them obliges the program to go on.

## Findings

1. **A host job that settles what the module body awaits** (`MicrotaskHostSettles`).
   When the queue runs dry, `park_and_run` takes the body's waiter out of the promise's
   list (`torajs-promise/src/module_await/waiter.rs:97`) and a `FinalizationRegistry`
   cleanup may run. If it settles the promise and then queues a job, that job
   runs before the body's continuation, which only goes in when the await is retried;
   the settlement came first. `torajs-microtask/src/wait.rs:6` promises "the same jobs
   in the same order". `OrderedButForHost` shows this is the only way the order differs.
2. **A lookup that stops short of its key** (`MapWrap`). A tombstone's hash field is 0, so
   `map_slot_insert` (`torajs-collections/src/probe.rs:62`) takes it for a resident at
   home in slot 0. In a chain that runs over the end of the slots, a tombstone in one of
   the first slots then looks nearer to its home than the key in hand, which takes its
   place and comes to stand ahead of keys probed further than itself. The lookup of one of
   those ends there: `has` answers false, and `set` makes a second entry. `probe.rs:16`
   promises "the key isn't anywhere later in the chain". In a new Map, four keys at home
   in slot 14, the deletion of the third and a key at home in slot 15 are enough.
3. **A WeakMap that holds its own key** (`WeakMapDrop`). `__torajs_weakmap_drop`
   (`torajs-weak/src/weakmap.rs:386`) releases an entry's value while the entry is still
   registered on its key. If the value holds the key's last reference, the key dies in
   that release, its walk finds the entry, releases the value again and frees the entry,
   which the loop then frees too. The drop of a FinalizationRegistry detaches every
   record first, for this reason (`finreg.rs:327-331`).

Three more behaviours are modelled as the code has them, and no line of the repository says
otherwise, or the wording is open: an iterator may pass over pairs when a rehash compacts
the entries it has passed, or after a clear (`Skips`), where the language forbids it; and
the exit sweep detaches its list first, so that what a listener rejects lands in a new
list which stays, unreported and with its references, when the program ends (`late` in
`RejectionTracking`); and `finally` settles its promise in the job of its handler, or of
the promise that answered, where the language takes two jobs more (`PromiseSpec` states
the order the code has). A record keeps its own source, and without ops the collector
cannot walk it (`reaction/record.rs:6`), so a pending promise with such a record stays
when everyone has dropped it; `NothingLeaks` excepts what hangs on a pending promise.

## Proofs

`FutexMutex_proofs`, for every set of threads and every spin budget
(`SpinBudgetAssumption`: a natural number):

- `TypeCorrect`: `TypeOK`. Inductive only with `SpinsLeft`, that a thread in the spin
  loop has a turn left; without it the count may go below zero.
- `Exclusion` and `WordCorrect`: `MutualExclusion` and `WordTellsOwner`, one invariant.
  Exclusion alone is not inductive, since a thread enters on the word's value alone; the
  word reads unlocked exactly when nobody holds.
- `WakeupKept`: `NoLostWakeup`, inductive over types, by cases on which of the three
  reasons it names a step removes.

`MicrotaskRing_proofs`, for every set of jobs (disjoint from the runtime's own,
`TaskAssumption`), first capacity (`CapAssumption`: at least 1) and bound:

- `TypeCorrect` and `RingCorrect`: `TypeOK` and `PendingWritten`. The invariant `Inv` is
  the geometry (the pending counts fit the capacity, an unallocated ring counts nothing),
  that every pending slot was written, and the types of the rest. Each part needs another:
  a pop runs a job because no pending slot is junk, and the slot exists because the counts
  fit.
- `RingKeepsOrder`: `RingIsQueue` for every step. Its lemmas are about slots
  (`SlotAdd`: one turn on, a slot is further up or wraps once; `SlotsApart`: two pending
  counts never share one) and about the operations (`GrowKeeps`: the move of the wrapped
  run keeps every pending job at its distance from the head; `PushAppends`, `PopTakes`,
  `RestartKeeps`).
- `KeptUntilJobEnds`: `NothingKeptAcrossJobs`. A step that starts a job must find the list
  empty, which needs an invariant of the states between jobs: `KeptInv` says that objects
  are kept only while a job or a host job runs, or outside jobs where the next thing
  clears them, and always with the hook installed that does (`KeptKeeps`, one case for
  each action).

- `OrderKept`: the refinement `OrderedButForHost`. What a step of the queue looks like
  outside depends on where the body's continuation is, so the invariant `WaitInv` says it
  for each loop: what the body waits for, and where the one entry that ends the wait is
  (pending in the ring, running, or behind the watched byte). While the body waits for
  nothing, every pending entry is a plain job (`NoWait`); while it waits for one entry there
  is exactly one of it (`OneWait`). One lemma for each action then shows that a step keeps
  `WaitInv` and is a step of `JobQueue`, a stutter, or `Overtaken`; `QueuedIs` reads the
  promised queue off the ring, over the slot lemmas.

`RejectionTracker_proofs`, for every set of promises and first capacity
(`InitialCapAssumption`: at least 1), over the invariant `Inv`:

- `ListsOK`: the list and the detached part have no promise twice or in common, and the list
  fits its buffer. `HeapOK`: a count is the program's reference plus the list's, a listed
  promise is rejected, a free cell counts nothing. `PhaseOK`: what each phase has of the two
  lists. `CountKeeps` is the one lemma about counting references up and down.
- `TypeCorrect` and `EntriesCounted`: `TypeOK` and `EntriesOwnCells` follow; the latter
  counts entries of a sequence, which are one or none because the lists are distinct
  (`StakesDistinct`).
- `TrackingImplemented`: `ImplementsTracking`, the refinement of `RejectionTracking`.
  `ObserveOwed`, `RejectOwed` and `SweepOwed` say what a handler, a rejection (with the
  compaction of a full list) and a turn of the sweep do to the sequence of owed reports.

`Filtering_proofs` has what those rest on: a filtered sequence is one, holds what it should,
in order and once, and commutes with appending, taking the first and filtering again; and
how many entries of a sequence are in a set when it grows or two are put end to end.
`Filter` is defined by the place each element goes to, and not by recursion, so these are
proved from `LeastNatural`, induction as the least counterexample.

`PromiseReactions_proofs`, for every set of cells and frames and all forms of return:

- `RejectionsKept`: `UnobservedTracked`. Inductive over the words of the cells, that a
  settlement tracks what it rejects before the compaction of a full list can look at it,
  and that only an attachment makes a promise observed.
- `NoReactionStranded`: `NoneStranded`, that a cell which is not pending has no callbacks.
- `FramesHaveOnePlace` (`FramesPlaced`) and `BackPointersCorrect` (`BackPointersLive`).

The two properties of back-pointers are not inductive. A frame's words do not say whether it is queued twice, and a settlement that
moves it from the list to the queue keeps it there once only if it was in neither before:
`FramesPlaced` says that each frame has one place, at which it is once. A reaction's word
may name a settled promise while its job is due, and then the job has to be there:
`ReactionsBacked`. Both need `Types`, and `NoneStranded` for a settlement of what has settled
already, so the invariant is `PlaceInv`, over the `Inv` of the first two theorems. The lemmas
are in three layers: what a sequence has, and once, when it grows, is drained or loses its
head (`AppendHas`, `DrainHas`, `TailHas`); what such a change does to one frame's place and
one reaction's word (`PushAt`, `SettleAt`, `SettleBacked`); and one lemma for each action,
where a chain (`IntoChainPlaces`) is a settlement of a list of one or a hand-over to the
running code (`NextPlaces`, `WakePlaces`).

The second half of the module, over both invariants, for every finite set of cells and
frames (`CellAssumption`, `FrameAssumption`: memory is finite, and a cell is not the null
word):

- `OwnersCounted`: `CountsOwners`, and with it `TypeOK`, whose counts are natural numbers
  only because no owner is missing.
- `NothingLeaked`: `NothingLeaks`. A live cell is owed something; with no handle, job or
  running code what is left is an entry of a list or the result of a frame, and each of
  these is the keeping of a pending promise, by `NoneStranded` and `FramesPlaced`.

`CountsOwners` is not inductive: when a settlement moves a list to the queue, the
references of a reaction go from the entry of its list to its job and, as the back-pointer
becomes an owning word, one on the source is due that nothing said the word named.
`CountInv` has three parts. `Counted` says that a count is `Owing`, a sum with a term for
each kind of place, that cells of the pool owe nothing, and that the dead are the cells
without an owner. `ReactionsPlaced` gives every reaction one place, as `FramesPlaced` does
frames: in a list once, or in the queue once, or running, with the word naming that
place's promise; without it the job of a reaction could be counted twice, or a
reaction be taken off a list that is not its source's. `WordsOK` has what an entry and the
running code can be taken to hold: a record is on the list of its own promise, a frame that
is not suspended has no word of another promise, what is tracked is rejected. The
property counts promises, frames and jobs where `Counted` counts the entries of lists and
queue; `OwnersOwed` shows them equal, by a bijection each. The lemmas are about counting
(an entry more, an entry less, two sequences end to end, a list drained in reverse:
`CountGrows`, `CountTail`, `CountConcat`, `CountReversed`), about each place's sum
(`ListsGrow`, `JobsLose`, `CallsAt`), about what a settlement hands over (`DrainHolds`,
`SettleOwed`), and one for each action.

`CycleCollector_proofs`, for every finite set of cells (`CellAssumption`, memory again),
every threshold and every bound, over the invariant `CollectInv` (`InvCorrect`):

- `TypeCorrect`: `TypeOK`. That no count goes below zero, neither on trial nor when the
  sweep takes a leaf's edges off it, is a consequence of the sum.
- `ReferencesCounted`: `CountsOwners`.
- `TrialCorrect`: `TrialLeavesOutsiders`.
- `BufferCorrect`: `BufferSound`.

`CountsOwners` says nothing during the scan and the sweep, and a step that leaves them must
restore it, so the invariant has a sum that holds in every phase (`Counted`): a count, with
what the trial has taken off it, is the scopes, deferred releases and slots on the cell. What
the trial has taken off is the walked edges out of gray or white cells (`PaidFor`). A slot
stands for a reference (`Owned`) while its cell has a count, is on trial, or is a corpse whose
destructor is to come, and after that while a drop has not passed it. The sum needs to know
where drops are and of what (`Frames`: of a cell with no count, off trial and no corpse, and
of each at most once), that a gray cell's walk stays gray and a white one has no count left
(`Trial`), what a corpse is (`Corpses`), and what the buffer holds (`Buffer`: a cell that is
being dismantled and still flagged is purple, which is how the root walk tells it from a dead
one and why `Mark` never frees a cell under its own drop). The lemmas are in four layers:
counting edges and deferred releases (`EdgesNat`, `EdgeMore`, `LateAppend`); the stack, when a
frame is pushed, goes on or returns (`PushIs`, `ThenIs`, `PopActive`); one release of a
reference in hand, whoever has it (`Letting`: a scope, a slot, a drop, the deferral loop), which
may nominate, collect, die or be put off (`DecrementKeeps`, `DeferKeeps`, `ReleaseKeeps`); and
one lemma for each action. A walk is the least set closed under children, `Reached`: `MarkSets`
gets that all it visits has a count and `ScanSets` that all the scan finds live has one left or
an edge from another, each by giving a closed set.

`SpanHeap_proofs`, for every set of threads and arenas, every number of pages and every
size class whose slots fit its span and whose span fits an arena (`GeometryAssumption`, what
`size_class.rs` computes its tables from), a row of at least one block and any budget
(`LimitsAssumption`), over the invariant `HeapInv` (`HeapHolds`):

- `BlocksStay`: `BlocksConserved`.
- `ListsStay`: `ListsAgree`.
- `EmptyReturns`: `EmptyGoesBack`.
- `BlocksImplemented`: `ImplementsBlocks`, the refinement of `BlockHeap`. That an allocation
  overlaps nothing is `HandApart`, that no two blocks in hand share a cell, in the state
  after it; what is in hand, and what a step adds to it or takes from it, is `HandStep`.

`BlocksConserved` is inductive only together with `ListsAgree`, and neither says enough. A
retirement gives a span's pages back because its count reads zero; that nothing of it is
then out follows from the count only if each carved block is out exactly when it is not on
the free list (`Homes`), in one place (`Apart`), and the record is sound (`Records`).
`SpanOf`, the page map, finds a block's span only if spans share no page (`Layout`), and
slots of one span are apart only by the geometry, which is where the non-linear arithmetic
is (`Products`, `Quotient`, `SlotUnit`, `SlotInjective`). A refill turn takes the blocks of
the atomic list over before it counts, so a span may be found full with blocks that are
nobody's: what a turn takes, and what is left, is `TakesFacts`. `Calling` has what the
owner's call leaves unsettled between two steps: the span with nothing out that it has just
opened, or is about to keep, and the row that a refill is for, which is still empty.
`OneEach` has that no block is on its way home twice. Each exchange is read in both its
outcomes; that another thread's block is on no atomic list before its exchange is `Apart`,
and that it is on its own span's after it is `HomeFound`. The lemmas are in four layers:
slots, units and cells; what leaves each part of the invariant as it was, or changes it for
one span or one row (`LayoutKept`, `HomesChanged`, `RowPut`, `RecordPut`); settle, retire and
kept_unlink, which several calls share (`SettleKeeps`, `RetireKeeps`, `Unlinked`); and one
lemma for each action.

`WeakRegistry_proofs`, for every finite memory (`CellAssumption`: a cell is of one kind),
every set of records, keys and bounds, and for `Loops` false, over the invariant
`RegistryInv` (`RegistryHolds`):

- `OwnersCounted`: `CountsOwners`, and with it `TypeOK`.
- `RegistriesAgree`: `RegistryAgrees`.
- `RecordsAreFiled`: `RecordsFiled`.
- `ReleasedOnceOnly`: `ReleasedOnce`, the property `WeakMapDrop` refutes when `Loops` is
  true. So a second release needs the drop of a map one of whose values leads to its key.
- `SeenAnswers`: `SeenStays`, an action property.

The hypothesis is no convenience: without it the first, second and fourth are false of the
code. It restricts only what the program drops, not how deaths interleave.

Every property is about states in which a cascade of deaths may be anywhere, so most of the
invariant is about `work`. `Stacked` has what each kind of call may be and what it still
owes: a walk is of a dead object, and of each at most one is under way (`OneWalk`); an
`entryDropped` is of an entry still there; a `store` of one that is; a `deregister` of one
that is gone. The part of a stack that a step can change is its head and the calls it deals
in its place, all of them drops and walks of objects (`Deals`); the step has to leave what
the calls below rely on (`Frames`) and make what the new ones rely on (`Founded`). A death
of an object and every handler of a walk is a deal, so the lemmas about deals
(`DealtAt`, `DealtCalls`, `DealtOwing`) do for all of them. `Listed` is `RegistryAgrees` in
the middle of a walk, where the node under the walk outlives its entry by one call (`Nexts`)
and a deleted entry's node by its value's release (`Leaves`). `Gone` has that a dead object
is observed only while it is walked. `Filed` is `RecordsFiled` with each record's token,
target and registry. `Counted` is the sum of ten terms, one for each kind of place.
`Separate` is what `Apart` becomes below the drop of a map: whatever dies above that drop
stays in a set that holds no key of it, so no walk there takes an entry whose value the drop
has already released.

Model-checked only: all liveness (`SomebodyLocks`, `LockReturns`, `EveryJobRuns`,
`DrainEnds`), which the prover does not reach; the refinements of promises, the object
graph and the map; `NothingLeaks` of the collector; everything about the map. What `Reach`
of `Reachable` computes and the map's probes are recursive functions; what such a function
computes for every input needs induction through a theorem that takes an operator, which the
installed provers cannot instantiate. `ImplementsGraph` and `NothingLeaks` rest on `Reach`; `NothingLeaks` would
also need that every ring of garbage has an entry in the buffer, in the middle of every phase.

## What is left out, and the plan

Not modelled, by decision: the compiler, optimiser and linker (functions over whole
programs; the code they emit around the runtime is modelled where it calls it);
strings, numbers, formatting and regular expressions (pure functions over large data);
dynamic values, objects and arrays (sequential semantics of the language); I/O, the
host interface and the command line.

Left out of the modelled parts: in `PromiseReactions` closure environments,
the combinators, described records (those with ops), `then` methods a program replaced,
the forms of values, and resolving functions called with a promise; in
`MicrotaskRing` the forms of the value an await reads and the warning of an unsettled await; in
`RejectionTracker` the text of the report and the listener's closure; in
`CycleCollector` anonymous structs (never candidates), static literals (never counted),
weak observers, capture boxes, and the threshold's rise above its floor, which takes
more than four times the floor in live cells; in `MapTable` the references of keys and
values, the value kinds of typed maps, Set's algebra and the return of a generation after
2^31 moves; in `WeakRegistry` WeakSets (maps of primitives), property bags, containers
that are themselves observed, stored or held, and deaths inside a collection; in `SpanHeap`
blocks past the medium classes and the registry their mappings are in, `free` without a
size, `realloc`, a row lifted into registers, and the guard build's checks and quarantine.

The modules, in order:

1. `FutexMutex` with its proofs. *Done.*
2. `JobQueue`, `MicrotaskRing`, the ring's proofs. *Done.*
3. `PromiseSpec`, `PromiseReactions`. *Done.*
4. `RejectionTracking`, `RejectionTracker`. *Done.*
5. `ObjectGraph`, `CycleCollector`, the collector's proofs. *Done.*
6. Capture boxes, in the collector: the trace of an environment goes through a box to
   its payload, an edge per environment and none for a frame that holds the box. The
   question is whether a trial may call a payload garbage that such a frame still
   reaches.
7. `finally` and `then` with two handlers or none, in `PromiseReactions`. *Done.* Described
   records and the combinators, against `PromiseSpec`: fan-in counters and slots.
8. `WeakRegistry`, its proofs. *Done; its composition with the ring's host jobs is by the phases of a
   job, with the collector's deaths still to do.*
9. `OrderedMap`, `MapTable`. *Done; not proved about.*
10. `BlockHeap`, `SpanHeap`, the heap's proofs. *Done; the registry of mappings and large
    blocks are still to do.*

Theorems worth proving next: `HintExact` and the agreement of index and entries in
`MapTable`, for which the probes would be restated without recursion.
