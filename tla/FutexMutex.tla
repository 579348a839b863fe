----------------------------- MODULE FutexMutex -----------------------------
(***************************************************************************)
(* torajs-mutex: the three-state futex mutex every multi-threaded part of  *)
(* the runtime takes (src/crates/torajs-mutex/src/lib.rs).  One action per *)
(* atomic access of the state word and per system call, so every           *)
(* interleaving two threads can produce between them is a behaviour.  The  *)
(* Acquire/Release orderings are read as sequential consistency: all the   *)
(* accesses are of one word.                                               *)
(***************************************************************************)
EXTENDS Naturals

CONSTANTS Thread,       \* the threads that share the mutex
          SpinBudget    \* SPIN_RETRY_BUDGET

ASSUME SpinBudgetAssumption == SpinBudget \in Nat

\* The values of the state word.
UNLOCKED == 0
LOCKED_NO_WAITERS == 1
LOCKED_HAS_WAITERS == 2

VARIABLES state,   \* the word the mutex is
          pc,      \* where each thread is
          spins    \* iterations of the spin loop each thread has left

vars == <<state, pc, spins>>

(***************************************************************************)
(* idle    outside lock, try_lock and the guard's life                     *)
(* load    in the spin loop, before the load                               *)
(* cas     in the spin loop, after a load that read UNLOCKED               *)
(* swap    before the swap of the park loop                                *)
(* wait    before the kernel's compare in ulock_wait                       *)
(* parked  asleep in ulock_wait                                            *)
(* held    owns the guard                                                  *)
(* wake    has released, before the ulock_wake                             *)
(***************************************************************************)
Location == {"idle", "load", "cas", "swap", "wait", "parked", "held", "wake"}

\* Where a thread inside lock_contended is.
Trying(t) == pc[t] \in {"load", "cas", "swap", "wait", "parked"}
Holds(t) == pc[t] = "held"
At(location) == {t \in Thread : pc[t] = location}

Init == /\ state = UNLOCKED
        /\ pc = [t \in Thread |-> "idle"]
        /\ spins = [t \in Thread |-> 0]

Goto(t, location) == pc' = [pc EXCEPT ![t] = location]

-----------------------------------------------------------------------------
\* lock's fast path, and try_lock, which is the same exchange.
Acquire(t) == /\ pc[t] = "idle"
              /\ state = UNLOCKED
              /\ state' = LOCKED_NO_WAITERS
              /\ Goto(t, "held")
              /\ UNCHANGED spins

\* lock's exchange failed: lock_contended starts with the whole budget.
Contend(t) == /\ pc[t] = "idle"
              /\ state # UNLOCKED
              /\ Goto(t, IF SpinBudget = 0 THEN "swap" ELSE "load")
              /\ spins' = [spins EXCEPT ![t] = SpinBudget]
              /\ UNCHANGED state

\* Mutant: the loop never counts itself out.
SpinOnceForever(t) == /\ spins' = [spins EXCEPT ![t] = @ - 1]
                      /\ Goto(t, "load")
                      /\ UNCHANGED state

\* One turn of the spin loop is over without the lock.
SpinOnce(t) == /\ spins' = [spins EXCEPT ![t] = @ - 1]
               /\ Goto(t, IF spins[t] = 1 THEN "swap" ELSE "load")
               /\ UNCHANGED state

\* The relaxed load in front of the exchange of the spin loop.
SpinLoad(t) == /\ pc[t] = "load"
               /\ \/ /\ state = UNLOCKED
                     /\ Goto(t, "cas")
                     /\ UNCHANGED <<state, spins>>
                  \/ /\ state # UNLOCKED
                     /\ SpinOnce(t)

\* Mutant: the exchange trusts the load in front of it.
SpinCasBlind(t) == /\ pc[t] = "cas"
                   /\ state' = LOCKED_NO_WAITERS
                   /\ Goto(t, "held")
                   /\ spins' = [spins EXCEPT ![t] = 0]

\* The exchange itself; another thread may have won since the load.
SpinCas(t) == /\ pc[t] = "cas"
              /\ \/ /\ state = UNLOCKED
                    /\ state' = LOCKED_NO_WAITERS
                    /\ Goto(t, "held")
                    /\ spins' = [spins EXCEPT ![t] = 0]
                 \/ /\ state # UNLOCKED
                    /\ SpinOnce(t)

\* Mutant: a thread that wins in the park loop leaves no mark for the others.
SwapUnmarked(t) == /\ pc[t] = "swap"
                   /\ IF state = UNLOCKED
                      THEN state' = LOCKED_NO_WAITERS /\ Goto(t, "held")
                      ELSE state' = LOCKED_HAS_WAITERS /\ Goto(t, "wait")
                   /\ UNCHANGED spins

\* The park loop announces a waiter, and owns the lock if it was free.
Swap(t) == /\ pc[t] = "swap"
           /\ state' = LOCKED_HAS_WAITERS
           /\ Goto(t, IF state = UNLOCKED THEN "held" ELSE "wait")
           /\ UNCHANGED spins

\* Mutant: the thread sleeps without the compare.
ParkBlind(t) == /\ pc[t] = "wait"
                /\ Goto(t, "parked")
                /\ UNCHANGED <<state, spins>>

\* ulock_wait: the kernel parks the thread only while the word still reads
\* LOCKED_HAS_WAITERS, and compares and parks as one step.
Park(t) == /\ pc[t] = "wait"
           /\ Goto(t, IF state = LOCKED_HAS_WAITERS THEN "parked" ELSE "swap")
           /\ UNCHANGED <<state, spins>>

\* ulock_wait may return without a wake.
SpuriousWake(t) == /\ pc[t] = "parked"
                   /\ Goto(t, "swap")
                   /\ UNCHANGED <<state, spins>>

\* Mutant: the release is a store behind the test of the word.
UnlockTestThenStore(t) ==
    /\ pc[t] = "held"
    /\ IF state = LOCKED_HAS_WAITERS
       THEN UNCHANGED state /\ Goto(t, "wake")
       ELSE state' = UNLOCKED /\ Goto(t, "idle")
    /\ UNCHANGED spins

\* unlock, the guard's drop: the swap releases before any wake.
Unlock(t) == /\ pc[t] = "held"
             /\ state' = UNLOCKED
             /\ Goto(t, IF state = LOCKED_HAS_WAITERS THEN "wake" ELSE "idle")
             /\ UNCHANGED spins

\* ulock_wake wakes one parked thread, of the kernel's choosing, if any.
Wake(t) == /\ pc[t] = "wake"
           /\ \/ /\ At("parked") = {}
                 /\ Goto(t, "idle")
              \/ \E u \in At("parked") :
                    pc' = [pc EXCEPT ![t] = "idle", ![u] = "swap"]
           /\ UNCHANGED <<state, spins>>

\* A step a running thread is certain to take.
Step(t) == \/ SpinLoad(t) \/ SpinCas(t) \/ Swap(t) \/ Park(t)
           \/ Unlock(t) \/ Wake(t)

Next == \E t \in Thread : \/ Acquire(t)
                          \/ Contend(t)
                          \/ SpuriousWake(t)
                          \/ Step(t)

Spec == Init /\ [][Next]_vars

\* The scheduler runs every thread that can run; nothing makes a thread ask
\* for the lock, and nothing makes the kernel wake a thread on its own.
FairSpec == Spec /\ \A t \in Thread : WF_vars(Step(t))

-----------------------------------------------------------------------------
\* The word and every thread's place hold values of their kind.
TypeOK == /\ state \in {UNLOCKED, LOCKED_NO_WAITERS, LOCKED_HAS_WAITERS}
          /\ pc \in [Thread -> Location]
          /\ spins \in [Thread -> 0 .. SpinBudget]

\* Two guards never live at once, however fast path, spin path and park path
\* race for the word: Deref and DerefMut rely on it.
MutualExclusion == \A t, u \in Thread : Holds(t) /\ Holds(u) => t = u

\* The word reads UNLOCKED exactly while no guard lives: a waiter that swaps
\* LOCKED_HAS_WAITERS in front of a release cannot undo the release.
WordTellsOwner == (state = UNLOCKED) <=> (At("held") = {})

\* A thread asleep is never forgotten: either the word makes the next unlock
\* wake one, or a wake is under way, or a thread awake in the park loop is
\* about to write LOCKED_HAS_WAITERS again.  A barging thread that finds the
\* word UNLOCKED and stores LOCKED_NO_WAITERS over it must not break this.
NoLostWakeup ==
    At("parked") # {} => \/ state = LOCKED_HAS_WAITERS
                         \/ At("wake") # {}
                         \/ At("swap") # {}

\* Whoever asks, somebody gets the lock: no state of the protocol has every
\* thread waiting for a wake.
SomebodyLocks == (\E t \in Thread : Trying(t)) ~> (\E t \in Thread : Holds(t))

\* lock returns to a thread once the others leave the mutex alone.  (While
\* they keep barging it may not: the mutex promises no fairness.)
LockReturns ==
    \A t \in Thread :
        <>[](\A u \in Thread \ {t} : pc[u] = "idle")
            => [](Trying(t) => <>Holds(t))
=============================================================================
