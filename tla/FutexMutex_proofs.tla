-------------------------- MODULE FutexMutex_proofs --------------------------
(***************************************************************************)
(* Safety of the futex mutex for any set of threads and any spin budget.   *)
(* TypeOK is inductive only beside SpinsLeft (the spin loop counts down    *)
(* and must not pass zero), and MutualExclusion only beside WordTellsOwner *)
(* (a thread enters on what the word alone says).                          *)
(***************************************************************************)
EXTENDS FutexMutex, TLAPS

\* A thread inside the spin loop has a turn left.
SpinsLeft == \A t \in Thread : pc[t] \in {"load", "cas"} => spins[t] > 0

Typed == TypeOK /\ SpinsLeft

\* The spin loop never runs past its budget, whatever the other threads do.
LEMMA TypedAlways == Spec => []Typed
<1>1. Init => Typed
  BY SpinBudgetAssumption
     DEF Init, Typed, TypeOK, SpinsLeft, Location,
         UNLOCKED, LOCKED_NO_WAITERS, LOCKED_HAS_WAITERS
<1>2. Typed /\ [Next]_vars => Typed'
  <2> SUFFICES ASSUME Typed, [Next]_vars PROVE Typed'
    OBVIOUS
  <2> USE SpinBudgetAssumption
          DEF Typed, TypeOK, SpinsLeft, Location, Goto,
              UNLOCKED, LOCKED_NO_WAITERS, LOCKED_HAS_WAITERS
  <2>1. CASE UNCHANGED vars
    BY <2>1 DEF vars
  <2>2. ASSUME NEW t \in Thread, Acquire(t) PROVE Typed'
    BY <2>2 DEF Acquire
  <2>3. ASSUME NEW t \in Thread, Contend(t) PROVE Typed'
    BY <2>3 DEF Contend
  <2>4. ASSUME NEW t \in Thread, SpuriousWake(t) PROVE Typed'
    BY <2>4 DEF SpuriousWake
  <2>5. ASSUME NEW t \in Thread, SpinLoad(t) PROVE Typed'
    <3>1. CASE state = UNLOCKED
      BY <2>5, <3>1 DEF SpinLoad
    <3>2. CASE state # UNLOCKED
      BY <2>5, <3>2 DEF SpinLoad, SpinOnce
    <3> QED
      BY <3>1, <3>2
  <2>6. ASSUME NEW t \in Thread, SpinCas(t) PROVE Typed'
    <3>1. CASE state = UNLOCKED
      BY <2>6, <3>1 DEF SpinCas
    <3>2. CASE state # UNLOCKED
      BY <2>6, <3>2 DEF SpinCas, SpinOnce
    <3> QED
      BY <3>1, <3>2
  <2>7. ASSUME NEW t \in Thread, Swap(t) PROVE Typed'
    BY <2>7 DEF Swap
  <2>8. ASSUME NEW t \in Thread, Park(t) PROVE Typed'
    BY <2>8 DEF Park
  <2>9. ASSUME NEW t \in Thread, Unlock(t) PROVE Typed'
    BY <2>9 DEF Unlock
  <2>10. ASSUME NEW t \in Thread, Wake(t) PROVE Typed'
    BY <2>10 DEF Wake, At
  <2> QED
    BY <2>1, <2>2, <2>3, <2>4, <2>5, <2>6, <2>7, <2>8, <2>9, <2>10 DEF Next, Step
<1> QED
  BY <1>1, <1>2, PTL DEF Spec

\* The word and every thread's place keep values of their kind: no thread
\* counts its spins past the budget.
THEOREM TypeCorrect == Spec => []TypeOK
<1>1. Typed => TypeOK
  BY DEF Typed
<1> QED
  BY <1>1, TypedAlways, PTL

-----------------------------------------------------------------------------
\* The inductive invariant: who owns the guard, and what the word says of it.
Safe == MutualExclusion /\ WordTellsOwner

\* lock, try_lock and unlock keep both, which neither does alone.
LEMMA SafeAlways == Spec => []Safe
<1>1. Init => Safe
  BY DEF Init, Safe, MutualExclusion, WordTellsOwner, Holds, At
<1>2. TypeOK /\ Safe /\ [Next]_vars => Safe'
  <2> SUFFICES ASSUME TypeOK, Safe, [Next]_vars PROVE Safe'
    OBVIOUS
  <2> USE DEF TypeOK, Safe, MutualExclusion, WordTellsOwner, Holds, At, Goto,
              UNLOCKED, LOCKED_NO_WAITERS, LOCKED_HAS_WAITERS
  <2>1. CASE UNCHANGED vars
    BY <2>1 DEF vars
  <2>2. ASSUME NEW t \in Thread, Acquire(t) PROVE Safe'
    BY <2>2 DEF Acquire
  <2>3. ASSUME NEW t \in Thread, Contend(t) PROVE Safe'
    BY <2>3 DEF Contend
  <2>4. ASSUME NEW t \in Thread, SpuriousWake(t) PROVE Safe'
    BY <2>4 DEF SpuriousWake
  <2>5. ASSUME NEW t \in Thread, SpinLoad(t) PROVE Safe'
    BY <2>5 DEF SpinLoad, SpinOnce
  <2>6. ASSUME NEW t \in Thread, SpinCas(t) PROVE Safe'
    BY <2>6 DEF SpinCas, SpinOnce
  <2>7. ASSUME NEW t \in Thread, Swap(t) PROVE Safe'
    BY <2>7 DEF Swap
  <2>8. ASSUME NEW t \in Thread, Park(t) PROVE Safe'
    BY <2>8 DEF Park
  <2>9. ASSUME NEW t \in Thread, Unlock(t) PROVE Safe'
    BY <2>9 DEF Unlock
  <2>10. ASSUME NEW t \in Thread, Wake(t) PROVE Safe'
    BY <2>10 DEF Wake
  <2> QED
    BY <2>1, <2>2, <2>3, <2>4, <2>5, <2>6, <2>7, <2>8, <2>9, <2>10 DEF Next, Step
<1> QED
  BY <1>1, <1>2, TypeCorrect, PTL DEF Spec

\* lock, try_lock and unlock hand out one guard at a time.
THEOREM Exclusion == Spec => []MutualExclusion
<1>1. Safe => MutualExclusion
  BY DEF Safe
<1> QED
  BY <1>1, SafeAlways, PTL

\* The word reads UNLOCKED exactly between two guards.
THEOREM WordCorrect == Spec => []WordTellsOwner
<1>1. Safe => WordTellsOwner
  BY DEF Safe
<1> QED
  BY <1>1, SafeAlways, PTL

-----------------------------------------------------------------------------
\* A thread asleep in ulock_wait always has a wake coming: barging threads,
\* spurious wakes and the gap between unlock's swap and its wake included.
THEOREM WakeupKept == Spec => []NoLostWakeup
<1>1. Init => NoLostWakeup
  BY DEF Init, NoLostWakeup, At
<1>2. TypeOK /\ NoLostWakeup /\ [Next]_vars => NoLostWakeup'
  <2> SUFFICES ASSUME TypeOK, NoLostWakeup, [Next]_vars PROVE NoLostWakeup'
    OBVIOUS
  <2> USE DEF TypeOK, NoLostWakeup, At, Goto,
              UNLOCKED, LOCKED_NO_WAITERS, LOCKED_HAS_WAITERS
  <2>1. CASE UNCHANGED vars
    BY <2>1 DEF vars
  <2>2. ASSUME NEW t \in Thread, Acquire(t) PROVE NoLostWakeup'
    BY <2>2 DEF Acquire
  <2>3. ASSUME NEW t \in Thread, Contend(t) PROVE NoLostWakeup'
    BY <2>3 DEF Contend
  <2>4. ASSUME NEW t \in Thread, SpuriousWake(t) PROVE NoLostWakeup'
    BY <2>4 DEF SpuriousWake
  <2>5. ASSUME NEW t \in Thread, SpinLoad(t) PROVE NoLostWakeup'
    BY <2>5 DEF SpinLoad, SpinOnce
  <2>6. ASSUME NEW t \in Thread, SpinCas(t) PROVE NoLostWakeup'
    BY <2>6 DEF SpinCas, SpinOnce
  <2>7. ASSUME NEW t \in Thread, Swap(t) PROVE NoLostWakeup'
    BY <2>7 DEF Swap
  <2>8. ASSUME NEW t \in Thread, Park(t) PROVE NoLostWakeup'
    BY <2>8 DEF Park
  <2>9. ASSUME NEW t \in Thread, Unlock(t) PROVE NoLostWakeup'
    BY <2>9 DEF Unlock
  <2>10. ASSUME NEW t \in Thread, Wake(t) PROVE NoLostWakeup'
    BY <2>10 DEF Wake
  <2> QED
    BY <2>1, <2>2, <2>3, <2>4, <2>5, <2>6, <2>7, <2>8, <2>9, <2>10 DEF Next, Step
<1> QED
  BY <1>1, <1>2, TypeCorrect, PTL DEF Spec
=============================================================================
