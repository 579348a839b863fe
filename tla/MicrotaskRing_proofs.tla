------------------------ MODULE MicrotaskRing_proofs ------------------------
(***************************************************************************)
(* The ring is a queue, for every first capacity, set of jobs and bound.   *)
(* The lemmas are about one push; the invariant is TypeOK with             *)
(* PendingWritten, each of which needs the other: what a pop runs is a job *)
(* because no pending slot is junk, and a slot exists because the pending  *)
(* counts fit the ring.                                                    *)
(***************************************************************************)
EXTENDS MicrotaskRing, SequenceTheorems, TLAPS

\* A count's slot is one of the ring's.
LEMMA SlotRange == ASSUME NEW a \in Nat, NEW c \in Nat \ {0}
                   PROVE  Slot(a, c) \in 0 .. c - 1
  BY DEF Slot

\* A count that exceeds a multiple of the capacity by less than the capacity
\* has the excess for its slot.
LEMMA SlotUnique ==
    ASSUME NEW a \in Nat, NEW c \in Nat \ {0}, NEW q \in Nat, NEW r \in 0 .. c - 1,
           a = q * c + r
    PROVE  Slot(a, c) = r
  BY DEF Slot

LEMMA SlotQuotient ==
    ASSUME NEW a \in Nat, NEW c \in Nat \ {0}
    PROVE  a \div c \in Nat /\ a = (a \div c) * c + Slot(a, c)
  BY DEF Slot

\* At most one turn of the ring on, the slot is k further, or wraps once.
LEMMA SlotAdd ==
    ASSUME NEW a \in Nat, NEW c \in Nat \ {0}, NEW k \in 0 .. c
    PROVE  Slot(a + k, c) = IF Slot(a, c) + k < c THEN Slot(a, c) + k
                                                  ELSE Slot(a, c) + k - c
<1> DEFINE q == a \div c
           r == Slot(a, c)
<1>1. q \in Nat /\ r \in 0 .. c - 1 /\ a = q * c + r
  BY SlotQuotient, SlotRange
<1> HIDE DEF q, r
<1>2. CASE r + k < c
  <2>1. a + k = q * c + (r + k) /\ r + k \in 0 .. c - 1 /\ a + k \in Nat
    BY <1>1, <1>2
  <2>2. Slot(a + k, c) = r + k
    BY <1>1, <2>1, SlotUnique
  <2> QED
    BY <1>2, <2>2 DEF r
<1>3. CASE ~(r + k < c)
  <2>1. q + 1 \in Nat /\ (q + 1) * c = q * c + c
    BY <1>1
  <2> DEFINE s == r + k - c
  <2>2. a + k = (q + 1) * c + s /\ s \in 0 .. c - 1 /\ a + k \in Nat
    BY <1>1, <1>3, <2>1
  <2> HIDE DEF s
  <2>3. Slot(a + k, c) = s
    BY <2>1, <2>2, SlotUnique
  <2> QED
    BY <1>3, <2>3 DEF r, s
<1> QED
  BY <1>2, <1>3

\* Two pending counts never share a slot.
LEMMA SlotsApart ==
    ASSUME NEW a \in Nat, NEW c \in Nat \ {0}, NEW k \in 0 .. c - 1, NEW n \in 0 .. c - 1,
           k # n
    PROVE  Slot(a + k, c) # Slot(a + n, c)
<1>1. Slot(a, c) \in 0 .. c - 1
  BY SlotRange
<1>2. Slot(a + k, c) = IF Slot(a, c) + k < c THEN Slot(a, c) + k ELSE Slot(a, c) + k - c
  BY SlotAdd
<1>3. Slot(a + n, c) = IF Slot(a, c) + n < c THEN Slot(a, c) + n ELSE Slot(a, c) + n - c
  BY SlotAdd
<1> QED
  BY <1>1, <1>2, <1>3

-----------------------------------------------------------------------------
(* One push.                                                               *)

\* The part of TypeOK that is about the ring.  An unallocated ring has not
\* been popped from: the first allocation does not touch the counts.
RingOK == /\ cap \in Nat
          /\ head \in Nat /\ tail \in Nat
          /\ head <= tail /\ tail - head <= cap
          /\ cap = 0 => head = 0
          /\ buf \in [0 .. cap - 1 -> Entry \cup {Junk}]

\* A growth keeps the pending jobs, from the first, and puts e behind them.
LEMMA GrowKeeps ==
    ASSUME NEW e \in Entry, RingOK, tail - head = cap, Grow(e)
    PROVE  /\ RingOK'
           /\ tail' - head' = tail - head + 1
           /\ \A i \in 1 .. tail - head : Contents'[i] = Contents[i]
           /\ Contents'[tail - head + 1] = e
<1> USE CapAssumption DEF RingOK
<1>1. CASE cap = 0
  <2>1. /\ head' = 0 /\ tail' = 1 /\ cap' = InitialCap
        /\ buf' = [i \in 0 .. InitialCap - 1 |->
                     IF i = 0 THEN e ELSE IF i < 0 THEN buf[i]
                     ELSE IF i < 0 THEN buf[i - 0] ELSE Junk]
    BY <1>1 DEF Grow
  <2>2. Slot(0, InitialCap) = 0
    BY SlotUnique, 0 = 0 * InitialCap + 0
  <2>3. tail - head = 0 /\ tail' - head' = 1
    BY <1>1, <2>1
  <2>4. RingOK'
    BY <2>1
  <2>5. Contents'[1] = buf'[0]
    BY <2>1, <2>2, <2>3 DEF Contents
  <2> QED
    BY <2>1, <2>3, <2>4, <2>5
<1>2. CASE cap # 0
  <2> DEFINE h == Slot(head, cap)
  <2>1. h \in 0 .. cap - 1
    BY <1>2, SlotRange
  <2>2. /\ head' = h /\ tail' = h + cap + 1 /\ cap' = 2 * cap
        /\ buf' = [i \in 0 .. 2 * cap - 1 |->
                     IF i = h + cap THEN e ELSE IF i < cap THEN buf[i]
                     ELSE IF i < cap + h THEN buf[i - cap] ELSE Junk]
    BY <1>2 DEF Grow
  <2>3. ASSUME NEW k \in 0 .. cap - 1
        PROVE  Slot(head + k, cap) = IF h + k < cap THEN h + k ELSE h + k - cap
    BY <1>2, SlotAdd
  <2> HIDE DEF h
  <2>4. ASSUME NEW n \in 0 .. 2 * cap - 1 PROVE Slot(n, 2 * cap) = n
    <3>1. n = 0 * (2 * cap) + n
      OBVIOUS
    <3> QED
      BY <1>2, <3>1, SlotUnique
  <2>5. RingOK' /\ tail' - head' = tail - head + 1
    BY <1>2, <2>1, <2>2
  <2>6. ASSUME NEW i \in 1 .. cap + 1
        PROVE  Contents'[i] = buf'[h + i - 1]
    <3>1. /\ h + i - 1 \in 0 .. 2 * cap - 1
          /\ tail' - head' = cap + 1
      BY <1>2, <2>1, <2>2
    <3>2. Contents'[i] = buf'[Slot(h + i - 1, 2 * cap)]
      BY <1>2, <2>1, <2>2, <3>1 DEF Contents
    <3> QED
      BY <2>4, <3>1, <3>2
  <2>7. ASSUME NEW i \in 1 .. cap PROVE Contents[i] = buf[Slot(head + (i - 1), cap)]
    <3>1. head + i - 1 = head + (i - 1) /\ i \in 1 .. tail - head
      OBVIOUS
    <3> QED
      BY <3>1 DEF Contents
  <2>8. ASSUME NEW i \in 1 .. cap PROVE Contents'[i] = Contents[i]
    <3> DEFINE k == i - 1
    <3>1. k \in 0 .. cap - 1
      BY <1>2
    <3>2. h + i - 1 = h + k /\ h + k \in 0 .. 2 * cap - 1
      BY <1>2, <2>1, <3>1
    <3>3. Contents[i] = buf[Slot(head + k, cap)] /\ Contents'[i] = buf'[h + k]
      BY <1>2, <2>6, <2>7, <3>2
    <3> HIDE DEF k
    <3>4. CASE h + k < cap
      <4>1. Slot(head + k, cap) = h + k
        BY <2>3, <3>1, <3>4
      <4>2. buf'[h + k] = buf[h + k]
        BY <2>1, <2>2, <3>1, <3>2, <3>4
      <4> QED
        BY <3>3, <4>1, <4>2
    <3>5. CASE ~(h + k < cap)
      <4>1. Slot(head + k, cap) = h + k - cap
        BY <2>3, <3>1, <3>5
      <4>2. buf'[h + k] = buf[h + k - cap]
        BY <1>2, <2>1, <2>2, <3>1, <3>2, <3>5
      <4> QED
        BY <3>3, <4>1, <4>2
    <3> QED
      BY <3>4, <3>5
  <2>9. Contents'[cap + 1] = e
    BY <1>2, <2>1, <2>2, <2>6
  <2> QED
    BY <2>5, <2>8, <2>9
<1> QED
  BY <1>1, <1>2

\* So does a push that finds room.
LEMMA PushKeeps ==
    ASSUME NEW e \in Entry, RingOK, Push(e)
    PROVE  /\ RingOK'
           /\ tail' - head' = tail - head + 1
           /\ \A i \in 1 .. tail - head : Contents'[i] = Contents[i]
           /\ Contents'[tail - head + 1] = e
<1>1. CASE tail - head = cap
  BY <1>1, GrowKeeps DEF Push
<1>2. CASE tail - head # cap
  <2> USE DEF RingOK
  <2> DEFINE n == tail - head
  <2>1. cap \in Nat \ {0} /\ n \in 0 .. cap - 1 /\ tail = head + n
    BY <1>2
  <2>2. /\ buf' = [buf EXCEPT ![Slot(head + n, cap)] = e]
        /\ tail' = tail + 1 /\ head' = head /\ cap' = cap
    BY <1>2, <2>1 DEF Push
  <2>3. Slot(head + n, cap) \in 0 .. cap - 1
    BY <2>1, SlotRange
  <2>4. RingOK' /\ tail' - head' = n + 1
    BY <2>1, <2>2, <2>3
  <2>5. ASSUME NEW k \in 0 .. n - 1 PROVE buf'[Slot(head + k, cap)] = buf[Slot(head + k, cap)]
    <3>1. k \in 0 .. cap - 1 /\ k # n
      BY <2>1
    <3>2. Slot(head + k, cap) # Slot(head + n, cap)
      BY <2>1, <3>1, SlotsApart
    <3> QED
      BY <2>1, <2>2, <3>1, <3>2, SlotRange
  <2>6. buf'[Slot(head + n, cap)] = e
    BY <2>2, <2>3
  <2>7. ASSUME NEW i \in 1 .. n + 1 PROVE Contents'[i] = buf'[Slot(head + (i - 1), cap)]
    <3>1. head + i - 1 = head + (i - 1)
      OBVIOUS
    <3> QED
      BY <2>1, <2>2, <3>1 DEF Contents
  <2>8. ASSUME NEW i \in 1 .. n PROVE Contents[i] = buf[Slot(head + (i - 1), cap)]
    <3>1. head + i - 1 = head + (i - 1)
      OBVIOUS
    <3> QED
      BY <3>1 DEF Contents
  <2>9. ASSUME NEW i \in 1 .. n PROVE Contents'[i] = Contents[i]
    <3>1. i - 1 \in 0 .. n - 1 /\ i \in 1 .. n + 1
      BY <2>1
    <3> QED
      BY <2>5, <2>7, <2>8, <3>1
  <2>10. Contents'[n + 1] = e
    <3>1. n + 1 \in 1 .. n + 1 /\ (n + 1) - 1 = n
      BY <2>1
    <3> QED
      BY <2>6, <2>7, <3>1
  <2> QED
    BY <2>4, <2>9, <2>10
<1> QED
  BY <1>1, <1>2

\* A push puts e behind the pending jobs, growth or not.
LEMMA PushAppends ==
    ASSUME NEW e \in Entry, RingOK, PendingWritten, Push(e)
    PROVE  RingOK' /\ PendingWritten' /\ Contents' = Append(Contents, e)
<1> DEFINE n == tail - head
<1>1. n \in Nat /\ tail' - head' = n + 1
  BY PushKeeps DEF RingOK
<1>2. /\ \A i \in 1 .. n : Contents'[i] = Contents[i]
      /\ Contents'[n + 1] = e
  BY PushKeeps
<1>3. Contents \in Seq(Entry \cup {Junk}) /\ Len(Contents) = n
  <2>1. \A i \in 1 .. n : buf[Slot(head + i - 1, cap)] \in Entry \cup {Junk}
    <3> SUFFICES ASSUME NEW i \in 1 .. n
                 PROVE  buf[Slot(head + i - 1, cap)] \in Entry \cup {Junk}
      OBVIOUS
    <3>1. cap \in Nat \ {0} /\ head + i - 1 \in Nat
      BY <1>1 DEF RingOK
    <3> QED
      BY <3>1, SlotRange DEF RingOK
  <2> QED
    BY <1>1, <2>1 DEF Contents
<1>4. Contents' \in Seq(Entry \cup {Junk}) /\ Len(Contents') = n + 1
  <2>1. \A i \in 1 .. n + 1 : Contents'[i] \in Entry \cup {Junk}
    BY <1>1, <1>2, <1>3
  <2>2. Contents' = [i \in 1 .. n + 1 |-> Contents'[i]]
    BY <1>1 DEF Contents
  <2> QED
    BY <1>1, <2>1, <2>2
<1>5. Contents' = Append(Contents, e)
  <2>1. /\ Append(Contents, e) \in Seq(Entry \cup {Junk})
        /\ Len(Append(Contents, e)) = n + 1
        /\ \A i \in 1 .. n : Append(Contents, e)[i] = Contents[i]
        /\ Append(Contents, e)[n + 1] = e
    BY <1>3, AppendProperties
  <2>2. \A i \in 1 .. n + 1 : Contents'[i] = Append(Contents, e)[i]
    BY <1>1, <1>2, <2>1
  <2> QED
    BY <1>4, <2>1, <2>2, SeqEqual
<1>6. PendingWritten'
  <2>1. e # Junk
    BY TaskAssumption DEF Entry, Mark, Landing, Junk
  <2> QED
    BY <1>1, <1>2, <2>1 DEF PendingWritten
<1> QED
  BY PushKeeps, <1>5, <1>6

\* What a pop runs is a job of the program or of the waits; the rest stays.
LEMMA PopTakes ==
    ASSUME RingOK, PendingWritten, ~Empty,
           job' = buf[Slot(head, cap)], head' = head + 1, UNCHANGED <<buf, cap, tail>>
    PROVE  /\ RingOK' /\ PendingWritten'
           /\ job' \in Entry
           /\ Contents # <<>> /\ Contents' = Tail(Contents) /\ job' = Head(Contents)
<1> DEFINE n == tail - head
<1>1. n \in Nat \ {0} /\ cap \in Nat \ {0} /\ head \in Nat
  BY DEF RingOK, Empty
<1>2. \A i \in 1 .. n : buf[Slot(head + i - 1, cap)] \in Entry \cup {Junk}
  BY <1>1, SlotRange DEF RingOK
<1>3. Contents \in Seq(Entry \cup {Junk}) /\ Len(Contents) = n
  BY <1>1, <1>2 DEF Contents
<1>4. Contents[1] = job'
  <2>1. head + 1 - 1 = head /\ 1 \in 1 .. n
    BY <1>1
  <2> QED
    BY <2>1 DEF Contents
<1>5. job' \in Entry
  BY <1>1, <1>3, <1>4 DEF PendingWritten
<1>6. tail' - head' = n - 1 /\ RingOK'
  BY <1>1 DEF RingOK
<1>7. ASSUME NEW i \in 1 .. n - 1 PROVE Contents'[i] = Contents[i + 1]
  <2>1. head' + i - 1 = head + (i + 1) - 1 /\ i + 1 \in 1 .. n
    BY <1>1
  <2> QED
    BY <1>6, <2>1 DEF Contents
<1>8. PendingWritten'
  BY <1>1, <1>6, <1>7 DEF PendingWritten
<1>9. Contents' = Tail(Contents)
  <2>1. /\ Tail(Contents) \in Seq(Entry \cup {Junk})
        /\ Len(Tail(Contents)) = n - 1
        /\ \A i \in 1 .. n - 1 : Tail(Contents)[i] = Contents[i + 1]
    BY <1>1, <1>3, HeadTailProperties
  <2>2. Contents' = [i \in 1 .. n - 1 |-> Contents'[i]]
    BY <1>6 DEF Contents
  <2>3. \A i \in 1 .. n - 1 : Contents'[i] \in Entry \cup {Junk}
    BY <1>1, <1>3, <1>7
  <2>4. Contents' \in Seq(Entry \cup {Junk}) /\ Len(Contents') = n - 1
    BY <1>1, <2>2, <2>3
  <2> QED
    BY <1>7, <2>1, <2>4, SeqEqual
<1>10. Contents # <<>> /\ job' = Head(Contents)
  BY <1>1, <1>3, <1>4
<1> QED
  BY <1>5, <1>6, <1>8, <1>9, <1>10

\* Counts that restart are those of a ring without jobs.
LEMMA RestartKeeps ==
    ASSUME RingOK, Empty, Restart
    PROVE  RingOK' /\ PendingWritten' /\ Contents' = Contents
<1>1. 1 .. tail - head = {} /\ 1 .. tail' - head' = {}
  BY DEF RingOK, Empty, Restart
<1>2. RingOK'
  BY DEF RingOK, Restart
<1> QED
  BY <1>1, <1>2 DEF PendingWritten, Contents
-----------------------------------------------------------------------------
(* The specification.                                                      *)

\* The part of TypeOK that is about what runs.
CodeOK == /\ job \in Entry \cup {Host, Nobody}
          /\ at \in Place
          /\ set \subseteq {Mark, Landing}
          /\ await \in Awaited
          /\ kept \in BOOLEAN /\ hook \in BOOLEAN

RingInv == RingOK /\ PendingWritten

Inv == RingInv /\ CodeOK

\* A step that does not touch the ring.
LEMMA RingStays ==
    ASSUME RingInv, UNCHANGED ring
    PROVE  RingInv' /\ Contents' = Contents
  BY DEF RingInv, RingOK, PendingWritten, Contents, ring

\* A step that pushes.
LEMMA RingPushed ==
    ASSUME NEW e \in Entry, RingInv, Push(e)
    PROVE  RingInv' /\ RingStep
  BY PushAppends DEF RingInv, RingStep

\* A step that restarts the counts of the empty ring.
LEMMA RingRestarted ==
    ASSUME RingInv, Empty, Restart
    PROVE  RingInv' /\ Contents' = Contents
  BY RestartKeeps DEF RingInv

\* What an await of a settled value does to the ring.
LEMMA RingYields ==
    ASSUME RingInv, Yield
    PROVE  RingInv' /\ RingStep
<1>1. CASE Empty
  BY <1>1, RingRestarted DEF Yield, RingStep
<1>2. CASE ~Empty
  BY <1>2, RingPushed DEF Yield, Entry
<1> QED
  BY <1>1, <1>2

\* Every step keeps the invariant and acts on the ring as on a queue.
LEMMA StepCorrect == Inv /\ [Next]_vars => Inv' /\ [RingStep]_vars
<1> SUFFICES ASSUME Inv, [Next]_vars PROVE Inv' /\ [RingStep]_vars
  OBVIOUS
<1>1. CASE UNCHANGED vars
  <2>1. CodeOK'
    BY <1>1 DEF vars, Inv, CodeOK
  <2> QED
    BY <1>1, <2>1, RingStays DEF vars, ring, Inv
<1> USE DEF Inv
<1>2. ASSUME NEW t \in Task, Enqueue(t) PROVE Inv' /\ RingStep
  <2>1. RingInv' /\ RingStep
    BY <1>2, RingPushed DEF Enqueue, Entry
  <2> QED
    BY <1>2, <2>1 DEF Enqueue, CodeOK
<1>3. CASE Keep
  BY <1>3, RingStays DEF Keep, ring, CodeOK, RingStep
<1>4. CASE SettleParked
  <2>1. RingInv' /\ RingStep
    BY <1>4, RingPushed DEF SettleParked, Entry
  <2> QED
    BY <1>4, <2>1 DEF SettleParked, CodeOK, Awaited
<1>5. CASE SettleCall
  BY <1>5, RingStays DEF SettleCall, ring, CodeOK, RingStep, Awaited
<1>6. CASE SettleUnparked
  BY <1>6, RingStays DEF SettleUnparked, ring, CodeOK, RingStep, Awaited
<1>7. CASE AwaitSettled
  <2>1. RingInv' /\ RingStep
    BY <1>7, RingYields DEF AwaitSettled
  <2>2. CodeOK'
    BY <1>7 DEF AwaitSettled, Yield, ClearKept, CodeOK, Place
  <2> QED
    BY <2>1, <2>2
<1>8. CASE AwaitPromise
  BY <1>8, RingStays DEF AwaitPromise, ClearKept, ring, CodeOK, RingStep, Awaited, Place
<1>9. CASE AwaitCall
  BY <1>9, RingStays DEF AwaitCall, ClearKept, ring, CodeOK, RingStep, Awaited, Place
<1>10. CASE RunHost
  BY <1>10, RingStays DEF RunHost, ring, CodeOK, RingStep
<1>11. CASE Finish
  BY <1>11, RingStays DEF Finish, ring, CodeOK, RingStep, Place
<1>12. CASE Pop
  <2>1. RingInv' /\ RingStep /\ job' \in Entry
    BY <1>12, PopTakes DEF Pop, RingInv, RingStep
  <2> QED
    BY <1>12, <2>1 DEF Pop, CodeOK
<1>13. CASE EndJob
  <2>1. RingInv' /\ Contents' = Contents
    BY <1>13, RingStays, RingRestarted DEF EndJob, DrainEnd
  <2>2. set' \subseteq {Mark, Landing}
    BY <1>13 DEF EndJob, CodeOK, Entry
  <2>3. CodeOK'
    BY <1>13, <2>2 DEF EndJob, DrainEnd, ClearKept, CodeOK, Place
  <2> QED
    BY <2>1, <2>3 DEF RingStep
<1>14. CASE Reached
  <2>1. RingInv' /\ Contents' = Contents
    BY <1>14, RingStays, RingRestarted DEF Reached, RestartIfIdle
  <2> QED
    BY <1>14, <2>1 DEF Reached, CodeOK, Place, RingStep
<1>15. CASE RunDry
  <2>1. RingInv' /\ Contents' = Contents
    BY <1>15, RingRestarted DEF RunDry
  <2> QED
    BY <1>15, <2>1 DEF RunDry, CodeOK, Place, RingStep
<1>16. CASE CallSettled
  <2>1. RingInv' /\ RingStep
    BY <1>16, RingPushed, RingRestarted DEF CallSettled, Entry, RingStep
  <2>2. CodeOK'
    BY <1>16 DEF CallSettled, ClearKept, CodeOK, Awaited, Place
  <2> QED
    BY <2>1, <2>2
<1>17. CASE EnterDrain
  BY <1>17, RingStays DEF EnterDrain, ClearKept, ring, CodeOK, RingStep, Place
<1>18. CASE HostReturn
  BY <1>18, RingStays DEF HostReturn, ring, CodeOK, RingStep, Place
<1>19. CASE AwaitAgain
  <2>1. RingInv' /\ RingStep
    BY <1>19, RingStays, RingYields DEF AwaitAgain, ring, RingStep
  <2>2. CodeOK'
    BY <1>19 DEF AwaitAgain, Yield, ClearKept, CodeOK, Awaited, Place
  <2> QED
    BY <2>1, <2>2
<1>20. CASE Cancel
  BY <1>20, RingStays DEF Cancel, ring, CodeOK, RingStep, Awaited, Place
<1>21. CASE HostEnd
  BY <1>21, RingStays DEF HostEnd, ring, CodeOK, RingStep, Place
<1>22. CASE Quit
  BY <1>22, RingStays DEF Quit, ring, CodeOK, RingStep, Place
<1>23. CASE Exited
  BY <1>1, <1>23 DEF Exited
<1> QED
  BY <1>1, <1>2, <1>3, <1>4, <1>5, <1>6, <1>7, <1>8, <1>9, <1>10, <1>11, <1>12, <1>13,
     <1>14, <1>15, <1>16, <1>17, <1>18, <1>19, <1>20, <1>21, <1>22, <1>23
     DEF Next, Progress

LEMMA InitCorrect == Init => Inv
<1> SUFFICES ASSUME Init PROVE Inv
  OBVIOUS
<1>1. buf \in [0 .. cap - 1 -> Entry \cup {Junk}]
  <2>1. 0 .. cap - 1 = {} /\ buf = [i \in {} |-> Junk]
    BY DEF Init
  <2> QED
    BY <2>1
<1>2. RingOK
  BY <1>1 DEF Init, RingOK
<1>3. PendingWritten
  BY DEF Init, PendingWritten
<1>4. CodeOK
  BY DEF Init, CodeOK, Place, Awaited
<1> QED
  BY <1>2, <1>3, <1>4 DEF Inv, RingInv

LEMMA InvAlways == Spec => []Inv
  BY InitCorrect, StepCorrect, PTL DEF Spec

\* The counts fit the buffer and the code's own state keeps its kind, in
\* every state of every program.
THEOREM TypeCorrect == Spec => []TypeOK
<1>1. Inv => TypeOK
  BY DEF Inv, RingInv, RingOK, CodeOK, TypeOK
<1> QED
  BY <1>1, InvAlways, PTL

\* Every pending slot holds a job: no pop reads one nothing was pushed to.
THEOREM RingCorrect == Spec => []PendingWritten
<1>1. Inv => PendingWritten
  BY DEF Inv, RingInv
<1> QED
  BY <1>1, InvAlways, PTL

\* Jobs leave the ring in the order they entered it, each to run, through any
\* number of growths, wraps and restarts.
THEOREM RingKeepsOrder == Spec => RingIsQueue
  BY InitCorrect, StepCorrect, PTL DEF Spec, RingIsQueue

-----------------------------------------------------------------------------
\* What is kept is kept by code that may still run, or by code that just has,
\* in a place whose way to the next job leads through clear_kept_objects; and
\* that call finds its hook installed.
KeptInv == kept => /\ hook
                   /\ \/ job \in Task \cup {Host}
                      \/ /\ job = Nobody
                         /\ at \in {"body", "exit", "again", "done"}

KeptStep == Running' # Running /\ Running' # Nobody => ~kept'

LEMMA KeptKeeps == Inv /\ KeptInv /\ [Next]_vars => KeptInv' /\ [KeptStep]_vars
<1> SUFFICES ASSUME CodeOK, KeptInv, [Next]_vars PROVE KeptInv' /\ KeptStep
  BY DEF Inv
<1> USE TaskAssumption DEF CodeOK, KeptInv, KeptStep, Running, Watched
<1>1. CASE UNCHANGED vars
  BY <1>1 DEF vars
<1>2. ASSUME NEW t \in Task, Enqueue(t) PROVE KeptInv' /\ KeptStep
  BY <1>2 DEF Enqueue
<1>3. CASE Keep
  BY <1>3 DEF Keep, Active
<1>4. CASE SettleParked
  BY <1>4 DEF SettleParked
<1>5. CASE SettleCall
  BY <1>5 DEF SettleCall
<1>6. CASE SettleUnparked
  BY <1>6 DEF SettleUnparked
<1>7. CASE AwaitSettled
  BY <1>7 DEF AwaitSettled, ClearKept
<1>8. CASE AwaitPromise
  BY <1>8 DEF AwaitPromise, ClearKept
<1>9. CASE AwaitCall
  BY <1>9 DEF AwaitCall, ClearKept
<1>10. CASE RunHost
  BY <1>10 DEF RunHost, Host, Nobody
<1>11. CASE Finish
  BY <1>11 DEF Finish, InBody
<1>12. CASE Pop
  BY <1>12 DEF Pop, Nobody, Host
<1>13. CASE EndJob
  BY <1>13 DEF EndJob, ClearKept
<1>14. CASE Reached
  BY <1>14 DEF Reached
<1>15. CASE RunDry
  BY <1>15 DEF RunDry, Nobody, Host
<1>16. CASE CallSettled
  BY <1>16 DEF CallSettled, ClearKept, Nobody, Host
<1>17. CASE EnterDrain
  BY <1>17 DEF EnterDrain, ClearKept
<1>18. CASE HostReturn
  BY <1>18 DEF HostReturn
<1>19. CASE AwaitAgain
  BY <1>19 DEF AwaitAgain, ClearKept
<1>20. CASE Cancel
  BY <1>20 DEF Cancel
<1>21. CASE HostEnd
  BY <1>21 DEF HostEnd
<1>22. CASE Quit
  BY <1>22 DEF Quit
<1>23. CASE Exited
  BY <1>1, <1>23 DEF Exited
<1> QED
  BY <1>1, <1>2, <1>3, <1>4, <1>5, <1>6, <1>7, <1>8, <1>9, <1>10, <1>11, <1>12, <1>13,
     <1>14, <1>15, <1>16, <1>17, <1>18, <1>19, <1>20, <1>21, <1>22, <1>23
     DEF Next, Progress

\* What one job keeps alive is let go of before the next starts, at every
\* place a job may start from: an await of any kind, the exit's drain and the
\* host jobs between.
THEOREM KeptUntilJobEnds == Spec => NothingKeptAcrossJobs
<1>1. Init => KeptInv
  BY DEF Init, KeptInv
<1> QED
  BY <1>1, KeptKeeps, InvAlways, PTL DEF Spec, NothingKeptAcrossJobs, KeptStep

-----------------------------------------------------------------------------
(***************************************************************************)
(* The waits of the module body are the queue of the language, but for the *)
(* one step of a host job.  The invariant says, for each loop, what the    *)
(* body waits for and where the one entry is that ends the wait: in the    *)
(* ring, running, or in the watched byte.                                  *)
(***************************************************************************)

\* The entries of c are jobs of the program, all of them or all but one e.
Tasks(c) == \A i \in DOMAIN c : c[i] \in Task
TasksAnd(c, e) == \E i \in DOMAIN c : c[i] = e /\ \A k \in DOMAIN c \ {i} : c[k] \in Task

\* Nothing of a wait is left over.
NoWait == Tasks(Contents) /\ job \notin {Mark, Landing} /\ set = {}

\* One e ends the wait.
OneWait(e) ==
    \/ TasksAnd(Contents, e) /\ job \notin {Mark, Landing} /\ set = {}
    \/ Tasks(Contents) /\ job = e /\ set = {}
    \/ Tasks(Contents) /\ job = Nobody /\ set = {e}

WaitInv ==
    /\ job \in Entry => at \in {"mark", "ready", "byte", "drain"}
    /\ job = Host => at \in {"dry", "host"}
    /\ at = "mark" => await = "none" /\ OneWait(Mark)
    /\ at = "ready" => \/ await = "promise" /\ NoWait
                       \/ await = "none" /\ OneWait(Landing)
    /\ at \notin {"mark", "ready"} => NoWait
    /\ at = "byte" => await \in {"call", "called"}
    /\ at \in {"dry", "again"} => await \in {"promise", "call", "settled"}
    /\ at \in {"body", "exit", "drain", "host", "done"} => await = "none"
    /\ at \in {"dry", "host"} /\ job = Nobody => Contents = <<>> /\ await # "settled"

-----------------------------------------------------------------------------
(* The ring as a queue of the language.                                    *)

LEMMA ContentsSeq ==
    ASSUME RingInv
    PROVE  /\ Contents \in Seq(Entry) /\ DOMAIN Contents = 1 .. Len(Contents)
           /\ Empty <=> Contents = <<>>
<1>1. tail - head \in Nat /\ DOMAIN Contents = 1 .. tail - head
  BY DEF RingInv, RingOK, Contents
<1>2. \A i \in 1 .. tail - head : Contents[i] \in Entry
  <2> SUFFICES ASSUME NEW i \in 1 .. tail - head PROVE Contents[i] \in Entry
    OBVIOUS
  <2>1. cap \in Nat \ {0} /\ head + i - 1 \in Nat
    BY <1>1 DEF RingInv, RingOK
  <2>2. Contents[i] \in Entry \cup {Junk}
    BY <1>1, <2>1, SlotRange DEF RingInv, RingOK, Contents
  <2> QED
    BY <2>2 DEF RingInv, PendingWritten
<1>3. Contents = [i \in 1 .. tail - head |-> Contents[i]]
  BY <1>1 DEF Contents
<1>4. Contents \in Seq(Entry) /\ Len(Contents) = tail - head
  BY <1>1, <1>2, <1>3
<1>5. Empty <=> tail - head = 0
  BY DEF RingInv, RingOK, Empty
<1> QED
  BY <1>1, <1>4, <1>5

\* A job's name in the language, and the names of a sequence of jobs.
Name(e) == IF e \in Task THEN e ELSE "body"
Names(c) == [i \in DOMAIN c |-> Name(c[i])]

LEMMA NamesSeq ==
    ASSUME NEW c \in Seq(Entry)
    PROVE  /\ Names(c) \in Seq(Task \cup {"body"}) /\ Len(Names(c)) = Len(c)
           /\ \A i \in 1 .. Len(c) : Names(c)[i] = Name(c[i])
<1>1. Len(c) \in Nat /\ DOMAIN c = 1 .. Len(c)
  OBVIOUS
<1> QED
  BY <1>1 DEF Names, Name

LEMMA NamesAppend ==
    ASSUME NEW c \in Seq(Entry), NEW e \in Entry
    PROVE  Names(Append(c, e)) = Append(Names(c), Name(e))
<1> DEFINE n == Len(c)
           d == Append(c, e)
<1>1. /\ n \in Nat /\ d \in Seq(Entry) /\ Len(d) = n + 1 /\ d[n + 1] = e
      /\ \A i \in 1 .. n : d[i] = c[i]
  BY AppendProperties
<1>2. /\ Names(c) \in Seq(Task \cup {"body"}) /\ Len(Names(c)) = n
      /\ \A i \in 1 .. n : Names(c)[i] = Name(c[i])
  BY NamesSeq
<1> HIDE DEF n, d
<1>3. /\ Names(d) \in Seq(Task \cup {"body"}) /\ Len(Names(d)) = n + 1
      /\ \A i \in 1 .. n + 1 : Names(d)[i] = Name(d[i])
  BY <1>1, NamesSeq
<1>4. Name(e) \in Task \cup {"body"}
  BY DEF Name
<1>5. /\ Append(Names(c), Name(e)) \in Seq(Task \cup {"body"})
      /\ Len(Append(Names(c), Name(e))) = n + 1
      /\ \A i \in 1 .. n : Append(Names(c), Name(e))[i] = Names(c)[i]
      /\ Append(Names(c), Name(e))[n + 1] = Name(e)
  BY <1>2, <1>4, AppendProperties
<1>6. \A i \in 1 .. n + 1 : Names(d)[i] = Append(Names(c), Name(e))[i]
  BY <1>1, <1>2, <1>3, <1>5
<1> QED
  BY <1>3, <1>5, <1>6, SeqEqual DEF d

LEMMA NamesTail ==
    ASSUME NEW c \in Seq(Entry), c # <<>>
    PROVE  /\ Names(c) # <<>>
           /\ Names(Tail(c)) = Tail(Names(c))
           /\ Head(Names(c)) = Name(Head(c))
<1> DEFINE n == Len(c)
           d == Tail(c)
<1>1. /\ n \in Nat \ {0} /\ d \in Seq(Entry) /\ Len(d) = n - 1
      /\ \A i \in 1 .. n - 1 : d[i] = c[i + 1]
      /\ Head(c) = c[1]
  BY HeadTailProperties
<1>2. /\ Names(c) \in Seq(Task \cup {"body"}) /\ Len(Names(c)) = n
      /\ \A i \in 1 .. n : Names(c)[i] = Name(c[i])
  BY NamesSeq
<1> HIDE DEF n, d
<1>3. /\ Names(d) \in Seq(Task \cup {"body"}) /\ Len(Names(d)) = n - 1
      /\ \A i \in 1 .. n - 1 : Names(d)[i] = Name(d[i])
  BY <1>1, NamesSeq
<1>4. Names(c) # <<>> /\ Head(Names(c)) = Name(c[1])
  BY <1>1, <1>2
<1>5. /\ Tail(Names(c)) \in Seq(Task \cup {"body"}) /\ Len(Tail(Names(c))) = n - 1
      /\ \A i \in 1 .. n - 1 : Tail(Names(c))[i] = Names(c)[i + 1]
  BY <1>2, <1>4, HeadTailProperties
<1>6. \A i \in 1 .. n - 1 : Names(d)[i] = Tail(Names(c))[i]
  BY <1>1, <1>2, <1>3, <1>5
<1>7. Names(d) = Tail(Names(c))
  BY <1>3, <1>5, <1>6, SeqEqual
<1> QED
  BY <1>1, <1>4, <1>7 DEF d

\* The queue of the language, when nothing is behind the ring.
LEMMA QueuedIs ==
    RingInv =>
           /\ Names(Contents) \in Seq(Task \cup {"body"})
           /\ Contents = <<>> <=> Names(Contents) = <<>>
           /\ Queued = IF await \in {"called", "settled"}
                       THEN Append(Names(Contents), "body") ELSE Names(Contents)
<1> SUFFICES ASSUME RingInv
             PROVE  /\ Names(Contents) \in Seq(Task \cup {"body"})
                    /\ Contents = <<>> <=> Names(Contents) = <<>>
                    /\ Queued = IF await \in {"called", "settled"}
                                THEN Append(Names(Contents), "body") ELSE Names(Contents)
  OBVIOUS
<1>1. Contents \in Seq(Entry)
  BY ContentsSeq
<1>2. /\ Names(Contents) \in Seq(Task \cup {"body"})
      /\ Len(Names(Contents)) = Len(Contents)
  BY <1>1, NamesSeq
<1>3. Read = Names(Contents)
  BY DEF Read, Names, Name
<1>4. Contents = <<>> <=> Names(Contents) = <<>>
  BY <1>1, <1>2
<1>5. CASE await \in {"called", "settled"}
  <2>1. Append(Names(Contents), "body") = Names(Contents) \o <<"body">>
    BY <1>2, AppendIsConcat
  <2> QED
    BY <1>2, <1>3, <1>4, <1>5, <2>1 DEF Queued, Behind
<1>6. CASE await \notin {"called", "settled"}
  <2>1. Names(Contents) \o <<>> = Names(Contents)
    BY <1>2, ConcatEmptySeq
  <2> QED
    BY <1>2, <1>3, <1>4, <1>6, <2>1 DEF Queued, Behind
<1> QED
  BY <1>5, <1>6

LEMMA QueuedIsNext ==
    RingInv' =>
           /\ Names(Contents') \in Seq(Task \cup {"body"})
           /\ Contents' = <<>> <=> Names(Contents') = <<>>
           /\ Queued' = IF await' \in {"called", "settled"}
                        THEN Append(Names(Contents'), "body") ELSE Names(Contents')
<1>1. (RingInv => /\ Names(Contents) \in Seq(Task \cup {"body"})
                  /\ Contents = <<>> <=> Names(Contents) = <<>>
                  /\ Queued = IF await \in {"called", "settled"}
                              THEN Append(Names(Contents), "body")
                              ELSE Names(Contents))'
  BY QueuedIs, PTL
<1> QED
  BY <1>1 DEF Names

-----------------------------------------------------------------------------
(* The entry that ends a wait, through pushes and pops.                    *)

LEMMA TasksAppend ==
    ASSUME NEW c \in Seq(Entry), NEW e \in Entry, NEW w \in {Mark, Landing}
    PROVE  /\ Tasks(c) /\ e \in Task => Tasks(Append(c, e))
           /\ Tasks(c) => TasksAnd(Append(c, w), w)
           /\ TasksAnd(c, w) /\ e \in Task => TasksAnd(Append(c, e), w)
<1> DEFINE n == Len(c)
           d == Append(c, e)
           g == Append(c, w)
<1>1. w \in Entry
  BY DEF Entry
<1>2. /\ n \in Nat /\ DOMAIN c = 1 .. n
      /\ DOMAIN d = 1 .. n + 1 /\ d[n + 1] = e /\ \A i \in 1 .. n : d[i] = c[i]
  BY AppendProperties
<1>3. DOMAIN g = 1 .. n + 1 /\ g[n + 1] = w /\ \A i \in 1 .. n : g[i] = c[i]
  BY <1>1, AppendProperties
<1> HIDE DEF n, d, g
<1>4. Tasks(c) /\ e \in Task => Tasks(d)
  BY <1>2 DEF Tasks
<1>5. Tasks(c) => TasksAnd(g, w)
  <2> SUFFICES ASSUME Tasks(c)
               PROVE  \A k \in DOMAIN g \ {n + 1} : g[k] \in Task
    BY <1>2, <1>3 DEF TasksAnd
  <2> QED
    BY <1>2, <1>3 DEF Tasks
<1>6. TasksAnd(c, w) /\ e \in Task => TasksAnd(d, w)
  <2> SUFFICES ASSUME e \in Task,
                      NEW i \in 1 .. n, c[i] = w, \A k \in 1 .. n \ {i} : c[k] \in Task
               PROVE  d[i] = w /\ \A k \in DOMAIN d \ {i} : d[k] \in Task
    BY <1>2 DEF TasksAnd
  <2> QED
    BY <1>2
<1> QED
  BY <1>4, <1>5, <1>6 DEF d, g

LEMMA TasksTail ==
    ASSUME NEW c \in Seq(Entry), c # <<>>, NEW w \in {Mark, Landing}
    PROVE  /\ Tasks(c) => Head(c) \in Task /\ Tasks(Tail(c))
           /\ TasksAnd(c, w) => \/ Head(c) = w /\ Tasks(Tail(c))
                                \/ Head(c) \in Task /\ TasksAnd(Tail(c), w)
<1> DEFINE n == Len(c)
           d == Tail(c)
<1>1. /\ n \in Nat \ {0} /\ DOMAIN c = 1 .. n /\ Head(c) = c[1]
      /\ DOMAIN d = 1 .. n - 1 /\ \A i \in 1 .. n - 1 : d[i] = c[i + 1]
  BY HeadTailProperties
<1> HIDE DEF n, d
<1>2. Tasks(c) => c[1] \in Task /\ Tasks(d)
  BY <1>1 DEF Tasks
<1>3. ASSUME NEW i \in 1 .. n, c[i] = w, \A k \in 1 .. n \ {i} : c[k] \in Task
      PROVE  \/ c[1] = w /\ Tasks(d)
             \/ c[1] \in Task /\ TasksAnd(d, w)
  <2>1. CASE i = 1
    BY <1>1, <1>3, <2>1 DEF Tasks
  <2>2. CASE i # 1
    <3>1. i - 1 \in DOMAIN d /\ (i - 1) + 1 = i /\ d[i - 1] = w
      BY <1>1, <1>3, <2>2
    <3>2. \A k \in DOMAIN d \ {i - 1} : d[k] \in Task
      BY <1>1, <1>3, <3>1
    <3> QED
      BY <1>1, <1>3, <2>2, <3>1, <3>2 DEF TasksAnd
  <2> QED
    BY <2>1, <2>2
<1> QED
  BY <1>1, <1>2, <1>3 DEF d, TasksAnd

LEMMA NoWaitInEmpty == ASSUME NEW w PROVE Tasks(<<>>) /\ ~TasksAnd(<<>>, w)
  BY DEF Tasks, TasksAnd

-----------------------------------------------------------------------------
(* The steps.                                                              *)

Ordered == Jobs!Next \/ Overtaken \/ UNCHANGED Jobs!vars

\* What one step may assume and what it must show.
Given == Inv /\ Inv' /\ WaitInv
Shown == WaitInv' /\ Ordered

LEMMA RingFacts ==
    ASSUME Given
    PROVE  /\ Contents \in Seq(Entry) /\ (Empty <=> Contents = <<>>)
           /\ Names(Contents) \in Seq(Task \cup {"body"})
           /\ Contents = <<>> <=> Names(Contents) = <<>>
           /\ Queued = IF await \in {"called", "settled"}
                       THEN Append(Names(Contents), "body") ELSE Names(Contents)
           /\ Names(Contents') \in Seq(Task \cup {"body"})
           /\ Queued' = IF await' \in {"called", "settled"}
                        THEN Append(Names(Contents'), "body") ELSE Names(Contents')
  BY ContentsSeq, QueuedIs, QueuedIsNext DEF Given, Inv

\* A step that leaves the ring's entries, what is awaited and what runs.
LEMMA StepSilent ==
    ASSUME Given, Contents' = Contents, await' = await, Running' = Running
    PROVE  Ordered
<1>1. Queued' = Queued
  BY RingFacts
<1> QED
  BY <1>1 DEF Ordered, Jobs!vars

\* A job of the program goes behind the others.
LEMMA StepEnqueue ==
    ASSUME Given, NEW t \in Task, Enqueue(t)
    PROVE  Shown
<1>1. /\ UNCHANGED <<job, at, set, await, kept, hook>> /\ Push(t) /\ Active
      /\ await # "called"
  BY DEF Enqueue
<1>2. Contents' = Append(Contents, t) /\ t \in Entry
  BY <1>1, PushAppends DEF Given, Inv, RingInv, Entry
<1>3. WaitInv'
  <2>1. Tasks(Contents) => Tasks(Contents')
    BY <1>2, RingFacts, TasksAppend
  <2>2. TasksAnd(Contents, Mark) => TasksAnd(Contents', Mark)
    BY <1>2, RingFacts, TasksAppend
  <2>3. TasksAnd(Contents, Landing) => TasksAnd(Contents', Landing)
    BY <1>2, RingFacts, TasksAppend
  <2>4. ~(at \in {"dry", "host"} /\ job = Nobody)
    BY <1>1, TaskAssumption DEF Active, Host, Nobody
  <2> QED
    BY <1>1, <2>1, <2>2, <2>3, <2>4 DEF Given, WaitInv, NoWait, OneWait
<1>4. CASE await = "settled"
  <2>1. job = Host
    BY <1>1, <1>4 DEF Given, WaitInv, Active, Entry
  <2> QED
    BY <1>3, <1>4, <2>1 DEF Shown, Ordered, Overtaken
<1>5. CASE await # "settled"
  <2>1. Queued' = Append(Queued, t)
    <3>1. Names(Contents') = Append(Names(Contents), t)
      BY <1>2, RingFacts, NamesAppend DEF Name
    <3> QED
      BY <1>1, <1>5, <3>1, RingFacts
  <2>2. Running' = Running
    BY <1>1 DEF Running, Watched
  <2>3. Running # Nobody
    BY <1>1, TaskAssumption DEF Active, Running, Host, Nobody, Mark, Landing
  <2>4. Jobs!Enqueue(t)
    BY <1>1, <2>1, <2>2, <2>3 DEF Jobs!Enqueue, Jobs!Nobody, Nobody
  <2> QED
    BY <1>3, <2>4 DEF Shown, Ordered, Jobs!Next
<1> QED
  BY <1>4, <1>5

\* What a job settles puts the body's continuation behind the others.
LEMMA StepSettle ==
    ASSUME Given, SettleParked \/ SettleCall \/ SettleUnparked
    PROVE  Shown
<1>1. /\ UNCHANGED <<job, at, set, kept, hook>> /\ job \in Task \cup {Host}
      /\ await \in {"promise", "call"} /\ await' \notin {"promise", "call"}
  BY DEF SettleParked, SettleCall, SettleUnparked
<1>2. Queued' = Append(Queued, "body")
  <2>1. CASE SettleParked
    <3>1. Contents' = Append(Contents, Landing) /\ Landing \in Entry
      BY <2>1, PushAppends DEF SettleParked, Given, Inv, RingInv, Entry
    <3>2. Names(Contents') = Append(Names(Contents), "body")
      <4>1. Name(Landing) = "body"
        BY TaskAssumption DEF Name, Landing
      <4> QED
        BY <3>1, <4>1, RingFacts, NamesAppend
    <3> QED
      BY <1>1, <2>1, <3>2, RingFacts DEF SettleParked
  <2>2. CASE SettleCall \/ SettleUnparked
    <3>1. Contents' = Contents /\ await' \in {"called", "settled"}
      BY <2>2, RingStays DEF SettleCall, SettleUnparked, ring, Given, Inv
    <3> QED
      BY <1>1, <3>1, RingFacts
  <2> QED
    BY <2>1, <2>2
<1>3. Jobs!Settle
  <2>1. Running = job /\ Running' = Running
    BY <1>1, TaskAssumption DEF Running, Watched, Host, Nobody, Mark, Landing
  <2> QED
    BY <1>1, <1>2, <2>1 DEF Jobs!Settle, Jobs!Host, Jobs!Body, Host
<1>4. WaitInv'
  <2>1. CASE SettleParked
    <3>1. /\ Contents' = Append(Contents, Landing) /\ job \in Task
          /\ await = "promise" /\ await' = "none"
      BY <2>1, PushAppends DEF SettleParked, Given, Inv, RingInv, Entry
    <3>2. at = "ready" /\ NoWait
      BY <3>1 DEF Given, WaitInv, Entry
    <3>3. TasksAnd(Contents', Landing)
      BY <3>1, <3>2, RingFacts, TasksAppend DEF NoWait, Entry
    <3> QED
      BY <1>1, <3>1, <3>2, <3>3 DEF Given, WaitInv, NoWait, OneWait
  <2>2. CASE SettleCall
    <3>1. Contents' = Contents /\ await' = "called" /\ await = "call" /\ job \in Task
      BY <2>2, RingStays DEF SettleCall, ring, Given, Inv
    <3>2. at = "byte"
      BY <3>1 DEF Given, WaitInv, Entry
    <3> QED
      BY <1>1, <3>1, <3>2 DEF Given, WaitInv, NoWait
  <2>3. CASE SettleUnparked
    <3>1. Contents' = Contents /\ await' = "settled" /\ await = "promise" /\ job = Host
      BY <2>3, RingStays DEF SettleUnparked, ring, Given, Inv
    <3>2. at = "dry" /\ job # Nobody
      BY <3>1 DEF Given, WaitInv, Host, Nobody
    <3> QED
      BY <1>1, <3>1, <3>2 DEF Given, WaitInv, NoWait
  <2> QED
    BY <2>1, <2>2, <2>3
<1> QED
  BY <1>3, <1>4 DEF Shown, Ordered, Jobs!Next

\* Nothing the language sees happens.
LEMMA StepKeep ==
    ASSUME Given, Keep \/ UNCHANGED vars
    PROVE  Shown
<1>1. UNCHANGED <<buf, cap, head, tail, job, at, set, await>>
  BY DEF Keep, vars
<1>2. Contents' = Contents
  BY <1>1, RingStays DEF ring, Given, Inv
<1>3. WaitInv'
  BY <1>1, <1>2 DEF Given, WaitInv, NoWait, OneWait
<1>4. Ordered
  BY <1>1, <1>2, StepSilent DEF Running, Watched
<1> QED
  BY <1>3, <1>4 DEF Shown

\* The loop sees its byte: the continuation has run since its job's pop.
LEMMA StepReached ==
    ASSUME Given, Reached
    PROVE  Shown
<1>1. Contents' = Contents
  BY RingStays, RingRestarted DEF Reached, RestartIfIdle, Given, Inv
<1>2. /\ job = Nobody /\ job' = job /\ await' = await /\ at \in {"mark", "ready"}
      /\ at' = "body" /\ Watched \in set /\ set' = set \ {Watched}
  BY DEF Reached
<1>3. await = "none" /\ Tasks(Contents) /\ set = {Watched}
  BY <1>2 DEF Given, WaitInv, NoWait, OneWait, Watched
<1>4. job \notin Entry \cup {Host}
  BY <1>2, TaskAssumption DEF Entry, Mark, Landing, Host, Nobody
<1>5. WaitInv'
  BY <1>1, <1>2, <1>3, <1>4 DEF WaitInv, NoWait, Entry
<1>6. Running = "body" /\ Running' = "body"
  BY <1>2 DEF Running, Watched
<1> QED
  BY <1>1, <1>2, <1>5, <1>6, StepSilent DEF Shown

\* A loop without a job ends an await of what nothing has settled.
LEMMA StepRunDry ==
    ASSUME Given, RunDry
    PROVE  Shown
<1>1. Contents' = Contents /\ Contents = <<>>
  BY RingRestarted, RingFacts DEF RunDry, Given, Inv
<1>2. /\ job = Nobody /\ UNCHANGED <<job, set, await>> /\ await # "called"
      /\ at \in {"mark", "ready", "byte"} /\ Watched \notin set
      /\ at' = IF at = "mark" THEN "body" ELSE "dry"
  BY DEF RunDry
<1>3. job \notin Entry \cup {Host}
  BY <1>2, TaskAssumption DEF Entry, Mark, Landing, Host, Nobody
<1>4. at # "mark" /\ await \in {"promise", "call"} /\ NoWait
  BY <1>1, <1>2, <1>3, NoWaitInEmpty DEF Given, WaitInv, OneWait, Watched, Entry
<1>5. WaitInv'
  BY <1>1, <1>2, <1>3, <1>4 DEF WaitInv, NoWait
<1>6. Running' = Running
  BY <1>2, <1>4 DEF Running, Watched, NoWait
<1> QED
  BY <1>1, <1>2, <1>5, <1>6, StepSilent DEF Shown

\* The exit checkpoint moves on.
LEMMA StepExit ==
    ASSUME Given, EnterDrain \/ Quit
    PROVE  Shown
<1>1. Contents' = Contents
  BY RingStays DEF EnterDrain, Quit, ring, Given, Inv
<1>2. /\ UNCHANGED <<job, set, await>> /\ at \in {"exit", "host"}
      /\ at' \in {"host", "drain", "done"}
      /\ at = "exit" \/ job = Nobody
      /\ at' = "host" => Contents = <<>>
  BY RingFacts DEF EnterDrain, Quit
<1>3. job \notin Entry \cup {Host}
  BY <1>2, TaskAssumption DEF Given, WaitInv, Entry, Mark, Landing, Host, Nobody
<1>4. WaitInv'
  BY <1>1, <1>2, <1>3 DEF Given, WaitInv, NoWait
<1>5. Running' = Running
  BY <1>2 DEF Running, Watched
<1> QED
  BY <1>1, <1>2, <1>4, <1>5, StepSilent DEF Shown

\* The body awaits what has settled: behind the pending jobs, or at once.
LEMMA StepAwaitSettled ==
    ASSUME Given, AwaitSettled
    PROVE  Shown
<1>1. /\ at = "body" /\ job = Nobody /\ UNCHANGED <<job, set, await>> /\ Yield
      /\ await = "none" /\ NoWait
  BY DEF AwaitSettled, InBody, Yield, Given, WaitInv
<1>2. job \notin Entry \cup {Host}
  BY <1>1, TaskAssumption DEF Entry, Mark, Landing, Host, Nobody
<1>3. CASE Empty
  <2>1. Contents' = Contents /\ at' = "body"
    BY <1>1, <1>3, RingRestarted DEF Yield, Given, Inv
  <2>2. WaitInv'
    BY <1>1, <1>2, <2>1 DEF WaitInv, NoWait
  <2>3. Running' = Running
    BY <1>1, <2>1 DEF Running
  <2> QED
    BY <1>1, <2>1, <2>2, <2>3, StepSilent DEF Shown
<1>4. CASE ~Empty
  <2>1. Contents' = Append(Contents, Mark) /\ at' = "mark" /\ Mark \in Entry
    BY <1>1, <1>4, PushAppends DEF Yield, Given, Inv, RingInv, Entry
  <2>2. TasksAnd(Contents', Mark)
    BY <1>1, <2>1, RingFacts, TasksAppend DEF NoWait
  <2>3. WaitInv'
    BY <1>1, <1>2, <2>1, <2>2 DEF WaitInv, NoWait, OneWait
  <2>4. Running = "body" /\ Running' = Nobody
    BY <1>1, <2>1 DEF Running, Watched, NoWait
  <2>5. Queued' = Append(Queued, "body")
    <3>1. Name(Mark) = "body"
      BY TaskAssumption DEF Name, Mark
    <3>2. Names(Contents') = Append(Names(Contents), "body")
      BY <2>1, <3>1, RingFacts, NamesAppend
    <3> QED
      BY <1>1, <3>2, RingFacts
  <2>6. Jobs!AwaitSettled
    BY <1>1, <2>4, <2>5 DEF Jobs!AwaitSettled, Jobs!Body, Jobs!Nobody, Nobody
  <2> QED
    BY <2>3, <2>6 DEF Shown, Ordered, Jobs!Next
<1> QED
  BY <1>3, <1>4

\* The body awaits what has not settled.
LEMMA StepAwaitPending ==
    ASSUME Given, AwaitPromise \/ AwaitCall
    PROVE  Shown
<1>1. /\ at = "body" /\ job = Nobody /\ UNCHANGED <<job, set>>
      /\ \/ at' = "ready" /\ await' = "promise"
         \/ at' = "byte" /\ await' = "call"
  BY DEF AwaitPromise, AwaitCall, InBody
<1>2. Contents' = Contents
  BY RingStays DEF AwaitPromise, AwaitCall, ring, Given, Inv
<1>3. job \notin Entry \cup {Host}
  BY <1>1, TaskAssumption DEF Entry, Mark, Landing, Host, Nobody
<1>4. await = "none" /\ NoWait
  BY <1>1 DEF Given, WaitInv
<1>5. WaitInv'
  BY <1>1, <1>2, <1>3, <1>4 DEF WaitInv, NoWait
<1>6. Running = "body" /\ Running' = Nobody
  BY <1>1, <1>4 DEF Running, Watched, NoWait
<1>7. Queued' = Queued
  BY <1>1, <1>2, <1>4, RingFacts
<1>8. Jobs!AwaitPending
  BY <1>1, <1>6, <1>7 DEF Jobs!AwaitPending, Jobs!Body, Jobs!Nobody, Nobody
<1> QED
  BY <1>5, <1>8 DEF Shown, Ordered, Jobs!Next

\* The body returns.
LEMMA StepFinish ==
    ASSUME Given, Finish
    PROVE  Shown
<1>1. /\ at = "body" /\ job = Nobody /\ UNCHANGED <<job, set, await>> /\ at' = "exit"
      /\ await = "none" /\ NoWait
  BY DEF Finish, InBody, Given, WaitInv
<1>2. Contents' = Contents
  BY RingStays DEF Finish, ring, Given, Inv
<1>3. job \notin Entry \cup {Host}
  BY <1>1, TaskAssumption DEF Entry, Mark, Landing, Host, Nobody
<1>4. WaitInv'
  BY <1>1, <1>2, <1>3 DEF WaitInv, NoWait
<1>5. Running = "body" /\ Running' = Nobody
  BY <1>1 DEF Running, Watched
<1>6. Queued' = Queued
  BY <1>1, <1>2, RingFacts
<1>7. Jobs!End
  BY <1>1, <1>5, <1>6, TaskAssumption DEF Jobs!End, Jobs!Nobody, Nobody
<1> QED
  BY <1>4, <1>7 DEF Shown, Ordered, Jobs!Next

\* The job at the head of the ring starts.
LEMMA StepPop ==
    ASSUME Given, Pop
    PROVE  Shown
<1>1. /\ job = Nobody /\ at \in {"mark", "ready", "byte", "drain"} /\ Watched \notin set
      /\ await # "called" /\ UNCHANGED <<at, set, await>>
  BY DEF Pop
<1>2. /\ Contents # <<>> /\ Contents' = Tail(Contents) /\ job' = Head(Contents)
      /\ job' \in Entry
  BY PopTakes DEF Pop, Given, Inv, RingInv
<1>3. /\ job \notin Entry \cup {Host} /\ job' \notin {Host, Nobody}
      /\ Mark # Landing /\ Mark \notin Task /\ Landing \notin Task
  BY <1>1, <1>2, TaskAssumption DEF Entry, Mark, Landing, Host, Nobody
<1>4. await \notin {"called", "settled"}
  BY <1>1 DEF Given, WaitInv
<1>5. /\ Tasks(Contents) => job' \in Task /\ Tasks(Contents')
      /\ TasksAnd(Contents, Mark) => \/ job' = Mark /\ Tasks(Contents')
                                     \/ job' \in Task /\ TasksAnd(Contents', Mark)
      /\ TasksAnd(Contents, Landing) => \/ job' = Landing /\ Tasks(Contents')
                                        \/ job' \in Task /\ TasksAnd(Contents', Landing)
  BY <1>2, RingFacts, TasksTail
<1>6. WaitInv'
  <2>1. NoWait => NoWait'
    BY <1>1, <1>3, <1>5 DEF NoWait
  <2>2. at = "mark" => OneWait(Mark)'
    <3> SUFFICES ASSUME at = "mark" PROVE OneWait(Mark)'
      OBVIOUS
    <3>1. OneWait(Mark) /\ Mark \notin set /\ job # Mark
      BY <1>1, <1>3 DEF Given, WaitInv, Watched, Entry
    <3>2. TasksAnd(Contents, Mark) /\ set = {}
      BY <3>1 DEF OneWait
    <3> QED
      BY <1>1, <1>3, <1>5, <3>2 DEF OneWait
  <2>3. at = "ready" /\ OneWait(Landing) => OneWait(Landing)'
    <3> SUFFICES ASSUME at = "ready", OneWait(Landing) PROVE OneWait(Landing)'
      OBVIOUS
    <3>1. Landing \notin set /\ job # Landing
      BY <1>1, <1>3 DEF Watched, Entry
    <3>2. TasksAnd(Contents, Landing) /\ set = {}
      BY <3>1 DEF OneWait
    <3> QED
      BY <1>1, <1>3, <1>5, <3>2 DEF OneWait
  <2> QED
    BY <1>1, <1>3, <2>1, <2>2, <2>3 DEF Given, WaitInv
<1>7. Running = Nobody /\ Running' = Name(job')
  BY <1>1, <1>2, <1>3 DEF Running, Name, Entry
<1>8. Queued # <<>> /\ Queued' = Tail(Queued) /\ Head(Queued) = Name(job')
  BY <1>1, <1>2, <1>4, RingFacts, NamesTail
<1>9. Jobs!Run
  BY <1>1, <1>7, <1>8 DEF Jobs!Run, Jobs!Nobody, Nobody
<1> QED
  BY <1>6, <1>9 DEF Shown, Ordered, Jobs!Next

\* A job returns: it ends, unless it is the continuation's, which runs on.
LEMMA StepEndJob ==
    ASSUME Given, EndJob
    PROVE  Shown
<1>1. /\ job \in Entry /\ job' = Nobody /\ set' = set \cup ({job} \ Task) /\ await' = await
      /\ at = "drain" => at' \in {"drain", "host"}
      /\ at # "drain" => at' = at
  BY DEF EndJob, DrainEnd
<1>2. Contents' = Contents /\ (at' = "host" => Contents = <<>>)
  <2>1. CASE at = "drain" /\ Empty
    BY <2>1, RingRestarted, RingFacts DEF EndJob, DrainEnd, Given, Inv
  <2>2. CASE ~(at = "drain" /\ Empty)
    <3>1. UNCHANGED ring /\ at' = at
      BY <2>2 DEF EndJob, DrainEnd, ring
    <3>2. at # "host"
      BY <1>1 DEF Given, WaitInv
    <3> QED
      BY <3>1, <3>2, RingStays DEF Given, Inv
  <2> QED
    BY <2>1, <2>2
<1>3. /\ Mark # Landing /\ Mark \notin Task /\ Landing \notin Task
      /\ job' \notin Entry \cup {Host}
  BY <1>1, TaskAssumption DEF Entry, Mark, Landing, Host, Nobody
<1>4. at \in {"mark", "ready", "byte", "drain"}
  BY <1>1 DEF Given, WaitInv
<1>5. CASE job \in Task
  <2>1. set' = set /\ job \notin {Mark, Landing} /\ job # Nobody
    BY <1>1, <1>3, <1>5, TaskAssumption DEF Nobody
  <2>2. NoWait => NoWait'
    BY <1>2, <1>3, <2>1 DEF NoWait, Entry
  <2>3. OneWait(Mark) => TasksAnd(Contents, Mark) /\ set = {}
    BY <2>1 DEF OneWait
  <2>4. OneWait(Landing) => TasksAnd(Contents, Landing) /\ set = {}
    BY <2>1 DEF OneWait
  <2>5. OneWait(Mark) => OneWait(Mark)'
    BY <1>2, <1>3, <2>1, <2>3 DEF OneWait, Entry
  <2>6. OneWait(Landing) => OneWait(Landing)'
    BY <1>2, <1>3, <2>1, <2>4 DEF OneWait, Entry
  <2>7. WaitInv'
    BY <1>1, <1>2, <1>3, <1>4, <2>2, <2>5, <2>6 DEF Given, WaitInv
  <2>8. Running = job /\ Running' = Nobody
    <3>1. at' \in {"mark", "ready"} => Watched' \notin set'
      BY <1>1, <1>3, <1>4, <2>1, <2>3, <2>4
         DEF Given, WaitInv, NoWait, Watched
    <3>2. at' # "body"
      BY <1>1, <1>4
    <3> QED
      BY <1>1, <2>1, <3>1, <3>2 DEF Running
  <2>9. Queued' = Queued
    BY <1>1, <1>2, RingFacts
  <2>10. Jobs!End
    BY <1>1, <2>1, <2>8, <2>9 DEF Jobs!End, Jobs!Nobody, Nobody
  <2> QED
    BY <2>7, <2>10 DEF Shown, Ordered, Jobs!Next
<1>6. CASE job \notin Task
  <2>1. job \in {Mark, Landing}
    BY <1>1, <1>6 DEF Entry
  <2>2. (at = "mark" /\ job = Mark) \/ (at = "ready" /\ job = Landing)
    BY <1>3, <1>4, <2>1, TaskAssumption
       DEF Given, WaitInv, NoWait, OneWait, Mark, Landing, Nobody
  <2>3. await = "none" /\ Tasks(Contents) /\ set = {}
    BY <2>1, <2>2, TaskAssumption
       DEF Given, WaitInv, NoWait, OneWait, Mark, Landing, Nobody
  <2>4. set' = {job} /\ at' = at
    BY <1>1, <1>6, <2>2, <2>3
  <2>5. WaitInv'
    BY <1>1, <1>2, <1>3, <2>2, <2>3, <2>4 DEF WaitInv, OneWait
  <2>6. Running = "body" /\ Running' = "body"
    BY <1>1, <2>1, <2>2, <2>4, TaskAssumption DEF Running, Watched, Nobody, Mark, Landing
  <2> QED
    BY <1>1, <1>2, <2>5, <2>6, StepSilent DEF Shown
<1> QED
  BY <1>5, <1>6

\* The loop sees the call's state: its continuation is next, or goes in
\* behind the pending jobs, where the language put it.
LEMMA StepCallSettled ==
    ASSUME Given, CallSettled
    PROVE  Shown
<1>1. /\ job = Nobody /\ at = "byte" /\ await = "called" /\ await' = "none"
      /\ UNCHANGED <<job, set>> /\ NoWait
  BY DEF CallSettled, Given, WaitInv
<1>2. job \notin Entry \cup {Host}
  BY <1>1, TaskAssumption DEF Entry, Mark, Landing, Host, Nobody
<1>3. CASE Empty
  <2>1. Contents' = Contents /\ Contents = <<>> /\ at' = "body"
    BY <1>3, RingRestarted, RingFacts DEF CallSettled, Given, Inv
  <2>2. WaitInv'
    BY <1>1, <1>2, <2>1 DEF WaitInv, NoWait
  <2>3. Running = Nobody /\ Running' = "body"
    BY <1>1, <2>1 DEF Running
  <2>4. Queued = Append(<<>>, "body") /\ Queued' = <<>>
    BY <1>1, <2>1, RingFacts
  <2>5. Queued = <<"body">> /\ Queued' = <<>>
    BY <2>4
  <2>6. Jobs!Run
    BY <1>1, <2>3, <2>5 DEF Jobs!Run, Jobs!Nobody, Nobody
  <2> QED
    BY <2>2, <2>6 DEF Shown, Ordered, Jobs!Next
<1>4. CASE ~Empty
  <2>1. Contents' = Append(Contents, Mark) /\ at' = "mark" /\ Mark \in Entry
    BY <1>4, PushAppends DEF CallSettled, Given, Inv, RingInv, Entry
  <2>2. TasksAnd(Contents', Mark)
    BY <1>1, <2>1, RingFacts, TasksAppend DEF NoWait
  <2>3. WaitInv'
    BY <1>1, <1>2, <2>1, <2>2 DEF WaitInv, NoWait, OneWait
  <2>4. Running' = Running
    BY <1>1, <2>1 DEF Running, Watched, NoWait
  <2>5. Queued' = Queued
    <3>1. Name(Mark) = "body"
      BY TaskAssumption DEF Name, Mark
    <3>2. Names(Contents') = Append(Names(Contents), "body")
      BY <2>1, <3>1, RingFacts, NamesAppend
    <3> QED
      BY <1>1, <3>2, RingFacts
  <2> QED
    BY <1>1, <2>3, <2>4, <2>5 DEF Shown, Ordered, Jobs!vars
<1> QED
  BY <1>3, <1>4

\* A host job starts when no job is left.
LEMMA StepRunHost ==
    ASSUME Given, RunHost
    PROVE  Shown
<1>1. /\ at \in {"dry", "host"} /\ job = Nobody /\ job' = Host
      /\ UNCHANGED <<at, set, await>>
      /\ Contents = <<>> /\ await # "settled" /\ await # "called" /\ NoWait
  BY DEF RunHost, Given, WaitInv
<1>2. Contents' = Contents
  BY RingStays DEF RunHost, ring, Given, Inv
<1>3. Host \notin Entry /\ Host # Nobody
  BY TaskAssumption DEF Entry, Mark, Landing, Host, Nobody
<1>4. WaitInv'
  BY <1>1, <1>2, <1>3 DEF Given, WaitInv, NoWait, Entry
<1>5. Running = Nobody /\ Running' = Host
  BY <1>1, <1>3 DEF Running, Entry
<1>6. Queued = <<>> /\ Queued' = <<>>
  BY <1>1, <1>2, RingFacts
<1>7. Jobs!RunHost
  BY <1>1, <1>5, <1>6 DEF Jobs!RunHost, Jobs!Nobody, Jobs!Host, Nobody, Host
<1> QED
  BY <1>4, <1>7 DEF Shown, Ordered, Jobs!Next

\* It returns or throws.
LEMMA StepHostEnds ==
    ASSUME Given, HostReturn \/ HostEnd
    PROVE  Shown
<1>1. /\ job = Host /\ job' = Nobody /\ UNCHANGED <<set, await>> /\ NoWait
      /\ \/ at = "dry" /\ at' = "again"
         \/ at = "host" /\ at' \in {"exit", "done"}
  BY DEF HostReturn, HostEnd, Given, WaitInv
<1>2. Contents' = Contents
  BY RingStays DEF HostReturn, HostEnd, ring, Given, Inv
<1>3. Host # Nobody /\ job' \notin Entry \cup {Host} /\ Host \notin {Mark, Landing}
  BY <1>1, TaskAssumption DEF Entry, Mark, Landing, Host, Nobody
<1>4. WaitInv'
  BY <1>1, <1>2, <1>3 DEF Given, WaitInv, NoWait, Entry
<1>5. Running = Host /\ Running' = Nobody
  BY <1>1, <1>3 DEF Running
<1>6. Queued' = Queued
  BY <1>1, <1>2, RingFacts
<1>7. Jobs!End
  BY <1>1, <1>3, <1>5, <1>6 DEF Jobs!End, Jobs!Nobody, Nobody
<1> QED
  BY <1>4, <1>7 DEF Shown, Ordered, Jobs!Next

\* The host job is over, and the body waits again for what it waited for.
LEMMA StepAwaitAgain ==
    ASSUME Given, AwaitAgain
    PROVE  Shown
<1>1. at = "again" /\ UNCHANGED job /\ NoWait
  BY DEF AwaitAgain, Given, WaitInv
<1>2. job \notin Entry \cup {Host}
  BY <1>1 DEF Given, WaitInv
<1>3. job = Nobody
  BY <1>2 DEF Given, Inv, CodeOK
<1>4. CASE await \in {"promise", "call"}
  <2>1. /\ UNCHANGED <<ring, set, await>>
        /\ \/ await = "promise" /\ at' = "ready"
           \/ await = "call" /\ at' = "byte"
    BY <1>4 DEF AwaitAgain, ring
  <2>2. Contents' = Contents
    BY <2>1, RingStays DEF Given, Inv
  <2>3. WaitInv'
    BY <1>1, <1>2, <2>1, <2>2 DEF WaitInv, NoWait
  <2>4. Running' = Running
    BY <1>1, <1>3, <2>1 DEF Running, Watched, NoWait
  <2> QED
    BY <2>1, <2>2, <2>3, <2>4, StepSilent DEF Shown
<1>5. CASE await \notin {"promise", "call"}
  <2>1. await = "settled" /\ await' = "none" /\ Yield /\ set' = set
    BY <1>5 DEF AwaitAgain, Yield
  <2>2. CASE Empty
    <3>1. Contents' = Contents /\ Contents = <<>> /\ at' = "body"
      BY <2>1, <2>2, RingRestarted, RingFacts DEF Yield, Given, Inv
    <3>2. WaitInv'
      BY <1>1, <1>2, <2>1, <3>1 DEF WaitInv, NoWait
    <3>3. Running = Nobody /\ Running' = "body"
      BY <1>1, <1>3, <3>1 DEF Running
    <3>4. Queued = Append(<<>>, "body") /\ Queued' = <<>>
      BY <2>1, <3>1, RingFacts
    <3>5. Queued = <<"body">> /\ Queued' = <<>>
      BY <3>4
    <3>6. Jobs!Run
      BY <2>1, <3>3, <3>5 DEF Jobs!Run, Jobs!Nobody, Nobody
    <3> QED
      BY <3>2, <3>6 DEF Shown, Ordered, Jobs!Next
  <2>3. CASE ~Empty
    <3>1. Contents' = Append(Contents, Mark) /\ at' = "mark" /\ Mark \in Entry
      BY <2>1, <2>3, PushAppends DEF Yield, Given, Inv, RingInv, Entry
    <3>2. TasksAnd(Contents', Mark)
      BY <1>1, <3>1, RingFacts, TasksAppend DEF NoWait
    <3>3. WaitInv'
      BY <1>1, <1>2, <2>1, <3>1, <3>2 DEF WaitInv, NoWait, OneWait
    <3>4. Running' = Running
      BY <1>1, <1>3, <2>1, <3>1 DEF Running, Watched, NoWait
    <3>5. Queued' = Queued
      <4>1. Name(Mark) = "body"
        BY TaskAssumption DEF Name, Mark
      <4>2. Names(Contents') = Append(Names(Contents), "body")
        BY <3>1, <4>1, RingFacts, NamesAppend
      <4> QED
        BY <2>1, <4>2, RingFacts
    <3> QED
      BY <2>1, <3>3, <3>4, <3>5 DEF Shown, Ordered, Jobs!vars
  <2> QED
    BY <2>2, <2>3
<1> QED
  BY <1>4, <1>5

\* With no host job left, what the body waits on is given up.
LEMMA StepCancel ==
    ASSUME Given, Cancel
    PROVE  Shown
<1>1. /\ at = "dry" /\ job = Nobody /\ at' = "exit" /\ await' = "none"
      /\ UNCHANGED <<job, set>> /\ NoWait /\ Contents = <<>>
      /\ await \in {"promise", "call"}
  BY DEF Cancel, Given, WaitInv
<1>2. Contents' = Contents
  BY RingStays DEF Cancel, ring, Given, Inv
<1>3. job \notin Entry \cup {Host}
  BY <1>1, TaskAssumption DEF Entry, Mark, Landing, Host, Nobody
<1>4. WaitInv'
  BY <1>1, <1>2, <1>3 DEF WaitInv, NoWait
<1>5. Running = Nobody /\ Running' = Nobody
  BY <1>1 DEF Running
<1>6. Queued = <<>> /\ Queued' = <<>>
  BY <1>1, <1>2, RingFacts
<1>7. Jobs!Abandon
  BY <1>1, <1>5, <1>6 DEF Jobs!Abandon, Jobs!Nobody, Nobody
<1> QED
  BY <1>4, <1>7 DEF Shown, Ordered, Jobs!Next

-----------------------------------------------------------------------------
(* The specification.                                                      *)

LEMMA StepOrders == Inv /\ WaitInv /\ [Next]_vars => WaitInv' /\ Ordered
<1> SUFFICES ASSUME Inv, WaitInv, [Next]_vars PROVE Shown
  BY DEF Shown
<1>1. Given
  BY StepCorrect DEF Given
<1> HIDE DEF Given, Shown
<1>2. ASSUME NEW t \in Task, Enqueue(t) PROVE Shown
  BY <1>1, <1>2, StepEnqueue
<1>3. CASE Keep \/ UNCHANGED vars
  BY <1>1, <1>3, StepKeep
<1>4. CASE SettleParked \/ SettleCall \/ SettleUnparked
  BY <1>1, <1>4, StepSettle
<1>5. CASE AwaitSettled
  BY <1>1, <1>5, StepAwaitSettled
<1>6. CASE AwaitPromise \/ AwaitCall
  BY <1>1, <1>6, StepAwaitPending
<1>7. CASE RunHost
  BY <1>1, <1>7, StepRunHost
<1>8. CASE Finish
  BY <1>1, <1>8, StepFinish
<1>9. CASE Pop
  BY <1>1, <1>9, StepPop
<1>10. CASE EndJob
  BY <1>1, <1>10, StepEndJob
<1>11. CASE Reached
  BY <1>1, <1>11, StepReached
<1>12. CASE RunDry
  BY <1>1, <1>12, StepRunDry
<1>13. CASE CallSettled
  BY <1>1, <1>13, StepCallSettled
<1>14. CASE EnterDrain \/ Quit
  BY <1>1, <1>14, StepExit
<1>15. CASE HostReturn \/ HostEnd
  BY <1>1, <1>15, StepHostEnds
<1>16. CASE AwaitAgain
  BY <1>1, <1>16, StepAwaitAgain
<1>17. CASE Cancel
  BY <1>1, <1>17, StepCancel
<1>18. CASE Exited
  BY <1>3, <1>18 DEF Exited
<1> QED
  BY <1>2, <1>3, <1>4, <1>5, <1>6, <1>7, <1>8, <1>9, <1>10, <1>11, <1>12, <1>13, <1>14,
     <1>15, <1>16, <1>17, <1>18 DEF Next, Progress

LEMMA InitOrders == Init => WaitInv /\ Jobs!Init
<1> SUFFICES ASSUME Init PROVE WaitInv /\ Jobs!Init
  OBVIOUS
<1>1. Inv
  BY InitCorrect
<1>2. Contents = <<>>
  BY <1>1, ContentsSeq DEF Init, Empty, Inv
<1>3. job \notin Entry \cup {Host}
  BY TaskAssumption DEF Init, Entry, Mark, Landing, Host, Nobody
<1>4. WaitInv
  BY <1>2, <1>3, NoWaitInEmpty DEF Init, WaitInv, NoWait, Entry
<1>5. Queued = <<>>
  BY <1>1, <1>2, QueuedIs DEF Init, Inv
<1>6. Running = "body"
  BY DEF Init, Running
<1> QED
  BY <1>4, <1>5, <1>6 DEF Init, Jobs!Init, Jobs!Body

\* Jobs run in the order they were queued, and an await of the body runs the
\* jobs a suspended body would have waited for, in every program: what the
\* ring, the watched bytes and the loops do is a step of the language's queue,
\* or the one step of a host job that queues behind what it has settled.
THEOREM OrderKept == Spec => OrderedButForHost
  BY InitOrders, StepOrders, InvAlways, PTL DEF Spec, OrderedButForHost, Ordered
=============================================================================
