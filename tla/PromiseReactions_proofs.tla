---------------------- MODULE PromiseReactions_proofs ----------------------
(***************************************************************************)
(* PromiseReactions for every set of cells and frames and all forms of     *)
(* return: no unobserved rejection leaves the list before the exit sweep,  *)
(* no reaction is left on a promise that has settled, a suspended async    *)
(* call is in exactly one place (a list, the queue, the code that runs),   *)
(* a back-pointer names a live pending promise whose list has what carries *)
(* it; for every finite set, a promise's strong word is the number of      *)
(* references the parts of the runtime hold on it (CountsOwners), and a    *)
(* promise somebody holds is reached from the program, the queue, the      *)
(* running code, the tracker or a pending promise (NothingLeaks).          *)
(*                                                                         *)
(* PlaceInv is inductive over Inv: a settlement of a promise that has      *)
(* settled already wakes the frames of its list, and Inv says that there   *)
(* are none. CountInv is inductive over both. Its sum counts entries, so   *)
(* that one link or job added or taken changes it by one; the property     *)
(* counts places, and the sums agree because a back-pointer is in one      *)
(* place.                                                                  *)
(***************************************************************************)
EXTENDS PromiseReactions, Filtering_proofs

-----------------------------------------------------------------------------
(* The rejections tracked, the reactions never stranded.                   *)

State == {"free", "pending"} \cup Outcome

\* The three words of a cell that the argument is about.
Words == /\ st \in [Cell -> State]
         /\ handled \in [Cell -> BOOLEAN]
         /\ DOMAIN list = Cell

\* A cell that is not pending has no callbacks: what is attached to a settled
\* promise is queued at once, and settling takes the whole list.
NoneStranded == \A c \in Cell : st[c] # "pending" => list[c] = <<>>

Inv == Words /\ UnobservedTracked /\ NoneStranded

\* All of the model's state a step may leave alone for Inv to be.
watched == <<st, handled, list, tracked>>

\* At first no cell is in use.
LEMMA InitInv == Init => Inv
  BY DEF Init, Inv, Words, State, Outcome, UnobservedTracked, NoneStranded

\* A step that changes no word of a cell and no entry keeps it.
LEMMA KeptInv == Inv /\ UNCHANGED watched => Inv'
  BY DEF Inv, Words, watched, UnobservedTracked, NoneStranded

\* Settling tracks what it rejects, whatever a full list drops, and leaves no
\* callback behind.
LEMMA SettleInv ==
  ASSUME Inv, NEW q, NEW c, NEW o, NEW taken, NEW given,
         Settle(q, c, o, taken, given), UNCHANGED handled
  PROVE  Inv'
<1>1. CASE st[c] # "pending"
  BY <1>1, KeptInv DEF Settle, watched
<1>2. CASE st[c] = "pending" /\ o = "fulfilled" /\ UNCHANGED tracked
  <2>1. /\ st' = [st EXCEPT ![c] = "fulfilled"]
        /\ list' = [list EXCEPT ![c] = <<>>]
    BY <1>2 DEF Settle
  <2>. QED
    BY <2>1, <1>2 DEF Inv, Words, State, Outcome, UnobservedTracked, NoneStranded
<1>3. CASE st[c] = "pending" /\ o = "rejected"
           /\ \E dropped \in {{}, Observed} : Track(c, dropped)
  <2>1. /\ st' = [st EXCEPT ![c] = "rejected"]
        /\ list' = [list EXCEPT ![c] = <<>>]
    BY <1>3 DEF Settle
  <2>2. /\ c \in tracked'
        /\ \A x \in tracked : ~handled[x] => x \in tracked'
    BY <1>3 DEF Track, Observed
  <2>3. Words' /\ NoneStranded'
    BY <2>1 DEF Inv, Words, State, Outcome, NoneStranded
  <2>4. UnobservedTracked'
    BY <2>1, <2>2 DEF Inv, Words, UnobservedTracked
  <2>. QED
    BY <2>3, <2>4 DEF Inv
<1>. QED
  BY <1>1, <1>2, <1>3 DEF Settle

\* s is attached to: it is handled from here on, and its list grows only while
\* it is pending.
Attached(s) ==
    /\ handled' = [handled EXCEPT ![s] = TRUE]
    /\ \/ UNCHANGED list
       \/ st[s] = "pending" /\ \E links : list' = [list EXCEPT ![s] = links]

\* A promise answers the call.
Answered == UNCHANGED st \/ \E d : st[d] = "free" /\ st' = [st EXCEPT ![d] = "pending"]

\* An attachment observes the promise, and leaves no callback on a settled one.
LEMMA AttachInv ==
  ASSUME Inv, NEW s, Attached(s), Answered, UNCHANGED tracked
  PROVE  Inv'
<1>1. Words'
  BY DEF Inv, Words, State, Outcome, Attached, Answered
<1>2. UnobservedTracked'
  BY DEF Inv, Words, UnobservedTracked, Attached, Answered
<1>3. NoneStranded'
  BY DEF Inv, Words, NoneStranded, Attached, Answered
<1>. QED
  BY <1>1, <1>2, <1>3 DEF Inv

\* attach_inline, __torajs_promise_attach_then and __torajs_frame_await_promise are
\* attachments.
LEMMA ReactionAttached ==
  ASSUME NEW s, NEW d, NEW kind, Attach(s, d, kind)
  PROVE  Attached(s)
  BY DEF Attach, Attached

\* The record of attach_then.
LEMMA RecordAttached ==
  ASSUME NEW q, NEW c, NEW record, AttachThen(q, c, record)
  PROVE  Attached(c)
  BY DEF AttachThen, Attached

\* The parked frame of frame_await_promise.
LEMMA FrameAttached ==
  ASSUME NEW f, NEW c, NEW row, NEW taken, FrameAwait(f, c, row, taken)
  PROVE  Attached(c)
  BY DEF FrameAwait, Attached

\* A waiter the settled promise had alone is run or woken without the queue.
LEMMA HandedOnInv ==
  ASSUME Inv, NEW d, st' = [st EXCEPT ![d] = "fulfilled"],
         list' = [list EXCEPT ![d] = <<>>], UNCHANGED <<handled, tracked>>
  PROVE  Inv'
  BY DEF Inv, Words, State, Outcome, UnobservedTracked, NoneStranded

\* Calls of the program.
LEMMA NewInv ==
  ASSUME Inv, NEW c \in Cell, NEW s \in {"pending", "fulfilled", "rejected"}, New(c, s)
  PROVE  Inv'
<1>1. /\ st' = [st EXCEPT ![c] = s]
      /\ st[c] = "free"
      /\ UNCHANGED <<handled, list>>
      /\ s = "rejected" => c \in tracked'
      /\ \A x \in tracked : ~handled[x] => x \in tracked'
  BY DEF New, Track, Observed
<1>2. Words' /\ NoneStranded'
  BY <1>1 DEF Inv, Words, State, Outcome, NoneStranded
<1>3. UnobservedTracked'
  BY <1>1 DEF Inv, Words, UnobservedTracked
<1>. QED
  BY <1>2, <1>3 DEF Inv

\* The new promise is pending and has no callback.
LEMMA ThenInv ==
  ASSUME Inv, NEW s \in Cell, NEW d \in Cell, NEW kind, Then(s, d, kind)
  PROVE  Inv'
<1>1. Answered /\ UNCHANGED tracked
  BY DEF Then, Answered
<1>. QED
  BY <1>1, ReactionAttached, AttachInv DEF Then

\* Likewise when the reaction is in a record (then2, finally, no handler).
LEMMA DeriveInv ==
  ASSUME Inv, NEW s \in Cell, NEW d \in Cell, NEW kind, Derive(s, d, kind)
  PROVE  Inv'
<1>1. Answered /\ UNCHANGED tracked
  BY DEF Derive, Answered
<1>2. Attached(s)
  BY RecordAttached DEF Derive
<1>. QED
  BY <1>1, <1>2, AttachInv

\* A call that awaits at once observes what it awaits.
LEMMA CallAsyncInv ==
  ASSUME Inv, NEW f \in Frame, NEW r \in Cell, NEW c \in Cell, CallAsync(f, r, c)
  PROVE  Inv'
<1>1. Answered /\ UNCHANGED tracked
  BY DEF CallAsync, Answered
<1>2. Attached(c)
  BY FrameAttached DEF CallAsync
<1>. QED
  BY <1>1, <1>2, AttachInv

\* So does a body that awaits again.
LEMMA BodyAwaitInv ==
  ASSUME Inv, NEW c \in Cell, BodyAwait(c)
  PROVE  Inv'
<1>1. Answered /\ UNCHANGED tracked
  BY DEF BodyAwait, Answered
<1>2. Attached(c)
  BY FrameAttached DEF BodyAwait
<1>. QED
  BY <1>1, <1>2, AttachInv

\* Ends of handlers and bodies.
LEMMA GeneralInv ==
  ASSUME Inv, NEW d, NEW o, NEW given, General(d, o, given)
  PROVE  Inv'
  BY SettleInv DEF General

\* A handler returns: its promise settles, runs its one waiter on, or adopts.
LEMMA HandlerEndInv ==
  ASSUME Inv, HandlerEnd
  PROVE  Inv'
<1>1. CASE IntoChain(run.d, run.src)
  BY <1>1, HandedOnInv DEF IntoChain
<1>2. CASE \E o, given : General(run.d, o, given)
  BY <1>2, GeneralInv
<1>3. CASE \E c, given : Adopt(run.d, c, given)
  BY <1>3, KeptInv DEF Adopt, watched
<1>. QED
  BY <1>1, <1>2, <1>3 DEF HandlerEnd

\* A finally returns: its promise settles, or waits for what was returned.
LEMMA FinallyEndInv ==
  ASSUME Inv, FinallyEnd
  PROVE  Inv'
<1>1. CASE \E o, given : General(run.d, o, given)
  BY <1>1, GeneralInv
<1>2. CASE /\ \E c \in handles : AttachThen(queue, c, WaitRecord(c, run.d, run.src))
           /\ UNCHANGED <<st, tracked>>
  <2>1. PICK c \in handles : AttachThen(queue, c, WaitRecord(c, run.d, run.src))
    BY <1>2
  <2>2. Attached(c)
    BY <2>1, RecordAttached
  <2>. QED
    BY <2>2, <1>2, AttachInv DEF Answered
<1>. QED
  BY <1>1, <1>2 DEF FinallyEnd

\* An async body ends: its result settles, wakes its one waiter, or adopts.
LEMMA BodyEndInv ==
  ASSUME Inv, BodyEnd
  PROVE  Inv'
<1>1. CASE \E f, r : WakeSole(f, r)
  BY <1>1, HandedOnInv DEF WakeSole
<1>2. CASE \E f, r, o : EndFrame(f, r, o)
  BY <1>2, SettleInv DEF EndFrame
<1>3. CASE UNCHANGED watched
  BY <1>3, KeptInv
<1>. QED
  BY <1>1, <1>2, <1>3 DEF BodyEnd, watched

\* Jobs.
LEMMA ReactInv ==
  ASSUME Inv, NEW q, NEW d, React(q, d)
  PROVE  Inv'
<1>1. CASE Call(q, d)
  BY <1>1, KeptInv DEF Call, watched
<1>2. CASE Forward(q, d)
  BY <1>2, SettleInv DEF Forward
<1>. QED
  BY <1>1, <1>2 DEF React

\* The job of an adoption observes the inner promise.
LEMMA RunAttachInv ==
  ASSUME Inv, RunAttach
  PROVE  Inv'
<1>1. Attached(Job.c)
  BY RecordAttached DEF RunAttach
<1>2. Answered /\ UNCHANGED tracked
  BY DEF RunAttach, Answered
<1>. QED
  BY <1>1, <1>2, AttachInv

\* Every job keeps it.
LEMMA JobInv ==
  ASSUME Inv,
         RunReact \/ RunNext \/ RunAttach \/ RunAdopt \/ RunRecord \/ RunWait
         \/ RunResume \/ RunFrame
  PROVE  Inv'
<1>1. CASE RunReact \/ RunNext
  BY <1>1, ReactInv DEF RunReact, RunNext
<1>2. CASE RunAttach
  BY <1>2, RunAttachInv
<1>3. CASE RunAdopt \/ RunWait
  BY <1>3, SettleInv DEF RunAdopt, RunWait
<1>4. CASE RunRecord
  BY <1>4, KeptInv DEF RunRecord, watched
<1>5. CASE RunResume \/ RunFrame
  BY <1>5, KeptInv DEF RunResume, RunFrame, Land, watched
<1>. QED
  BY <1>1, <1>2, <1>3, <1>4, <1>5

\* The teardown of a cell: it is neither rejected nor pending then.
LEMMA FreeCellInv ==
  ASSUME Inv, NEW c \in Cell, FreeCell(c)
  PROVE  Inv'
  BY DEF FreeCell, Inv, Words, State, Outcome, UnobservedTracked, NoneStranded

\* The invariant is inductive.
LEMMA StepInv == Inv /\ [Next]_vars => Inv'
<1>. SUFFICES ASSUME Inv, [Next]_vars
              PROVE  Inv'
  OBVIOUS
<1>1. ASSUME NEW c \in Cell,
             \/ \E s \in {"pending", "fulfilled", "rejected"} : New(c, s)
             \/ BodyAwait(c) \/ FreeCell(c)
      PROVE  Inv'
  BY <1>1, NewInv, BodyAwaitInv, FreeCellInv
<1>2. ASSUME NEW c \in Cell, \E o \in Outcome : Resolve(c, o)
      PROVE  Inv'
  BY <1>2, SettleInv DEF Resolve
<1>3. ASSUME NEW c \in Cell, Drop(c)
      PROVE  Inv'
  BY <1>3, KeptInv DEF Drop, watched
<1>4. ASSUME NEW s \in Cell, NEW d \in Cell,
             \/ \E kind \in {"then", "catch"} : Then(s, d, kind)
             \/ ThenNone(s, d) \/ ThenTwo(s, d) \/ Finally(s, d)
      PROVE  Inv'
  BY <1>4, ThenInv, DeriveInv DEF ThenNone, ThenTwo, Finally
<1>5. ASSUME NEW f \in Frame, NEW r \in Cell, NEW c \in Cell, CallAsync(f, r, c)
      PROVE  Inv'
  BY <1>5, CallAsyncInv
<1>6. CASE HandlerEnd \/ FinallyEnd \/ BodyEnd
  BY <1>6, HandlerEndInv, FinallyEndInv, BodyEndInv
<1>7. CASE MainEnd \/ BodyAwaitValue \/ Quiet \/ UNCHANGED vars
  BY <1>7, KeptInv DEF MainEnd, BodyAwaitValue, Quiet, vars, watched
<1>8. CASE RunReact \/ RunResume \/ RunNext \/ RunFrame \/ RunAttach \/ RunAdopt
           \/ RunRecord \/ RunWait
  BY <1>8, JobInv
<1>. QED
  BY <1>1, <1>2, <1>3, <1>4, <1>5, <1>6, <1>7, <1>8 DEF Next

\* Of every cell, at every step: its words are of their kinds, an unobserved
\* rejection is listed, and a settled one has no callbacks.
THEOREM InvHolds == Spec => []Inv
  BY InitInv, StepInv, PTL DEF Spec

\* A rejection no handler has observed is on the list of the exit sweep,
\* whatever compactions, adoptions, forwarded settlements and teardowns came
\* between (track_rejection, compact_observed, free_cell).
THEOREM RejectionsKept == Spec => []UnobservedTracked
<1>1. Inv => UnobservedTracked
  BY DEF Inv
<1>. QED
  BY <1>1, InvHolds, PTL

\* No reaction, record or frame is left on a promise that has settled
\* (drain_callbacks, settle_into_chain, wake_sole_waiter), nor on a cell the
\* pool hands out again (free_cell): each would never run.
THEOREM NoReactionStranded == Spec => []NoneStranded
<1>1. Inv => NoneStranded
  BY DEF Inv
<1>. QED
  BY <1>1, InvHolds, PTL

-----------------------------------------------------------------------------
(* The places of a suspended call, and the back-pointers.                  *)

Word == Cell \cup {NULL}
Row == [at : {"none", "parked", "queued", "running"}, src : Word, result : Word]

\* What the code that runs has in hand.
RunOK == /\ run.k \in {"handler", "next"} => run.d \in Cell
         /\ run.k = "handler" /\ run.of = "finally" => run.src \in Cell
         /\ run.k \in {"body", "wake"} => run.f \in Frame

Types == /\ st \in [Cell -> State]
         /\ list \in [Cell -> Seq(Link)]
         /\ queue \in Seq(JobSet)
         /\ rx \in [Cell -> [kind : {"none", "then", "catch"}, src : Word]]
         /\ frames \in [Frame -> Row]
         /\ handles \subseteq Cell
         /\ RunOK

\* s has e; has it at one place at most.
Has(s, e) == \E i \in DOMAIN s : s[i] = e
Once(s, e) == \A i, j \in DOMAIN s : s[i] = e /\ s[j] = e => i = j

\* The running code r goes on with frame f; is f's body.
Wakes(r, f) == r.k = "wake" /\ r.f = f
Runs(r, f) == r.k = "body" /\ r.f = f

\* Frame f, whose words are row, over lists l, the queue q and the running code
\* r: it is parked in one list, once, or queued once, or runs.
At(f, row, l, q, r) ==
    /\ row.at # "none" => row.result \in Cell
    /\ row.at = "parked" => row.src \in Cell /\ Has(l[row.src], Parked(f))
    /\ row.at = "queued" <=> Wakes(r, f) \/ Has(q, ResumeJob(f))
    /\ row.at = "running" <=> Runs(r, f)
    /\ ~(Wakes(r, f) /\ Has(q, ResumeJob(f)))
    /\ Once(q, ResumeJob(f))
    /\ \A p \in Cell : /\ Has(l[p], Parked(f)) => row.at = "parked" /\ row.src = p
                       /\ Once(l[p], Parked(f))

\* A suspended call has one thing that will resume it.
FramesPlaced == \A f \in Frame : At(f, frames[f], list, queue, run)

\* The reaction of d, whose words are row, over states s, lists l, the queue q and
\* the running code r: unless its job is due, the promise it names is pending and
\* has it in its list.
Backed(d, row, s, l, q, r) ==
    \/ row.src = NULL
    \/ Has(q, ReactJob(d))
    \/ r = [k |-> "next", d |-> d]
    \/ s[row.src] = "pending" /\ Has(l[row.src], Inline(d))

ReactionsBacked == \A d \in Cell : Backed(d, rx[d], st, list, queue, run)

PlaceInv == Types /\ FramesPlaced /\ ReactionsBacked

-----------------------------------------------------------------------------
(* Links, jobs and sequences of them.                                      *)

\* A list entry's kind tells what it carries.
LEMMA LinkKinds ==
  ASSUME NEW link \in Link
  PROVE  /\ link.k = "inline" => link.d \in Cell /\ link = Inline(link.d)
         /\ link.k = "frame" => link.f \in Frame /\ link = Parked(link.f)
         /\ IsRecord(link) => link \in Records
  BY DEF Link, Inline, Parked, Records, Record, WaitRecord, IsRecord

\* So does a job's.
LEMMA JobKinds ==
  ASSUME NEW job \in JobSet
  PROVE  /\ job.k = "react" => job.d \in Cell /\ job = ReactJob(job.d)
         /\ job.k = "resume" => job.f \in Frame /\ job = ResumeJob(job.f)
         /\ job.k \in {"attach", "adopt", "both", "finally", "wait"}
              => job.c \in Cell /\ job.d \in Cell
         /\ job.k = "wait" => job.s \in Cell
         /\ job.k \in {"react", "resume", "attach", "adopt", "both", "finally", "wait"}
  BY DEF JobSet, ReactJob, ResumeJob, AttachJob, Records, Record, WaitRecord

\* Jobs of different kinds or of different cells and frames are different.
LEMMA JobsDiffer ==
  /\ \A d, e \in Cell : ReactJob(d) = ReactJob(e) => d = e
  /\ \A f, g \in Frame : ResumeJob(f) = ResumeJob(g) => f = g
  /\ \A f, g \in Frame : Parked(f) = Parked(g) => f = g
  /\ \A d, e \in Cell : Inline(d) = Inline(e) => d = e
  /\ \A d \in Cell, f \in Frame : ReactJob(d) # ResumeJob(f) /\ Inline(d) # Parked(f)
  /\ \A c, e \in Cell : /\ \A d \in Cell : AttachJob(c, e) # ReactJob(d)
                        /\ \A f \in Frame : AttachJob(c, e) # ResumeJob(f)
  BY DEF ReactJob, ResumeJob, Parked, Inline, AttachJob, Records, Record, WaitRecord

\* A record is neither an inline reaction nor a frame, in a list or in the queue.
LEMMA RecordsDiffer ==
  ASSUME NEW r \in Records
  PROVE  /\ \A d \in Cell : r # ReactJob(d) /\ r # Inline(d)
         /\ \A f \in Frame : r # ResumeJob(f) /\ r # Parked(f)
  BY DEF ReactJob, ResumeJob, Parked, Inline, Records, Record, WaitRecord

\* What the code makes are links and jobs.
LEMMA MadeOK ==
  /\ \A d \in Cell : ReactJob(d) \in JobSet /\ Inline(d) \in Link
  /\ \A f \in Frame : ResumeJob(f) \in JobSet /\ Parked(f) \in Link
  /\ \A c, d \in Cell : AttachJob(c, d) \in JobSet
  /\ \A r \in Records : r \in JobSet /\ r \in Link
  /\ \A kind \in {"adopt", "both", "finally"} : \A c, d \in Cell : Record(kind, c, d) \in Records
  /\ \A c, d, s \in Cell : WaitRecord(c, d, s) \in Records
  BY DEF JobSet, Link, Records

\* What a link becomes when its list is drained.
LEMMA JobOfLink ==
  ASSUME NEW link \in Link
  PROVE  /\ JobOf(link) \in JobSet
         /\ \A d \in Cell : JobOf(link) = ReactJob(d) <=> link = Inline(d)
         /\ \A f \in Frame : JobOf(link) = ResumeJob(f) <=> link = Parked(f)
<1>1. ASSUME NEW d \in Cell, link = Inline(d)
      PROVE  JobOf(link) = ReactJob(d)
  BY <1>1 DEF JobOf, Inline
<1>2. ASSUME NEW f \in Frame, link = Parked(f)
      PROVE  JobOf(link) = ResumeJob(f)
  BY <1>2 DEF JobOf, Parked
<1>3. ASSUME link \in Records
      PROVE  JobOf(link) = link
  BY <1>3 DEF JobOf, Records, Record, WaitRecord
<1>4. CASE link \in Records
  <2>1. JobOf(link) = link
    BY <1>3, <1>4
  <2>2. link \in JobSet
    BY <1>4, MadeOK
  <2>. QED
    BY <2>1, <2>2, <1>4, RecordsDiffer
<1>5. CASE \E d \in Cell : link = Inline(d)
  <2>1. PICK d \in Cell : link = Inline(d)
    BY <1>5
  <2>2. JobOf(link) = ReactJob(d)
    BY <2>1, <1>1
  <2>. QED
    BY <2>1, <2>2, MadeOK, JobsDiffer
<1>6. CASE \E f \in Frame : link = Parked(f)
  <2>1. PICK f \in Frame : link = Parked(f)
    BY <1>6
  <2>2. JobOf(link) = ResumeJob(f)
    BY <2>1, <1>2
  <2>. QED
    BY <2>1, <2>2, MadeOK, JobsDiffer
<1>. QED
  BY <1>4, <1>5, <1>6 DEF Link

\* drain_callbacks: as many jobs as there were links, in the reverse order.
LEMMA DrainAt ==
  ASSUME Types, NEW c \in Cell
  PROVE  /\ DrainJobs(c) \in Seq(JobSet)
         /\ Len(DrainJobs(c)) = Len(list[c])
         /\ Len(list[c]) \in Nat /\ DOMAIN list[c] = 1 .. Len(list[c])
         /\ \A i \in DOMAIN list[c] : list[c][i] \in Link
         /\ \A i \in 1 .. Len(list[c]) :
               DrainJobs(c)[i] = JobOf(list[c][Len(list[c]) + 1 - i])
<1>1. /\ list[c] \in Seq(Link)
      /\ Len(list[c]) \in Nat /\ DOMAIN list[c] = 1 .. Len(list[c])
      /\ \A i \in DOMAIN list[c] : list[c][i] \in Link
  BY DEF Types
<1>2. DrainJobs(c) = [i \in 1 .. Len(list[c]) |-> JobOf(list[c][Len(list[c]) + 1 - i])]
  BY <1>1 DEF DrainJobs, Drained
<1>3. \A i \in 1 .. Len(list[c]) : JobOf(list[c][Len(list[c]) + 1 - i]) \in JobSet
  BY <1>1, JobOfLink
<1>. QED
  BY <1>1, <1>2, <1>3

\* What is in a sequence, and how often, once it has grown or lost its head.
LEMMA AppendHas ==
  ASSUME NEW S, NEW q \in Seq(S), NEW e \in S, NEW x
  PROVE  /\ Append(q, e) \in Seq(S)
         /\ Has(Append(q, e), x) <=> Has(q, x) \/ x = e
         /\ Once(q, x) /\ (x = e => ~Has(q, x)) => Once(Append(q, e), x)
  BY AppendAt DEF Has, Once

\* What two sequences have, they have together; once, if only one has it, once.
LEMMA ConcatHas ==
  ASSUME NEW S, NEW q \in Seq(S), NEW w \in Seq(S), NEW x
  PROVE  /\ q \o w \in Seq(S)
         /\ Has(q \o w, x) <=> Has(q, x) \/ Has(w, x)
         /\ Once(q, x) /\ Once(w, x) /\ ~(Has(q, x) /\ Has(w, x)) => Once(q \o w, x)
<1>1. ASSUME NEW i \in DOMAIN q, q[i] = x
      PROVE  Has(q \o w, x)
  <2>1. i \in DOMAIN (q \o w) /\ (q \o w)[i] = x
    BY <1>1, ConcatAt
  <2>. QED
    BY <2>1 DEF Has
<1>2. ASSUME NEW i \in DOMAIN w, w[i] = x
      PROVE  Has(q \o w, x)
  <2>1. Len(q) + i \in DOMAIN (q \o w) /\ (q \o w)[Len(q) + i] = x
    BY <1>2, ConcatAt
  <2>. QED
    BY <2>1 DEF Has
<1>3. ASSUME NEW i \in DOMAIN (q \o w), (q \o w)[i] = x
      PROVE  \/ i \in DOMAIN q /\ q[i] = x
             \/ i - Len(q) \in DOMAIN w /\ w[i - Len(q)] = x
  BY <1>3, ConcatAt
<1>4. Has(q \o w, x) => Has(q, x) \/ Has(w, x)
  BY <1>3 DEF Has
<1>5. ASSUME Once(q, x), Once(w, x), ~(Has(q, x) /\ Has(w, x)),
             NEW i \in DOMAIN (q \o w), (q \o w)[i] = x,
             NEW j \in DOMAIN (q \o w), (q \o w)[j] = x
      PROVE  i = j
  <2>1. i \in Nat /\ j \in Nat /\ Len(q) \in Nat
    BY ConcatAt
  <2>2. CASE Has(w, x)
    <3>1. i - Len(q) = j - Len(q)
      BY <1>3, <1>5, <2>2 DEF Has, Once
    <3>. QED
      BY <3>1, <2>1
  <2>3. CASE ~Has(w, x)
    BY <1>3, <1>5, <2>3 DEF Has, Once
  <2>. QED
    BY <2>2, <2>3
<1>6. Once(q, x) /\ Once(w, x) /\ ~(Has(q, x) /\ Has(w, x)) => Once(q \o w, x)
  BY <1>5 DEF Once
<1>. QED
  BY <1>1, <1>2, <1>4, <1>6, ConcatAt DEF Has

\* A list that grows at its head.
LEMMA ConsHas ==
  ASSUME NEW S, NEW q \in Seq(S), NEW e \in S, NEW x
  PROVE  /\ <<e>> \o q \in Seq(S)
         /\ Has(<<e>> \o q, x) <=> Has(q, x) \/ x = e
         /\ Once(q, x) /\ (x = e => ~Has(q, x)) => Once(<<e>> \o q, x)
<1>1. <<e>> \in Seq(S) /\ DOMAIN <<e>> = {1} /\ <<e>>[1] = e
  OBVIOUS
<1>2. (Has(<<e>>, x) <=> x = e) /\ Once(<<e>>, x)
  BY <1>1 DEF Has, Once
<1>. QED
  BY <1>1, <1>2, ConcatHas

\* What a queue has left once its head is taken.
LEMMA TailHas ==
  ASSUME NEW S, NEW q \in Seq(S), q # <<>>, NEW x
  PROVE  /\ Tail(q) \in Seq(S) /\ Head(q) \in S
         /\ Has(q, x) <=> x = Head(q) \/ Has(Tail(q), x)
         /\ Once(q, x) => Once(Tail(q), x) /\ ~(x = Head(q) /\ Has(Tail(q), x))
<1>1. ASSUME NEW i \in DOMAIN Tail(q)
      PROVE  /\ i \in Nat /\ i + 1 \in DOMAIN q /\ i + 1 # 1
             /\ q[i + 1] = Tail(q)[i]
  BY TailAt
<1>2. ASSUME NEW i \in DOMAIN q, i # 1
      PROVE  i \in Nat /\ i - 1 \in DOMAIN Tail(q) /\ Tail(q)[i - 1] = q[i]
  <2>1. /\ DOMAIN q = 1 .. Len(q) /\ Len(q) \in Nat
        /\ DOMAIN Tail(q) = 1 .. Len(q) - 1
    BY TailAt
  <2>2. i \in Nat /\ i - 1 \in 1 .. Len(q) - 1 /\ (i - 1) + 1 = i
    BY <1>2, <2>1
  <2>3. Tail(q)[i - 1] = q[(i - 1) + 1]
    BY <2>2, TailAt
  <2>. QED
    BY <2>1, <2>2, <2>3
<1>3. 1 \in DOMAIN q /\ q[1] = Head(q)
  BY TailAt
<1>7. ASSUME Has(q, x)
      PROVE  x = Head(q) \/ Has(Tail(q), x)
  <2>1. PICK i \in DOMAIN q : q[i] = x
    BY <1>7 DEF Has
  <2>. QED
    BY <1>2, <1>3, <2>1 DEF Has
<1>8. ASSUME Has(Tail(q), x)
      PROVE  Has(q, x)
  <2>1. PICK i \in DOMAIN Tail(q) : Tail(q)[i] = x
    BY <1>8 DEF Has
  <2>2. i + 1 \in DOMAIN q /\ q[i + 1] = x
    BY <1>1, <2>1
  <2>. QED
    BY <2>2 DEF Has
<1>4. Has(q, x) <=> x = Head(q) \/ Has(Tail(q), x)
  BY <1>3, <1>7, <1>8 DEF Has
<1>5. ASSUME Once(q, x)
      PROVE  Once(Tail(q), x)
  <2>1. ASSUME NEW i \in DOMAIN Tail(q), NEW j \in DOMAIN Tail(q),
               Tail(q)[i] = x, Tail(q)[j] = x
        PROVE  i = j
    <3>1. i + 1 = j + 1
      BY <1>1, <1>5, <2>1 DEF Once
    <3>. QED
      BY <1>1, <3>1
  <2>. QED
    BY <2>1 DEF Once
<1>6. Once(q, x) => ~(x = Head(q) /\ Has(Tail(q), x))
  BY <1>1, <1>3 DEF Has, Once
<1>. QED
  BY <1>4, <1>5, <1>6, TailAt

\* Of a drained list.
LEMMA DrainHas ==
  ASSUME Types, NEW c \in Cell
  PROVE  /\ DrainJobs(c) \in Seq(JobSet)
         /\ \A d \in Cell :
               /\ Has(DrainJobs(c), ReactJob(d)) <=> Has(list[c], Inline(d))
               /\ Once(list[c], Inline(d)) => Once(DrainJobs(c), ReactJob(d))
         /\ \A f \in Frame :
               /\ Has(DrainJobs(c), ResumeJob(f)) <=> Has(list[c], Parked(f))
               /\ Once(list[c], Parked(f)) => Once(DrainJobs(c), ResumeJob(f))
<1>. DEFINE jobs == DrainJobs(c)
            links == list[c]
            n == Len(list[c])
<1>1. /\ jobs \in Seq(JobSet) /\ n \in Nat
      /\ DOMAIN jobs = 1 .. n /\ DOMAIN links = 1 .. n
  BY DrainAt
<1>2. ASSUME NEW i \in 1 .. n
      PROVE  /\ n + 1 - i \in 1 .. n
             /\ n + 1 - (n + 1 - i) = i
  BY <1>1
<1>3. ASSUME NEW i \in 1 .. n
      PROVE  /\ \A d \in Cell : jobs[i] = ReactJob(d) <=> links[n + 1 - i] = Inline(d)
             /\ \A f \in Frame : jobs[i] = ResumeJob(f) <=> links[n + 1 - i] = Parked(f)
  BY <1>1, <1>2, DrainAt, JobOfLink
<1>. HIDE DEF jobs, links, n
<1>4. ASSUME NEW d \in Cell
      PROVE  Has(jobs, ReactJob(d)) <=> Has(links, Inline(d))
  BY <1>1, <1>2, <1>3 DEF Has
<1>5. ASSUME NEW f \in Frame
      PROVE  Has(jobs, ResumeJob(f)) <=> Has(links, Parked(f))
  BY <1>1, <1>2, <1>3 DEF Has
<1>6. ASSUME NEW f \in Frame, Once(links, Parked(f)),
             NEW i \in 1 .. n, NEW j \in 1 .. n,
             jobs[i] = ResumeJob(f), jobs[j] = ResumeJob(f)
      PROVE  i = j
  <2>1. n + 1 - i = n + 1 - j
    BY <1>1, <1>2, <1>3, <1>6 DEF Once
  <2>. QED
    BY <1>1, <2>1
<1>7. ASSUME NEW f \in Frame, Once(links, Parked(f))
      PROVE  Once(jobs, ResumeJob(f))
  BY <1>1, <1>6, <1>7 DEF Once
<1>8. ASSUME NEW d \in Cell, Once(links, Inline(d)),
             NEW i \in 1 .. n, NEW j \in 1 .. n,
             jobs[i] = ReactJob(d), jobs[j] = ReactJob(d)
      PROVE  i = j
  <2>1. n + 1 - i = n + 1 - j
    BY <1>1, <1>2, <1>3, <1>8 DEF Once
  <2>. QED
    BY <1>1, <2>1
<1>9. ASSUME NEW d \in Cell, Once(links, Inline(d))
      PROVE  Once(jobs, ReactJob(d))
  BY <1>1, <1>8, <1>9 DEF Once
<1>. QED
  BY <1>1, <1>4, <1>5, <1>7, <1>9 DEF jobs, links

\* Nothing is in an empty list.
LEMMA EmptyHas ==
  ASSUME NEW x
  PROVE  ~Has(<<>>, x) /\ Once(<<>>, x)
  BY DEF Has, Once

-----------------------------------------------------------------------------
(* What the parts of a step do to a frame's place and to a back-pointer.   *)

\* Another frame's job, or a reaction's, leaves a frame in its place.
LEMMA PushAt ==
  ASSUME NEW f \in Frame, NEW row, NEW l, NEW q \in Seq(JobSet), NEW r, NEW e \in JobSet,
         At(f, row, l, q, r), e # ResumeJob(f)
  PROVE  At(f, row, l, Append(q, e), r)
<1>1. /\ Has(Append(q, e), ResumeJob(f)) <=> Has(q, ResumeJob(f))
      /\ Once(q, ResumeJob(f)) => Once(Append(q, e), ResumeJob(f))
  BY AppendHas
<1>. QED
  BY <1>1 DEF At

\* So does the head of the queue when it is taken, unless it is the frame's job.
LEMMA PopAt ==
  ASSUME NEW f \in Frame, NEW row, NEW l, NEW q \in Seq(JobSet), NEW r, q # <<>>,
         At(f, row, l, q, r), Head(q) # ResumeJob(f)
  PROVE  At(f, row, l, Tail(q), r)
<1>1. /\ Has(Tail(q), ResumeJob(f)) <=> Has(q, ResumeJob(f))
      /\ Once(q, ResumeJob(f)) => Once(Tail(q), ResumeJob(f))
  BY TailHas
<1>. QED
  BY <1>1 DEF At

\* So does a new callback of any cell.
LEMMA LinkAt ==
  ASSUME NEW f \in Frame, NEW row, NEW l \in [Cell -> Seq(Link)], NEW q, NEW r,
         NEW c \in Cell, NEW link \in Link,
         At(f, row, l, q, r), link # Parked(f)
  PROVE  At(f, row, [l EXCEPT ![c] = <<link>> \o @], q, r)
<1>. DEFINE m == [l EXCEPT ![c] = <<link>> \o @]
<1>1. ASSUME NEW p \in Cell
      PROVE  /\ Has(m[p], Parked(f)) <=> Has(l[p], Parked(f))
             /\ Once(l[p], Parked(f)) => Once(m[p], Parked(f))
  BY ConsHas
<1>. HIDE DEF m
<1>2. At(f, row, m, q, r)
  BY <1>1 DEF At
<1>. QED
  BY <1>2 DEF m

\* A new job leaves a back-pointer in order.
LEMMA PushBacked ==
  ASSUME NEW d \in Cell, NEW row, NEW s, NEW l, NEW q \in Seq(JobSet), NEW r,
         NEW e \in JobSet, Backed(d, row, s, l, q, r)
  PROVE  Backed(d, row, s, l, Append(q, e), r)
<1>1. Has(q, ReactJob(d)) => Has(Append(q, e), ReactJob(d))
  BY AppendHas
<1>. QED
  BY <1>1 DEF Backed

\* So does the head of the queue when it is taken, unless it is the reaction's job.
LEMMA PopBacked ==
  ASSUME NEW d \in Cell, NEW row, NEW s, NEW l, NEW q \in Seq(JobSet), NEW r,
         q # <<>>, Backed(d, row, s, l, q, r), Head(q) # ReactJob(d)
  PROVE  Backed(d, row, s, l, Tail(q), r)
<1>1. Has(q, ReactJob(d)) => Has(Tail(q), ReactJob(d))
  BY TailHas
<1>. QED
  BY <1>1 DEF Backed

\* So does a new callback of any cell.
LEMMA LinkBacked ==
  ASSUME NEW d \in Cell, NEW row, row.src \in Word, NEW s, NEW l \in [Cell -> Seq(Link)],
         NEW q, NEW r, NEW c \in Cell, NEW link \in Link, Backed(d, row, s, l, q, r)
  PROVE  Backed(d, row, s, [l EXCEPT ![c] = <<link>> \o @], q, r)
<1>1. ASSUME NEW p \in Cell, Has(l[p], Inline(d))
      PROVE  Has([l EXCEPT ![c] = <<link>> \o @][p], Inline(d))
  BY <1>1, ConsHas
<1>. QED
  BY <1>1 DEF Backed, Word

\* The code that runs resumes no frame and no reaction.
Plain(r) == r.k \notin {"wake", "body", "next"}

\* The running code may change while it resumes no frame.
LEMMA PlainAt ==
  ASSUME NEW f \in Frame, NEW row, NEW l, NEW q, NEW r, NEW t, Plain(r), Plain(t),
         At(f, row, l, q, r)
  PROVE  At(f, row, l, q, t)
  BY DEF At, Plain, Wakes, Runs

\* Nor any reaction.
LEMMA PlainBacked ==
  ASSUME NEW d \in Cell, NEW row, NEW s, NEW l, NEW q, NEW r, NEW t, Plain(r),
         Backed(d, row, s, l, q, r)
  PROVE  Backed(d, row, s, l, q, t)
  BY DEF Backed, Plain

\* What a settlement of c behind the jobs q does to states, lists and queue.
Settled(q, c) ==
    \/ /\ st[c] # "pending"
       /\ queue' = q
       /\ UNCHANGED <<st, list>>
    \/ /\ st[c] = "pending"
       /\ \E o \in Outcome : st' = [st EXCEPT ![c] = o]
       /\ list' = [list EXCEPT ![c] = <<>>]
       /\ queue' = q \o DrainJobs(c)

\* __torajs_promise_resolve and reject, with any references.
LEMMA SettleSettled ==
  ASSUME NEW q, NEW c, NEW o, NEW taken, NEW given, Settle(q, c, o, taken, given)
  PROVE  Settled(q, c)
  BY DEF Settle, Settled, Outcome

\* A settlement leaves words of their kinds.
LEMMA SettleTypes ==
  ASSUME Types, NEW q \in Seq(JobSet), NEW c \in Cell,
         Settled(q, c)
  PROVE  /\ st' \in [Cell -> State]
         /\ list' \in [Cell -> Seq(Link)]
         /\ queue' \in Seq(JobSet)
         /\ Woken(c) \in [Frame -> Row]
<1>1. DrainJobs(c) \in Seq(JobSet)
  BY DrainHas
<1>2. q \o DrainJobs(c) \in Seq(JobSet)
  BY <1>1
<1>3. st' \in [Cell -> State]
  BY DEF Settled, Types, State, Outcome
<1>4. list' \in [Cell -> Seq(Link)] /\ queue' \in Seq(JobSet)
  <2>1. CASE st[c] # "pending"
    BY <2>1 DEF Settled, Types
  <2>2. CASE st[c] = "pending"
    <3>1. list' = [list EXCEPT ![c] = <<>>] /\ queue' = q \o DrainJobs(c)
      BY <2>2 DEF Settled
    <3>2. <<>> \in Seq(Link)
      OBVIOUS
    <3>. QED
      BY <1>2, <3>1, <3>2 DEF Types
  <2>. QED
    BY <2>1, <2>2
<1>5. Woken(c) \in [Frame -> Row]
  BY DEF Woken, Types, Row, Word
<1>. QED
  BY <1>3, <1>4, <1>5

\* A settlement moves the frames parked on the promise to the queue, each once.
LEMMA SettleAt ==
  ASSUME Types, NoneStranded, NEW q \in Seq(JobSet), NEW c \in Cell, NEW r, NEW f \in Frame,
         Settled(q, c), At(f, frames[f], list, q, r)
  PROVE  At(f, Woken(c)[f], list', queue', r)
<1>. DEFINE row == Woken(c)[f]
<1>1. row = IF Has(list[c], Parked(f))
            THEN [frames[f] EXCEPT !.at = "queued", !.src = c] ELSE frames[f]
  BY DEF Woken, Has
<1>2. CASE st[c] # "pending"
  <2>1. ~Has(list[c], Parked(f))
    BY <1>2, EmptyHas DEF NoneStranded
  <2>2. queue' = q /\ list' = list
    BY <1>2 DEF Settled
  <2>. QED
    BY <2>1, <2>2, <1>1
<1>3. CASE st[c] = "pending"
  <2>1. queue' = q \o DrainJobs(c) /\ list' = [list EXCEPT ![c] = <<>>]
    BY <1>3 DEF Settled
  <2>2. ASSUME NEW p \in Cell
        PROVE  /\ p # c => list'[p] = list[p]
               /\ p = c => ~Has(list'[p], Parked(f)) /\ Once(list'[p], Parked(f))
    BY <2>1, EmptyHas DEF Types
  <2>3. /\ Has(queue', ResumeJob(f)) <=> Has(q, ResumeJob(f)) \/ Has(list[c], Parked(f))
        /\ /\ Once(q, ResumeJob(f)) /\ Once(list[c], Parked(f))
           /\ ~(Has(q, ResumeJob(f)) /\ Has(list[c], Parked(f)))
           => Once(queue', ResumeJob(f))
    BY <2>1, DrainHas, ConcatHas
  <2>4. CASE Has(list[c], Parked(f))
    <3>1. row.at = "queued" /\ row.src = c /\ row.result = frames[f].result
      BY <2>4, <1>1 DEF Types, Row
    <3>. HIDE DEF row
    <3>2. At(f, row, list', queue', r)
      BY <2>2, <2>3, <2>4, <3>1 DEF At
    <3>. QED
      BY <3>2 DEF row
  <2>5. CASE ~Has(list[c], Parked(f))
    <3>1. row = frames[f]
      BY <2>5, <1>1
    <3>. QED
      BY <2>2, <2>3, <2>5, <3>1 DEF At
  <2>. QED
    BY <2>4, <2>5
<1>. QED
  BY <1>2, <1>3

\* A settlement moves the reactions on the promise to the queue.
LEMMA SettleBacked ==
  ASSUME Types, NEW q \in Seq(JobSet), NEW c \in Cell, NEW r, NEW d \in Cell, NEW row, row.src \in Word,
         Settled(q, c), Backed(d, row, st, list, q, r)
  PROVE  Backed(d, row, st', list', queue', r)
<1>1. CASE st[c] # "pending"
  BY <1>1 DEF Settled
<1>2. CASE st[c] = "pending"
  <2>1. /\ queue' = q \o DrainJobs(c) /\ list' = [list EXCEPT ![c] = <<>>]
        /\ \A p \in Cell : p # c => st'[p] = st[p] /\ list'[p] = list[p]
    BY <1>2 DEF Settled, Types
  <2>2. Has(q, ReactJob(d)) \/ Has(list[c], Inline(d)) => Has(queue', ReactJob(d))
    BY <2>1, DrainHas, ConcatHas
  <2>3. ASSUME row.src \in Cell, row.src # c, st[row.src] = "pending",
               Has(list[row.src], Inline(d))
        PROVE  Backed(d, row, st', list', queue', r)
    <3>1. st'[row.src] = st[row.src] /\ list'[row.src] = list[row.src]
      BY <2>1, <2>3
    <3>. QED
      BY <3>1, <2>3 DEF Backed
  <2>. QED
    BY <2>2, <2>3 DEF Backed, Word
<1>. QED
  BY <1>1, <1>2

-----------------------------------------------------------------------------
(* The program's calls.                                                    *)

\* A fresh cell is in no list and no reaction names it.
LEMMA NewPlaces ==
  ASSUME PlaceInv, NEW c \in Cell, NEW s \in {"pending", "fulfilled", "rejected"}, New(c, s)
  PROVE  PlaceInv'
<1>1. /\ st[c] = "free" /\ st' = [st EXCEPT ![c] = s]
      /\ handles' = handles \cup {c}
      /\ UNCHANGED <<list, rx, frames, queue, run>>
  BY DEF New
<1>2. Types'
  BY <1>1 DEF PlaceInv, Types, RunOK, State, Outcome
<1>3. FramesPlaced'
  BY <1>1 DEF PlaceInv, FramesPlaced
<1>4. ASSUME NEW d \in Cell
      PROVE  Backed(d, rx[d], st', list, queue, run)
  <2>1. rx[d].src \in Word
    BY DEF PlaceInv, Types
  <2>2. \A p \in Cell : st[p] = "pending" => st'[p] = "pending"
    BY <1>1 DEF PlaceInv, Types
  <2>. QED
    BY <2>1, <2>2 DEF PlaceInv, ReactionsBacked, Backed, Word
<1>. QED
  BY <1>1, <1>2, <1>3, <1>4 DEF PlaceInv, ReactionsBacked

\* A reaction of a pending promise is in its list, of a settled one in the queue.
LEMMA ThenPlaces ==
  ASSUME PlaceInv, NEW s \in Cell, NEW d \in Cell, NEW kind \in {"then", "catch"},
         Then(s, d, kind)
  PROVE  PlaceInv'
<1>1. /\ st[d] = "free" /\ st' = [st EXCEPT ![d] = "pending"]
      /\ rx' = [rx EXCEPT ![d] = [kind |-> kind, src |-> s]]
      /\ handles' = handles \cup {d}
      /\ UNCHANGED <<frames, run>>
  BY DEF Then, Attach
<1>2. /\ st' \in [Cell -> State]
      /\ rx' \in [Cell -> [kind : {"none", "then", "catch"}, src : Word]]
      /\ handles' \subseteq Cell /\ frames' \in [Frame -> Row] /\ RunOK'
  BY <1>1 DEF PlaceInv, Types, RunOK, State, Word
<1>3. /\ list \in [Cell -> Seq(Link)] /\ queue \in Seq(JobSet)
      /\ \A e \in Cell : rx[e].src \in Word
      /\ \A p \in Cell : st[p] = "pending" => st'[p] = "pending"
  BY <1>1 DEF PlaceInv, Types
<1>4. ASSUME NEW e \in Cell, e # d
      PROVE  Backed(e, rx'[e], st', list, queue, run)
  <2>1. rx'[e] = rx[e]
    BY <1>1, <1>4 DEF PlaceInv, Types
  <2>. QED
    BY <1>3, <2>1 DEF PlaceInv, ReactionsBacked, Backed, Word
<1>5. CASE st[s] = "pending"
  <2>1. list' = [list EXCEPT ![s] = <<Inline(d)>> \o @] /\ queue' = queue
    BY <1>5 DEF Then, Attach
  <2>2. Inline(d) \in Link
    BY MadeOK
  <2>3. list' \in [Cell -> Seq(Link)] /\ Has(list'[s], Inline(d))
    BY <1>3, <2>1, <2>2, ConsHas
  <2>4. FramesPlaced'
    BY <1>1, <1>3, <2>1, <2>2, LinkAt, JobsDiffer DEF PlaceInv, FramesPlaced
  <2>5. ASSUME NEW e \in Cell
        PROVE  Backed(e, rx'[e], st', list', queue', run')
    <3>1. CASE e = d
      <4>1. rx'[d].src = s /\ st'[s] = "pending"
        BY <1>1, <1>3, <1>5 DEF PlaceInv, Types
      <4>. QED
        BY <2>3, <3>1, <4>1 DEF Backed
    <3>2. CASE e # d
      <4>1. rx'[e].src \in Word
        BY <1>2
      <4>2. Backed(e, rx'[e], st', list, queue, run)
        BY <1>4, <3>2
      <4>3. Backed(e, rx'[e], st', [list EXCEPT ![s] = <<Inline(d)>> \o @], queue, run)
        BY <1>3, <2>2, <4>1, <4>2, LinkBacked
      <4>. QED
        BY <1>1, <2>1, <4>3
    <3>. QED
      BY <3>1, <3>2
  <2>. QED
    BY <1>2, <1>3, <2>1, <2>3, <2>4, <2>5 DEF PlaceInv, Types, ReactionsBacked
<1>6. CASE st[s] # "pending"
  <2>1. queue' = Append(queue, ReactJob(d)) /\ list' = list
    BY <1>6 DEF Then, Attach
  <2>2. ReactJob(d) \in JobSet
    BY MadeOK
  <2>3. queue' \in Seq(JobSet) /\ Has(queue', ReactJob(d))
    BY <1>3, <2>1, <2>2, AppendHas
  <2>4. FramesPlaced'
    BY <1>1, <1>3, <2>1, <2>2, PushAt, JobsDiffer DEF PlaceInv, FramesPlaced
  <2>5. ASSUME NEW e \in Cell
        PROVE  Backed(e, rx'[e], st', list', queue', run')
    <3>1. CASE e = d
      BY <2>3, <3>1 DEF Backed
    <3>2. CASE e # d
      <4>1. Backed(e, rx'[e], st', list, queue, run)
        BY <1>4, <3>2
      <4>2. Backed(e, rx'[e], st', list, Append(queue, ReactJob(d)), run)
        BY <1>3, <2>2, <4>1, PushBacked
      <4>. QED
        BY <1>1, <2>1, <4>2
    <3>. QED
      BY <3>1, <3>2
  <2>. QED
    BY <1>2, <1>3, <2>1, <2>3, <2>4, <2>5 DEF PlaceInv, Types, ReactionsBacked
<1>. QED
  BY <1>5, <1>6

\* A record is attached, behind the jobs q.
LEMMA RecordPlaces ==
  ASSUME NEW q \in Seq(JobSet), NEW c \in Cell, NEW record \in Records,
         AttachThen(q, c, record), NEW r, NEW x \in [Cell -> [kind : {"none", "then", "catch"},
                                                           src : Word]],
         Types, NEW s,
         \A f \in Frame : At(f, frames[f], list, q, r),
         \A d \in Cell : Backed(d, x[d], s, list, q, r)
  PROVE  /\ list' \in [Cell -> Seq(Link)] /\ queue' \in Seq(JobSet)
         /\ \A f \in Frame : At(f, frames[f], list', queue', r)
         /\ \A d \in Cell : Backed(d, x[d], s, list', queue', r)
<1>1. record \in JobSet /\ record \in Link
  BY MadeOK
<1>2. list \in [Cell -> Seq(Link)] /\ \A d \in Cell : x[d].src \in Word
  BY DEF Types
<1>3. CASE st[c] = "pending"
  <2>1. list' = [list EXCEPT ![c] = <<record>> \o @] /\ queue' = q
    BY <1>3 DEF AttachThen
  <2>2. list' \in [Cell -> Seq(Link)]
    BY <1>1, <1>2, <2>1, ConsHas
  <2>3. \A f \in Frame : At(f, frames[f], list', queue', r)
    BY <1>1, <1>2, <2>1, LinkAt, RecordsDiffer
  <2>4. \A d \in Cell : Backed(d, x[d], s, list', queue', r)
    BY <1>1, <1>2, <2>1, LinkBacked
  <2>. QED
    BY <2>1, <2>2, <2>3, <2>4
<1>4. CASE st[c] # "pending"
  <2>1. list' = list /\ queue' = Append(q, record)
    BY <1>4 DEF AttachThen
  <2>2. queue' \in Seq(JobSet)
    BY <1>1, <2>1, AppendHas
  <2>3. \A f \in Frame : At(f, frames[f], list', queue', r)
    BY <1>1, <2>1, PushAt, RecordsDiffer
  <2>4. \A d \in Cell : Backed(d, x[d], s, list', queue', r)
    BY <1>1, <2>1, PushBacked
  <2>. QED
    BY <1>2, <2>1, <2>2, <2>3, <2>4
<1>. QED
  BY <1>3, <1>4

\* A reaction in a record has no back-pointer.
LEMMA DerivePlaces ==
  ASSUME PlaceInv, NEW s \in Cell, NEW d \in Cell, NEW kind \in {"adopt", "both", "finally"},
         Derive(s, d, kind)
  PROVE  PlaceInv'
<1>1. /\ st[d] = "free" /\ st' = [st EXCEPT ![d] = "pending"]
      /\ AttachThen(queue, s, Record(kind, s, d))
      /\ handles' = handles \cup {d}
      /\ UNCHANGED <<rx, frames, run>>
  BY DEF Derive
<1>2. Record(kind, s, d) \in Records
  BY MadeOK
<1>3. /\ rx \in [Cell -> [kind : {"none", "then", "catch"}, src : Word]]
      /\ queue \in Seq(JobSet) /\ Types
      /\ \A e \in Cell : rx[e].src \in Word
      /\ \A p \in Cell : st[p] = "pending" => st'[p] = "pending"
  BY <1>1 DEF PlaceInv, Types
<1>4. \A e \in Cell : Backed(e, rx[e], st', list, queue, run)
  BY <1>3 DEF PlaceInv, ReactionsBacked, Backed, Word
<1>5. /\ list' \in [Cell -> Seq(Link)] /\ queue' \in Seq(JobSet)
      /\ \A f \in Frame : At(f, frames[f], list', queue', run)
      /\ \A e \in Cell : Backed(e, rx[e], st', list', queue', run)
  BY <1>1, <1>2, <1>3, <1>4, RecordPlaces DEF PlaceInv, FramesPlaced
<1>6. Types'
  BY <1>1, <1>5 DEF PlaceInv, Types, RunOK, State
<1>. QED
  BY <1>1, <1>5, <1>6 DEF PlaceInv, FramesPlaced, ReactionsBacked

\* Frame f, which is in no other place, waits for c.
LEMMA AwaitPlaces ==
  ASSUME Types, FramesPlaced, ReactionsBacked, NEW f \in Frame, NEW c \in Cell,
         NEW row \in Row, NEW taken, NEW s,
         FrameAwait(f, c, row, taken), row.result \in Cell,
         frames[f].at \in {"none", "running"}, NEW r, ~Wakes(r, f), ~Runs(r, f),
         \A g \in Frame : g # f => (Wakes(r, g) <=> Wakes(run, g)),
         \A g \in Frame : g # f => (Runs(r, g) <=> Runs(run, g)),
         \A d \in Cell : Backed(d, rx[d], s, list, queue, r)
  PROVE  /\ list' \in [Cell -> Seq(Link)] /\ queue' \in Seq(JobSet)
         /\ frames' \in [Frame -> Row]
         /\ \A g \in Frame : At(g, frames'[g], list', queue', r)
         /\ \A d \in Cell : Backed(d, rx[d], s, list', queue', r)
<1>1. /\ list \in [Cell -> Seq(Link)] /\ queue \in Seq(JobSet)
      /\ frames \in [Frame -> Row] /\ \A d \in Cell : rx[d].src \in Word
  BY DEF Types
<1>2. /\ ResumeJob(f) \in JobSet /\ Parked(f) \in Link
      /\ \A g \in Frame : g # f => Parked(f) # Parked(g) /\ ResumeJob(f) # ResumeJob(g)
  BY MadeOK, JobsDiffer
<1>3. /\ ~Has(queue, ResumeJob(f)) /\ Once(queue, ResumeJob(f))
      /\ \A p \in Cell : ~Has(list[p], Parked(f)) /\ Once(list[p], Parked(f))
  BY DEF FramesPlaced, At
<1>4. ASSUME NEW g \in Frame, g # f
      PROVE  At(g, frames[g], list, queue, r)
  <2>1. At(g, frames[g], list, queue, run)
    BY DEF FramesPlaced
  <2>2. (Wakes(r, g) <=> Wakes(run, g)) /\ (Runs(r, g) <=> Runs(run, g))
    BY <1>4
  <2>. QED
    BY <2>1, <2>2 DEF At
<1>7. CASE st[c] = "pending"
  <2>1. /\ frames' = [frames EXCEPT ![f] = [row EXCEPT !.at = "parked", !.src = c]]
        /\ list' = [list EXCEPT ![c] = <<Parked(f)>> \o @]
        /\ queue' = queue
    BY <1>7 DEF FrameAwait
  <2>2. frames' \in [Frame -> Row]
    BY <1>1, <2>1 DEF Row, Word
  <2>3. ASSUME NEW p \in Cell
        PROVE  /\ list'[p] \in Seq(Link)
               /\ Has(list'[p], Parked(f)) <=> p = c
               /\ Once(list'[p], Parked(f))
    BY <1>1, <1>2, <1>3, <2>1, ConsHas
  <2>4. At(f, frames'[f], list', queue', r)
    <3>1. /\ frames'[f].at = "parked" /\ frames'[f].src = c
          /\ frames'[f].result \in Cell
      BY <1>1, <2>1 DEF Row
    <3>. QED
      BY <1>3, <2>1, <2>3, <3>1 DEF At
  <2>5. ASSUME NEW g \in Frame, g # f
        PROVE  At(g, frames'[g], list', queue', r)
    <3>1. frames'[g] = frames[g]
      BY <1>1, <2>1, <2>5
    <3>2. At(g, frames[g], [list EXCEPT ![c] = <<Parked(f)>> \o @], queue, r)
      BY <1>1, <1>2, <1>4, <2>5, LinkAt
    <3>. QED
      BY <2>1, <3>1, <3>2
  <2>6. \A d \in Cell : Backed(d, rx[d], s, list', queue', r)
    BY <1>1, <1>2, <2>1, LinkBacked
  <2>7. list' \in [Cell -> Seq(Link)]
    BY <1>1, <2>1, <2>3
  <2>. QED
    BY <1>1, <2>1, <2>2, <2>4, <2>5, <2>6, <2>7
<1>8. CASE st[c] # "pending"
  <2>1. /\ frames' = [frames EXCEPT ![f] = [row EXCEPT !.at = "queued", !.src = c]]
        /\ queue' = Append(queue, ResumeJob(f))
        /\ list' = list
    BY <1>8 DEF FrameAwait
  <2>2. frames' \in [Frame -> Row]
    BY <1>1, <2>1 DEF Row, Word
  <2>3. /\ queue' \in Seq(JobSet) /\ Has(queue', ResumeJob(f))
        /\ Once(queue', ResumeJob(f))
    BY <1>1, <1>2, <1>3, <2>1, AppendHas
  <2>4. At(f, frames'[f], list', queue', r)
    <3>1. frames'[f].at = "queued" /\ frames'[f].result \in Cell
      BY <1>1, <2>1 DEF Row
    <3>. QED
      BY <1>3, <2>1, <2>3, <3>1 DEF At
  <2>5. ASSUME NEW g \in Frame, g # f
        PROVE  At(g, frames'[g], list', queue', r)
    <3>1. frames'[g] = frames[g]
      BY <1>1, <2>1, <2>5
    <3>2. At(g, frames[g], list, Append(queue, ResumeJob(f)), r)
      BY <1>1, <1>2, <1>4, <2>5, PushAt
    <3>. QED
      BY <2>1, <3>1, <3>2
  <2>6. \A d \in Cell : Backed(d, rx[d], s, list', queue', r)
    BY <1>1, <1>2, <2>1, PushBacked
  <2>. QED
    BY <1>1, <2>1, <2>2, <2>3, <2>4, <2>5, <2>6
<1>. QED
  BY <1>7, <1>8

\* A call gets a free frame, which waits where it awaits.
LEMMA CallAsyncPlaces ==
  ASSUME PlaceInv, NEW f \in Frame, NEW r \in Cell, NEW c \in Cell, CallAsync(f, r, c)
  PROVE  PlaceInv'
<1>. DEFINE row == [NoFrame EXCEPT !.result = r]
<1>1. /\ frames[f].at = "none"
      /\ st[r] = "free" /\ st' = [st EXCEPT ![r] = "pending"]
      /\ FrameAwait(f, c, row, <<r, r>>)
      /\ handles' = handles \cup {r}
      /\ UNCHANGED <<rx, run>>
  BY DEF CallAsync
<1>2. row \in Row /\ row.result \in Cell
  BY DEF NoFrame, Row, Word
<1>3. ~Wakes(run, f) /\ ~Runs(run, f)
  BY <1>1 DEF PlaceInv, FramesPlaced, At
<1>4. \A d \in Cell : Backed(d, rx[d], st', list, queue, run)
  <2>1. \A d \in Cell : rx[d].src \in Word
    BY DEF PlaceInv, Types
  <2>2. \A p \in Cell : st[p] = "pending" => st'[p] = "pending"
    BY <1>1 DEF PlaceInv, Types
  <2>. QED
    BY <2>1, <2>2 DEF PlaceInv, ReactionsBacked, Backed, Word
<1>. HIDE DEF row
<1>5. /\ list' \in [Cell -> Seq(Link)] /\ queue' \in Seq(JobSet)
      /\ frames' \in [Frame -> Row]
      /\ \A g \in Frame : At(g, frames'[g], list', queue', run)
      /\ \A d \in Cell : Backed(d, rx[d], st', list', queue', run)
  BY <1>1, <1>2, <1>3, <1>4, AwaitPlaces DEF PlaceInv
<1>6. Types'
  BY <1>1, <1>5 DEF PlaceInv, Types, RunOK, State
<1>. QED
  BY <1>1, <1>5, <1>6 DEF PlaceInv, FramesPlaced, ReactionsBacked

\* A body awaits again: its frame is parked or queued, and no longer runs.
LEMMA BodyAwaitPlaces ==
  ASSUME PlaceInv, NEW c \in Cell, BodyAwait(c)
  PROVE  PlaceInv'
<1>. DEFINE f == run.f
<1>1. /\ run.k = "body" /\ run' = Idle
      /\ FrameAwait(f, c, frames[f], <<>>)
      /\ UNCHANGED <<st, rx, handles>>
  BY DEF BodyAwait
<1>2. f \in Frame /\ frames[f] \in Row
  BY <1>1 DEF PlaceInv, Types, RunOK
<1>3. frames[f].at = "running" /\ frames[f].result \in Cell
  BY <1>1, <1>2 DEF PlaceInv, FramesPlaced, At, Runs
<1>4. /\ Idle.k = "idle"
      /\ \A g \in Frame : ~Wakes(Idle, g) /\ ~Runs(Idle, g) /\ ~Wakes(run, g)
      /\ \A g \in Frame : g # f => ~Runs(run, g)
  BY <1>1 DEF Idle, Wakes, Runs
<1>5. \A d \in Cell : Backed(d, rx[d], st, list, queue, Idle)
  BY <1>1 DEF PlaceInv, ReactionsBacked, Backed
<1>. HIDE DEF f
<1>6. /\ list' \in [Cell -> Seq(Link)] /\ queue' \in Seq(JobSet)
      /\ frames' \in [Frame -> Row]
      /\ \A g \in Frame : At(g, frames'[g], list', queue', Idle)
      /\ \A d \in Cell : Backed(d, rx[d], st, list', queue', Idle)
  BY <1>1, <1>2, <1>3, <1>4, <1>5, AwaitPlaces DEF PlaceInv
<1>7. Types'
  BY <1>1, <1>4, <1>6 DEF PlaceInv, Types, RunOK
<1>. QED
  BY <1>1, <1>6, <1>7 DEF PlaceInv, FramesPlaced, ReactionsBacked

\* A body awaits a plain value: its frame is queued.
LEMMA BodyAwaitValuePlaces ==
  ASSUME PlaceInv, BodyAwaitValue
  PROVE  PlaceInv'
<1>. DEFINE f == run.f
<1>1. /\ run.k = "body" /\ run' = Idle
      /\ frames' = [frames EXCEPT ![f].at = "queued"]
      /\ queue' = Append(queue, ResumeJob(f))
      /\ UNCHANGED <<st, list, rx, handles>>
  BY DEF BodyAwaitValue
<1>2. f \in Frame /\ frames \in [Frame -> Row] /\ queue \in Seq(JobSet)
  BY <1>1 DEF PlaceInv, Types, RunOK
<1>3. /\ ~Has(queue, ResumeJob(f)) /\ Once(queue, ResumeJob(f))
      /\ frames[f].at = "running" /\ frames[f].result \in Cell
      /\ \A p \in Cell : ~Has(list[p], Parked(f)) /\ Once(list[p], Parked(f))
  BY <1>1, <1>2 DEF PlaceInv, FramesPlaced, At, Runs
<1>4. /\ Idle.k = "idle"
      /\ \A g \in Frame : ~Wakes(Idle, g) /\ ~Runs(Idle, g) /\ ~Wakes(run, g)
      /\ \A g \in Frame : g # f => ~Runs(run, g)
  BY <1>1 DEF Idle, Wakes, Runs
<1>5. /\ ResumeJob(f) \in JobSet
      /\ \A g \in Frame : g # f => ResumeJob(f) # ResumeJob(g)
  BY <1>2, MadeOK, JobsDiffer
<1>. HIDE DEF f
<1>6. /\ queue' \in Seq(JobSet) /\ Has(queue', ResumeJob(f)) /\ Once(queue', ResumeJob(f))
  BY <1>1, <1>2, <1>3, <1>5, AppendHas
<1>7. frames' \in [Frame -> Row] /\ frames'[f].at = "queued" /\ frames'[f].result \in Cell
  BY <1>1, <1>2, <1>3 DEF Row
<1>8. At(f, frames'[f], list, queue', Idle)
  BY <1>3, <1>4, <1>6, <1>7, <1>2 DEF At
<1>9. ASSUME NEW g \in Frame, g # f
      PROVE  At(g, frames'[g], list, queue', Idle)
  <2>1. frames'[g] = frames[g]
    BY <1>1, <1>2, <1>9
  <2>2. At(g, frames[g], list, queue, Idle)
    BY <1>4, <1>9 DEF PlaceInv, FramesPlaced, At
  <2>. QED
    BY <1>1, <1>2, <1>5, <1>9, <2>1, <2>2, PushAt
<1>10. \A d \in Cell : Backed(d, rx[d], st, list, queue', Idle)
  <2>1. \A d \in Cell : Backed(d, rx[d], st, list, queue, Idle)
    BY <1>1 DEF PlaceInv, ReactionsBacked, Backed
  <2>. QED
    BY <1>1, <1>2, <1>5, <2>1, PushBacked
<1>11. Types'
  BY <1>1, <1>4, <1>6, <1>7 DEF PlaceInv, Types, RunOK
<1>. QED
  BY <1>1, <1>8, <1>9, <1>10, <1>11 DEF PlaceInv, FramesPlaced, ReactionsBacked

-----------------------------------------------------------------------------
(* Settlements: by the program, and at the ends of handlers and bodies.    *)

\* The settlement of c behind the jobs q, with the code r running and reaction
\* words x.
LEMMA SettlePlaces ==
  ASSUME Types, NoneStranded, NEW q \in Seq(JobSet), NEW c \in Cell, NEW r,
         NEW x \in [Cell -> [kind : {"none", "then", "catch"}, src : Word]],
         Settled(q, c),
         \A f \in Frame : At(f, frames[f], list, q, r),
         \A d \in Cell : Backed(d, x[d], st, list, q, r)
  PROVE  /\ st' \in [Cell -> State]
         /\ list' \in [Cell -> Seq(Link)]
         /\ queue' \in Seq(JobSet)
         /\ Woken(c) \in [Frame -> Row]
         /\ \A f \in Frame : At(f, Woken(c)[f], list', queue', r)
         /\ \A d \in Cell : Backed(d, x[d], st', list', queue', r)
<1>1. \A d \in Cell : x[d].src \in Word
  OBVIOUS
<1>. QED
  BY <1>1, SettleTypes, SettleAt, SettleBacked

\* A resolving function settles its promise.
LEMMA ResolvePlaces ==
  ASSUME PlaceInv, Inv, NEW c \in Cell, NEW o \in Outcome, Resolve(c, o)
  PROVE  PlaceInv'
<1>1. /\ Settle(queue, c, o, <<>>, <<>>) /\ frames' = Woken(c)
      /\ UNCHANGED <<rx, run, handles>>
  BY DEF Resolve
<1>2. /\ st' \in [Cell -> State]
      /\ list' \in [Cell -> Seq(Link)]
      /\ queue' \in Seq(JobSet)
      /\ Woken(c) \in [Frame -> Row]
      /\ \A f \in Frame : At(f, Woken(c)[f], list', queue', run)
      /\ \A d \in Cell : Backed(d, rx[d], st', list', queue', run)
  BY <1>1, SettlePlaces, SettleSettled DEF PlaceInv, Inv, Types, FramesPlaced, ReactionsBacked
<1>3. Types'
  BY <1>1, <1>2 DEF PlaceInv, Types, RunOK
<1>. QED
  BY <1>1, <1>2, <1>3 DEF PlaceInv, FramesPlaced, ReactionsBacked

\* The code that ran, which resumed nothing, is done.
LEMMA IdlePlaces ==
  ASSUME Plain(run)
  PROVE  /\ Plain(Idle) /\ Idle.k = "idle"
         /\ FramesPlaced => \A f \in Frame : At(f, frames[f], list, queue, Idle)
         /\ ReactionsBacked => \A d \in Cell : Backed(d, rx[d], st, list, queue, Idle)
<1>1. Idle.k = "idle" /\ Plain(Idle)
  BY DEF Idle, Plain
<1>. QED
  BY <1>1, PlainAt, PlainBacked DEF FramesPlaced, ReactionsBacked

\* The promise of a handler settles, its waiters are queued.
LEMMA GeneralPlaces ==
  ASSUME PlaceInv, Inv, Plain(run), NEW d \in Cell, NEW o, NEW given,
         General(d, o, given), UNCHANGED handles
  PROVE  PlaceInv'
<1>1. /\ Settle(queue, d, o, <<>>, given) /\ frames' = Woken(d) /\ run' = Idle
      /\ UNCHANGED rx
  BY DEF General
<1>2. /\ st' \in [Cell -> State]
      /\ list' \in [Cell -> Seq(Link)]
      /\ queue' \in Seq(JobSet)
      /\ Woken(d) \in [Frame -> Row]
      /\ \A f \in Frame : At(f, Woken(d)[f], list', queue', Idle)
      /\ \A e \in Cell : Backed(e, rx[e], st', list', queue', Idle)
  BY <1>1, IdlePlaces, SettlePlaces, SettleSettled DEF PlaceInv, Inv, Types
<1>3. Types'
  BY <1>1, <1>2, IdlePlaces DEF PlaceInv, Types, RunOK
<1>. QED
  BY <1>1, <1>2, <1>3 DEF PlaceInv, FramesPlaced, ReactionsBacked

\* The promise of a handler adopts what was returned, through a job.
LEMMA AdoptPlaces ==
  ASSUME PlaceInv, Plain(run), NEW d \in Cell, NEW c \in Cell, NEW given,
         Adopt(d, c, given), UNCHANGED handles
  PROVE  PlaceInv'
<1>1. /\ queue' = Append(queue, AttachJob(c, d)) /\ run' = Idle
      /\ UNCHANGED <<st, list, rx, frames>>
  BY DEF Adopt
<1>2. /\ AttachJob(c, d) \in JobSet /\ queue \in Seq(JobSet)
      /\ \A f \in Frame : AttachJob(c, d) # ResumeJob(f)
  BY MadeOK, JobsDiffer DEF PlaceInv, Types
<1>3. queue' \in Seq(JobSet)
  BY <1>1, <1>2, AppendHas
<1>4. /\ \A f \in Frame : At(f, frames[f], list, queue', Idle)
      /\ \A e \in Cell : Backed(e, rx[e], st, list, queue', Idle)
  BY <1>1, <1>2, IdlePlaces, PushAt, PushBacked DEF PlaceInv
<1>5. Types'
  BY <1>1, <1>3, IdlePlaces DEF PlaceInv, Types, RunOK
<1>. QED
  BY <1>1, <1>4, <1>5 DEF PlaceInv, FramesPlaced, ReactionsBacked

\* A list of one link.
LEMMA SoleLink ==
  ASSUME Types, NEW c \in Cell, Chains(c), NEW x
  PROVE  /\ list[c][1] \in Link /\ (Has(list[c], x) <=> x = list[c][1])
         /\ \/ \E d \in Cell : list[c][1] = Inline(d)
            \/ \E f \in Frame : list[c][1] = Parked(f)
         /\ \A q \in Seq(JobSet) : q \o DrainJobs(c) = Append(q, JobOf(list[c][1]))
<1>1. /\ list[c] \in Seq(Link) /\ Len(list[c]) = 1 /\ ~IsRecord(list[c][1])
  BY DEF Chains, Sole, Types
<1>2. DOMAIN list[c] = {1} /\ list[c][1] \in Link
  BY <1>1
<1>3. Has(list[c], x) <=> x = list[c][1]
  BY <1>2 DEF Has
<1>4. \/ \E d \in Cell : list[c][1] = Inline(d)
      \/ \E f \in Frame : list[c][1] = Parked(f)
  BY <1>1, <1>2 DEF Link, IsRecord, Records, Record, WaitRecord
<1>5. DrainJobs(c) = <<JobOf(list[c][1])>>
  <2>1. /\ DrainJobs(c) \in Seq(JobSet) /\ DOMAIN DrainJobs(c) = {1}
        /\ DrainJobs(c)[1] = JobOf(list[c][1])
    BY <1>1, DrainAt
  <2>. QED
    BY <2>1
<1>6. ASSUME NEW q \in Seq(JobSet)
      PROVE  q \o DrainJobs(c) = Append(q, JobOf(list[c][1]))
  BY <1>2, <1>5, JobOfLink, AppendOne
<1>. QED
  BY <1>2, <1>3, <1>4, <1>6

\* The sole waiter goes on in this job: a reaction.
LEMMA NextPlaces ==
  ASSUME PlaceInv, Plain(run), NEW d \in Cell, NEW n \in Cell, Chains(d),
         list[d][1] = Inline(n),
         run' = [k |-> "next", d |-> n],
         st' = [st EXCEPT ![d] = "fulfilled"], list' = [list EXCEPT ![d] = <<>>],
         UNCHANGED <<rx, frames, queue, handles>>
  PROVE  PlaceInv'
<1>1. /\ list \in [Cell -> Seq(Link)] /\ list' \in [Cell -> Seq(Link)]
      /\ st' \in [Cell -> State] /\ \A e \in Cell : rx[e].src \in Word
      /\ \A p \in Cell : p # d => st'[p] = st[p] /\ list'[p] = list[p]
      /\ list'[d] = <<>>
  BY DEF PlaceInv, Types, State, Outcome
<1>2. Types'
  BY <1>1 DEF PlaceInv, Types, RunOK
<1>3. ASSUME NEW f \in Frame
      PROVE  At(f, frames[f], list', queue, run')
  <2>1. At(f, frames[f], list, queue, run)
    BY DEF PlaceInv, FramesPlaced
  <2>2. ~Has(list[d], Parked(f))
    BY SoleLink, JobsDiffer DEF PlaceInv
  <2>3. ~Has(list'[d], Parked(f)) /\ Once(list'[d], Parked(f))
    BY <1>1, EmptyHas
  <2>4. /\ ~Wakes(run, f) /\ ~Runs(run, f) /\ ~Wakes(run', f) /\ ~Runs(run', f)
    BY DEF Plain, Wakes, Runs
  <2>. QED
    BY <1>1, <2>1, <2>2, <2>3, <2>4 DEF At
<1>4. ASSUME NEW e \in Cell, e # n
      PROVE  Backed(e, rx[e], st', list', queue, run')
  <2>1. Backed(e, rx[e], st, list, queue, run)
    BY DEF PlaceInv, ReactionsBacked
  <2>2. ~Has(list[d], Inline(e))
    BY <1>4, SoleLink, JobsDiffer DEF PlaceInv
  <2>3. run # [k |-> "next", d |-> e]
    BY DEF Plain
  <2>4. CASE rx[e].src = NULL \/ Has(queue, ReactJob(e))
    BY <2>4 DEF Backed
  <2>5. ASSUME rx[e].src \in Cell, st[rx[e].src] = "pending", Has(list[rx[e].src], Inline(e))
        PROVE  Backed(e, rx[e], st', list', queue, run')
    <3>1. st'[rx[e].src] = st[rx[e].src] /\ list'[rx[e].src] = list[rx[e].src]
      BY <1>1, <2>2, <2>5
    <3>. QED
      BY <2>5, <3>1 DEF Backed
  <2>. QED
    BY <1>1, <2>1, <2>3, <2>4, <2>5 DEF Backed, Word
<1>5. Backed(n, rx[n], st', list', queue, run')
  BY DEF Backed
<1>. QED
  BY <1>2, <1>3, <1>4, <1>5 DEF PlaceInv, FramesPlaced, ReactionsBacked

\* The sole waiter goes on in this job: a frame.
LEMMA WakePlaces ==
  ASSUME PlaceInv, Plain(run), NEW d \in Cell, NEW f \in Frame, Chains(d),
         list[d][1] = Parked(f),
         run' = [k |-> "wake", f |-> f],
         frames' = [frames EXCEPT ![f] = [@ EXCEPT !.at = "queued", !.src = d]],
         st' = [st EXCEPT ![d] = "fulfilled"], list' = [list EXCEPT ![d] = <<>>],
         UNCHANGED <<rx, queue, handles>>
  PROVE  PlaceInv'
<1>1. /\ list \in [Cell -> Seq(Link)] /\ list' \in [Cell -> Seq(Link)]
      /\ st' \in [Cell -> State] /\ \A e \in Cell : rx[e].src \in Word
      /\ \A p \in Cell : p # d => st'[p] = st[p] /\ list'[p] = list[p]
      /\ list'[d] = <<>>
  BY DEF PlaceInv, Types, State, Outcome
<1>9. frames \in [Frame -> Row] /\ frames' \in [Frame -> Row]
  <2>1. frames \in [Frame -> Row]
    BY DEF PlaceInv, Types
  <2>2. [frames[f] EXCEPT !.at = "queued", !.src = d] \in Row
    BY <2>1 DEF Row, Word
  <2>. QED
    BY <2>1, <2>2
<1>2. Types'
  BY <1>1, <1>9 DEF PlaceInv, Types, RunOK
<1>3. /\ Has(list[d], Parked(f))
      /\ \A g \in Frame : g # f => ~Has(list[d], Parked(g))
      /\ \A e \in Cell : ~Has(list[d], Inline(e))
  BY SoleLink, JobsDiffer DEF PlaceInv
<1>4. /\ \A g \in Frame : ~Wakes(run, g) /\ ~Runs(run, g) /\ ~Runs(run', g)
      /\ \A g \in Frame : Wakes(run', g) <=> g = f
  BY DEF Plain, Wakes, Runs
<1>5. ASSUME NEW x
      PROVE  ~Has(list'[d], x) /\ Once(list'[d], x)
  BY <1>1, EmptyHas
<1>6. At(f, frames'[f], list', queue, run')
  <2>1. At(f, frames[f], list, queue, run)
    BY DEF PlaceInv, FramesPlaced
  <2>2. /\ frames'[f].at = "queued" /\ frames'[f].src = d
        /\ frames'[f].result = frames[f].result
    BY <1>9 DEF Row
  <2>3. /\ frames[f].at = "parked" /\ frames[f].src = d /\ frames[f].result \in Cell
        /\ ~Has(queue, ResumeJob(f)) /\ Once(queue, ResumeJob(f))
        /\ \A p \in Cell : p # d => ~Has(list[p], Parked(f)) /\ Once(list[p], Parked(f))
    BY <1>3, <2>1 DEF At
  <2>4. \A p \in Cell : ~Has(list'[p], Parked(f)) /\ Once(list'[p], Parked(f))
    BY <1>1, <1>5, <2>3
  <2>. QED
    BY <1>4, <2>2, <2>3, <2>4 DEF At
<1>7. ASSUME NEW g \in Frame, g # f
      PROVE  At(g, frames'[g], list', queue, run')
  <2>1. At(g, frames[g], list, queue, run)
    BY DEF PlaceInv, FramesPlaced
  <2>2. frames'[g] = frames[g]
    BY <1>9, <1>7
  <2>. QED
    BY <1>1, <1>3, <1>4, <1>5, <1>7, <2>1, <2>2 DEF At
<1>8. ASSUME NEW e \in Cell
      PROVE  Backed(e, rx[e], st', list', queue, run')
  <2>1. Backed(e, rx[e], st, list, queue, run)
    BY DEF PlaceInv, ReactionsBacked
  <2>2. run # [k |-> "next", d |-> e]
    BY DEF Plain
  <2>3. CASE rx[e].src = NULL \/ Has(queue, ReactJob(e))
    BY <2>3 DEF Backed
  <2>4. ASSUME rx[e].src \in Cell, st[rx[e].src] = "pending", Has(list[rx[e].src], Inline(e))
        PROVE  Backed(e, rx[e], st', list', queue, run')
    <3>1. st'[rx[e].src] = st[rx[e].src] /\ list'[rx[e].src] = list[rx[e].src]
      BY <1>1, <1>3, <2>4
    <3>. QED
      BY <2>4, <3>1 DEF Backed
  <2>. QED
    BY <1>1, <2>1, <2>2, <2>3, <2>4 DEF Backed, Word
<1>. QED
  BY <1>2, <1>6, <1>7, <1>8 DEF PlaceInv, FramesPlaced, ReactionsBacked

\* A settlement of a list of one, whichever way its job reaches the queue.
LEMMA SoleSettled ==
  ASSUME Types, NEW c \in Cell, Chains(c),
         queue' = Append(queue, JobOf(list[c][1])),
         st' = [st EXCEPT ![c] = "fulfilled"], list' = [list EXCEPT ![c] = <<>>]
  PROVE  Settled(queue, c)
<1>1. queue \o DrainJobs(c) = Append(queue, JobOf(list[c][1]))
  BY SoleLink DEF Types
<1>2. st[c] = "pending"
  BY DEF Chains
<1>. QED
  BY <1>1, <1>2 DEF Settled, Outcome

\* The frames a list of one wakes.
LEMMA SoleWoken ==
  ASSUME Types, NEW c \in Cell, Chains(c)
  PROVE  /\ \A d \in Cell : list[c][1] = Inline(d) => Woken(c) = frames
         /\ \A f \in Frame : list[c][1] = Parked(f)
              => Woken(c) = [frames EXCEPT ![f] = [@ EXCEPT !.at = "queued", !.src = c]]
<1>1. /\ frames \in [Frame -> Row]
      /\ \A g \in Frame : Has(list[c], Parked(g)) <=> list[c][1] = Parked(g)
  BY SoleLink DEF Types
<1>2. Woken(c) = [g \in Frame |-> IF list[c][1] = Parked(g)
                                  THEN [frames[g] EXCEPT !.at = "queued", !.src = c]
                                  ELSE frames[g]]
  BY <1>1 DEF Woken, Has
<1>3. ASSUME NEW d \in Cell, list[c][1] = Inline(d)
      PROVE  Woken(c) = frames
  <2>1. \A g \in Frame : list[c][1] # Parked(g)
    BY <1>3, JobsDiffer
  <2>2. Woken(c) = [g \in Frame |-> frames[g]]
    BY <1>2, <2>1
  <2>. QED
    BY <1>1, <2>2
<1>4. ASSUME NEW f \in Frame, list[c][1] = Parked(f)
      PROVE  Woken(c) = [frames EXCEPT ![f] = [@ EXCEPT !.at = "queued", !.src = c]]
  <2>1. \A g \in Frame : list[c][1] = Parked(g) <=> g = f
    BY <1>4, JobsDiffer
  <2>2. Woken(c) = [g \in Frame |-> IF g = f
                                    THEN [frames[g] EXCEPT !.at = "queued", !.src = c]
                                    ELSE frames[g]]
    BY <1>2, <2>1
  <2>. QED
    BY <1>1, <2>2
<1>. QED
  BY <1>3, <1>4

\* A settled promise's frames are woken, its reactions queued, and the dispatcher
\* is done.
LEMMA SettledPlaces ==
  ASSUME PlaceInv, Inv, Plain(run), NEW d \in Cell, Settled(queue, d),
         frames' = Woken(d), run' = Idle, UNCHANGED <<rx, handles>>
  PROVE  PlaceInv'
<1>2. /\ st' \in [Cell -> State]
      /\ list' \in [Cell -> Seq(Link)]
      /\ queue' \in Seq(JobSet)
      /\ Woken(d) \in [Frame -> Row]
      /\ \A f \in Frame : At(f, Woken(d)[f], list', queue', Idle)
      /\ \A e \in Cell : Backed(e, rx[e], st', list', queue', Idle)
  BY IdlePlaces, SettlePlaces DEF PlaceInv, Inv, Types
<1>3. Types'
  BY <1>2, IdlePlaces DEF PlaceInv, Types, RunOK
<1>. QED
  BY <1>2, <1>3 DEF PlaceInv, FramesPlaced, ReactionsBacked

\* settle_into_chain: the one waiter runs on in this job, or is queued.
LEMMA IntoChainPlaces ==
  ASSUME PlaceInv, Inv, Plain(run), NEW d \in Cell, NEW src, IntoChain(d, src),
         UNCHANGED handles
  PROVE  PlaceInv'
<1>1. /\ Chains(d) /\ Types
      /\ st' = [st EXCEPT ![d] = "fulfilled"] /\ list' = [list EXCEPT ![d] = <<>>]
      /\ UNCHANGED rx
  BY DEF IntoChain, PlaceInv
<1>4. \/ \E n \in Cell : list[d][1] = Inline(n)
      \/ \E f \in Frame : list[d][1] = Parked(f)
  BY <1>1, SoleLink
<1>2. CASE IntoReaction(d, src)
  <2>0. list[d][1].k = "inline" /\ \A f \in Frame : Parked(f).k = "frame"
    BY <1>2 DEF IntoReaction, Parked
  <2>1. PICK n \in Cell : list[d][1] = Inline(n)
    BY <1>1, <1>4, <2>0
  <2>2. list[d][1].d = n /\ JobOf(list[d][1]) = ReactJob(n)
    BY <2>1 DEF Inline, JobOf
  <2>3. /\ UNCHANGED frames
        /\ \/ run' = [k |-> "next", d |-> n] /\ queue' = queue
           \/ run' = Idle /\ queue' = Append(queue, JobOf(list[d][1]))
    BY <1>2, <2>2 DEF IntoReaction, Chain
  <2>4. CASE run' = [k |-> "next", d |-> n] /\ queue' = queue
    BY <1>1, <2>1, <2>3, <2>4, NextPlaces
  <2>5. CASE run' = Idle /\ queue' = Append(queue, JobOf(list[d][1]))
    <3>1. Settled(queue, d) /\ Woken(d) = frames
      BY <1>1, <2>1, <2>5, SoleSettled, SoleWoken
    <3>. QED
      BY <1>1, <2>3, <2>5, <3>1, SettledPlaces
  <2>. QED
    BY <2>3, <2>4, <2>5
<1>3. CASE IntoFrame(d, src)
  <2>0. list[d][1].k = "frame" /\ \A n \in Cell : Inline(n).k = "inline"
    BY <1>3 DEF IntoFrame, Inline
  <2>1. PICK f \in Frame : list[d][1] = Parked(f)
    BY <1>1, <1>4, <2>0
  <2>2. list[d][1].f = f /\ JobOf(list[d][1]) = ResumeJob(f)
    BY <2>1 DEF Parked, JobOf
  <2>3. /\ frames' = [frames EXCEPT ![f] = [@ EXCEPT !.at = "queued", !.src = d]]
        /\ \/ run' = [k |-> "wake", f |-> f] /\ queue' = queue
           \/ run' = Idle /\ queue' = Append(queue, JobOf(list[d][1]))
    BY <1>3, <2>2 DEF IntoFrame, Chain
  <2>4. CASE run' = [k |-> "wake", f |-> f] /\ queue' = queue
    BY <1>1, <2>1, <2>3, <2>4, WakePlaces
  <2>5. CASE run' = Idle /\ queue' = Append(queue, JobOf(list[d][1]))
    <3>1. Settled(queue, d) /\ Woken(d) = frames'
      BY <1>1, <2>1, <2>3, <2>5, SoleSettled, SoleWoken
    <3>. QED
      BY <1>1, <2>5, <3>1, SettledPlaces
  <2>. QED
    BY <2>3, <2>4, <2>5
<1>. QED
  BY <1>2, <1>3 DEF IntoChain

\* A handler returns.
LEMMA HandlerEndPlaces ==
  ASSUME PlaceInv, Inv, HandlerEnd
  PROVE  PlaceInv'
<1>1. /\ run.k = "handler" /\ run.d \in Cell /\ Plain(run)
      /\ UNCHANGED handles /\ handles \subseteq Cell
  BY DEF HandlerEnd, PlaceInv, Types, RunOK, Plain
<1>2. CASE IntoChain(run.d, run.src)
  BY <1>1, <1>2, IntoChainPlaces
<1>3. CASE \E o, given : General(run.d, o, given)
  BY <1>1, <1>3, GeneralPlaces
<1>4. CASE \E c \in handles : \E given : Adopt(run.d, c, given)
  BY <1>1, <1>4, AdoptPlaces
<1>. QED
  BY <1>2, <1>3, <1>4 DEF HandlerEnd

\* A finally returns, perhaps a promise, which its record then waits for.
LEMMA FinallyEndPlaces ==
  ASSUME PlaceInv, Inv, FinallyEnd
  PROVE  PlaceInv'
<1>1. /\ run.d \in Cell /\ run.src \in Cell /\ Plain(run)
      /\ UNCHANGED handles /\ handles \subseteq Cell
  BY DEF FinallyEnd, PlaceInv, Types, RunOK, Plain
<1>2. CASE \E o, given : General(run.d, o, given)
  BY <1>1, <1>2, GeneralPlaces
<1>3. CASE /\ \E c \in handles : AttachThen(queue, c, WaitRecord(c, run.d, run.src))
           /\ run' = Idle /\ UNCHANGED <<st, rx, frames>>
  <2>1. PICK c \in handles : AttachThen(queue, c, WaitRecord(c, run.d, run.src))
    BY <1>3
  <2>2. WaitRecord(c, run.d, run.src) \in Records /\ c \in Cell
    BY <1>1, MadeOK
  <2>3. /\ Types /\ queue \in Seq(JobSet)
        /\ rx \in [Cell -> [kind : {"none", "then", "catch"}, src : Word]]
        /\ \A f \in Frame : At(f, frames[f], list, queue, Idle)
        /\ \A e \in Cell : Backed(e, rx[e], st, list, queue, Idle)
    BY <1>1, IdlePlaces DEF PlaceInv, Types
  <2>4. /\ list' \in [Cell -> Seq(Link)] /\ queue' \in Seq(JobSet)
        /\ \A f \in Frame : At(f, frames[f], list', queue', Idle)
        /\ \A e \in Cell : Backed(e, rx[e], st, list', queue', Idle)
    BY <2>1, <2>2, <2>3, RecordPlaces
  <2>5. Types'
    BY <1>1, <1>3, <2>4, IdlePlaces DEF PlaceInv, Types, RunOK
  <2>. QED
    BY <1>3, <2>4, <2>5 DEF PlaceInv, FramesPlaced, ReactionsBacked
<1>. QED
  BY <1>2, <1>3 DEF FinallyEnd

\* The body that runs is over, and its frame is gone.
LEMMA RetireAt ==
  ASSUME NEW g \in Frame, run.k = "body", run.f \in Frame, NEW words \in [Frame -> Row],
         NEW l, NEW q, At(g, words[g], l, q, run)
  PROVE  At(g, [words EXCEPT ![run.f] = NoFrame][g], l, q, Idle)
<1>1. Idle.k = "idle" /\ NoFrame.at = "none"
  BY DEF Idle, NoFrame
<1>2. ~Wakes(Idle, g) /\ ~Runs(Idle, g) /\ ~Wakes(run, g)
  BY <1>1 DEF Wakes, Runs
<1>3. CASE g = run.f
  <2>1. [words EXCEPT ![run.f] = NoFrame][g] = NoFrame
    BY <1>3
  <2>2. Runs(run, g)
    BY <1>3 DEF Runs
  <2>3. words[g].at = "running"
    BY <2>2 DEF At
  <2>4. At(g, NoFrame, l, q, Idle)
    BY <1>1, <1>2, <2>3 DEF At
  <2>. QED
    BY <2>1, <2>4
<1>4. CASE g # run.f
  <2>1. [words EXCEPT ![run.f] = NoFrame][g] = words[g]
    BY <1>4
  <2>2. ~Runs(run, g)
    BY <1>4 DEF Runs
  <2>3. At(g, words[g], l, q, Idle)
    BY <1>2, <2>2 DEF At
  <2>. QED
    BY <2>1, <2>3
<1>. QED
  BY <1>3, <1>4

\* A body that ends was running no reaction.
LEMMA RetireBacked ==
  ASSUME NEW d \in Cell, NEW row, NEW s, NEW l, NEW q, run.k = "body",
         Backed(d, row, s, l, q, run)
  PROVE  Backed(d, row, s, l, q, Idle)
  BY DEF Backed

\* The words of a frame that is gone are of their kinds.
LEMMA RetireTypes ==
  ASSUME NEW words \in [Frame -> Row]
  PROVE  [words EXCEPT ![run.f] = NoFrame] \in [Frame -> Row]
<1>1. NoFrame \in Row
  BY DEF NoFrame, Row, Word
<1>. QED
  BY <1>1

\* The result of the call settles, and the frame is gone.
LEMMA ReturnedPlaces ==
  ASSUME PlaceInv, Inv, run.k = "body", NEW r \in Cell, Settled(queue, r),
         frames' = [Woken(r) EXCEPT ![run.f] = NoFrame], run' = Idle,
         UNCHANGED <<rx, handles>>
  PROVE  PlaceInv'
<1>1. /\ st' \in [Cell -> State]
      /\ list' \in [Cell -> Seq(Link)]
      /\ queue' \in Seq(JobSet)
      /\ Woken(r) \in [Frame -> Row]
      /\ \A f \in Frame : At(f, Woken(r)[f], list', queue', run)
      /\ \A e \in Cell : Backed(e, rx[e], st', list', queue', run)
  BY SettlePlaces DEF PlaceInv, Inv, Types, FramesPlaced, ReactionsBacked
<1>2. run.f \in Frame
  BY DEF PlaceInv, Types, RunOK
<1>3. \A f \in Frame : At(f, frames'[f], list', queue', Idle)
  BY <1>1, <1>2, RetireAt
<1>4. \A e \in Cell : Backed(e, rx[e], st', list', queue', Idle)
  BY <1>1, RetireBacked
<1>5. frames' \in [Frame -> Row]
  BY <1>1, RetireTypes
<1>6. Types'
  BY <1>1, <1>5 DEF PlaceInv, Types, RunOK, Idle
<1>. QED
  BY <1>3, <1>4, <1>6 DEF PlaceInv, FramesPlaced, ReactionsBacked

\* The result adopts what the body returned, through a job.
LEMMA AdoptedPlaces ==
  ASSUME PlaceInv, run.k = "body", NEW r \in Cell, NEW c \in Cell,
         queue' = Append(queue, AttachJob(c, r)),
         frames' = [frames EXCEPT ![run.f] = NoFrame], run' = Idle,
         UNCHANGED <<st, list, rx, handles>>
  PROVE  PlaceInv'
<1>1. /\ AttachJob(c, r) \in JobSet /\ queue \in Seq(JobSet)
      /\ \A f \in Frame : AttachJob(c, r) # ResumeJob(f)
      /\ run.f \in Frame /\ frames \in [Frame -> Row]
  BY MadeOK, JobsDiffer DEF PlaceInv, Types, RunOK
<1>2. queue' \in Seq(JobSet)
  BY <1>1, AppendHas
<1>3. \A f \in Frame : At(f, frames[f], list, queue', run)
  BY <1>1, PushAt DEF PlaceInv, FramesPlaced
<1>4. \A f \in Frame : At(f, frames'[f], list, queue', Idle)
  BY <1>1, <1>3, RetireAt
<1>5. \A e \in Cell : Backed(e, rx[e], st, list, queue', Idle)
  BY <1>1, RetireBacked, PushBacked DEF PlaceInv, ReactionsBacked
<1>6. frames' \in [Frame -> Row]
  BY <1>1, RetireTypes
<1>7. Types'
  BY <1>2, <1>6 DEF PlaceInv, Types, RunOK, Idle
<1>. QED
  BY <1>4, <1>5, <1>7 DEF PlaceInv, FramesPlaced, ReactionsBacked

\* __torajs_frame_return and __torajs_frame_throw.
LEMMA BodyEndPlaces ==
  ASSUME PlaceInv, Inv, BodyEnd
  PROVE  PlaceInv'
<1>. DEFINE r == frames[run.f].result
<1>1. /\ run.k = "body" /\ run.f \in Frame
      /\ UNCHANGED handles /\ handles \subseteq Cell
  BY DEF BodyEnd, PlaceInv, Types, RunOK
<1>2. r \in Cell
  BY <1>1 DEF PlaceInv, FramesPlaced, At, Runs
<1>3. CASE Chains(r) /\ WakeSole(run.f, r)
  <2>1. Settled(queue, r)
    BY <1>2, <1>3, SoleSettled DEF WakeSole, PlaceInv
  <2>. QED
    BY <1>1, <1>2, <1>3, <2>1, ReturnedPlaces DEF WakeSole
<1>4. CASE \E o : EndFrame(run.f, r, o)
  <2>1. Settled(queue, r)
    BY <1>4, SettleSettled DEF EndFrame
  <2>. QED
    BY <1>1, <1>2, <1>4, <2>1, ReturnedPlaces DEF EndFrame
<1>5. CASE /\ \E c \in handles : queue' = Append(queue, AttachJob(c, r))
           /\ frames' = [frames EXCEPT ![run.f] = NoFrame]
           /\ run' = Idle
           /\ UNCHANGED <<st, list, rx>>
  BY <1>1, <1>2, <1>5, AdoptedPlaces
<1>. QED
  BY <1>1, <1>3, <1>4, <1>5 DEF BodyEnd

-----------------------------------------------------------------------------
(* The jobs.                                                               *)

\* Frame f, which was due and is in no other place, goes on.
LEMMA LandPlaces ==
  ASSUME PlaceInv, NEW f \in Frame, NEW q \in Seq(JobSet), Land(f, q),
         UNCHANGED handles, frames[f].at = "queued", ~Has(q, ResumeJob(f)),
         \A g \in Frame : g # f => At(g, frames[g], list, q, Idle),
         \A d \in Cell : Backed(d, rx[d], st, list, q, Idle)
  PROVE  PlaceInv'
<1>1. /\ frames' = [frames EXCEPT ![f] = [@ EXCEPT !.at = "running", !.src = NULL]]
      /\ run' = [k |-> "body", f |-> f] /\ queue' = q
      /\ UNCHANGED <<st, list, rx>>
  BY DEF Land
<1>2. frames \in [Frame -> Row] /\ frames' \in [Frame -> Row]
  BY <1>1 DEF PlaceInv, Types, Row, Word
<1>3. Types'
  BY <1>1, <1>2 DEF PlaceInv, Types, RunOK
<1>4. /\ Idle.k = "idle" /\ run'.k = "body" /\ run'.f = f
      /\ \A g \in Frame : ~Wakes(Idle, g) /\ ~Runs(Idle, g) /\ ~Wakes(run', g)
      /\ \A g \in Frame : Runs(run', g) <=> g = f
  BY <1>1 DEF Idle, Wakes, Runs
<1>5. At(f, frames'[f], list, q, run')
  <2>1. /\ frames'[f].at = "running" /\ frames'[f].result = frames[f].result
    BY <1>1, <1>2 DEF Row
  <2>2. /\ frames[f].result \in Cell
        /\ \A p \in Cell : ~Has(list[p], Parked(f)) /\ Once(list[p], Parked(f))
    BY DEF PlaceInv, FramesPlaced, At
  <2>3. Once(q, ResumeJob(f))
    BY DEF Has, Once
  <2>. QED
    BY <1>4, <2>1, <2>2, <2>3 DEF At
<1>6. ASSUME NEW g \in Frame, g # f
      PROVE  At(g, frames'[g], list, q, run')
  <2>1. frames'[g] = frames[g]
    BY <1>1, <1>2, <1>6
  <2>2. At(g, frames[g], list, q, Idle)
    BY <1>6
  <2>. QED
    BY <1>4, <1>6, <2>1, <2>2 DEF At
<1>7. \A d \in Cell : Backed(d, rx[d], st, list, q, run')
  BY <1>4 DEF Backed
<1>. QED
  BY <1>1, <1>3, <1>5, <1>6, <1>7 DEF PlaceInv, FramesPlaced, ReactionsBacked

\* The job of a frame: it was in the queue once, and now runs.
LEMMA RunResumePlaces ==
  ASSUME PlaceInv, RunResume
  PROVE  PlaceInv'
<1>1. /\ run = Idle /\ queue # <<>> /\ queue \in Seq(JobSet)
      /\ Head(queue).k = "resume" /\ Land(Head(queue).f, Tail(queue))
      /\ UNCHANGED handles
  BY DEF RunResume, Ready, Job, PlaceInv, Types
<1>2. Head(queue) \in JobSet
  BY <1>1, TailHas
<1>3. PICK f \in Frame : Head(queue) = ResumeJob(f) /\ Head(queue).f = f
  BY <1>1, <1>2, JobKinds
<1>4. /\ Tail(queue) \in Seq(JobSet) /\ Has(queue, ResumeJob(f))
      /\ Once(queue, ResumeJob(f)) => ~Has(Tail(queue), ResumeJob(f))
  BY <1>1, <1>3, TailHas
<1>5. frames[f].at = "queued" /\ Once(queue, ResumeJob(f))
  BY <1>4 DEF PlaceInv, FramesPlaced, At
<1>6. ASSUME NEW g \in Frame, g # f
      PROVE  At(g, frames[g], list, Tail(queue), Idle)
  <2>1. At(g, frames[g], list, queue, Idle)
    BY <1>1 DEF PlaceInv, FramesPlaced
  <2>2. Head(queue) # ResumeJob(g)
    BY <1>3, <1>6, JobsDiffer
  <2>. QED
    BY <1>1, <2>1, <2>2, PopAt
<1>7. ASSUME NEW d \in Cell
      PROVE  Backed(d, rx[d], st, list, Tail(queue), Idle)
  <2>1. Backed(d, rx[d], st, list, queue, Idle)
    BY <1>1 DEF PlaceInv, ReactionsBacked
  <2>2. Head(queue) # ReactJob(d)
    BY <1>3, JobsDiffer
  <2>. QED
    BY <1>1, <2>1, <2>2, PopBacked
<1>. QED
  BY <1>1, <1>3, <1>4, <1>5, <1>6, <1>7, LandPlaces

\* The frame that runs on in the job of another.
LEMMA RunFramePlaces ==
  ASSUME PlaceInv, RunFrame
  PROVE  PlaceInv'
<1>. DEFINE f == run.f
<1>1. /\ run.k = "wake" /\ f \in Frame /\ queue \in Seq(JobSet)
      /\ Land(f, queue) /\ UNCHANGED handles
  BY DEF RunFrame, PlaceInv, Types, RunOK
<1>2. Idle.k = "idle" /\ Wakes(run, f)
  BY <1>1 DEF Idle, Wakes
<1>3. frames[f].at = "queued" /\ ~Has(queue, ResumeJob(f))
  BY <1>1, <1>2 DEF PlaceInv, FramesPlaced, At
<1>4. ASSUME NEW g \in Frame, g # f
      PROVE  At(g, frames[g], list, queue, Idle)
  <2>1. /\ ~Wakes(run, g) /\ ~Runs(run, g) /\ ~Wakes(Idle, g) /\ ~Runs(Idle, g)
    BY <1>1, <1>2, <1>4 DEF Wakes, Runs
  <2>. QED
    BY <2>1 DEF PlaceInv, FramesPlaced, At
<1>5. \A d \in Cell : Backed(d, rx[d], st, list, queue, Idle)
  BY <1>1 DEF PlaceInv, ReactionsBacked, Backed
<1>. HIDE DEF f
<1>. QED
  BY <1>1, <1>3, <1>4, <1>5, LandPlaces

\* The reaction of d is called or passes the settlement on.
LEMMA ReactPlaces ==
  ASSUME PlaceInv, Inv, NEW q \in Seq(JobSet), NEW d \in Cell, React(q, d),
         UNCHANGED handles,
         \A f \in Frame : At(f, frames[f], list, q, Idle),
         \A e \in Cell : e # d => Backed(e, rx[e], st, list, q, Idle)
  PROVE  PlaceInv'
<1>. DEFINE x == [rx EXCEPT ![d] = NoRx]
<1>1. /\ rx' = x
      /\ x \in [Cell -> [kind : {"none", "then", "catch"}, src : Word]]
  BY DEF React, Call, Forward, PlaceInv, Types, NoRx, Word
<1>2. ASSUME NEW e \in Cell
      PROVE  Backed(e, x[e], st, list, q, Idle)
  <2>1. CASE e = d
    <3>1. x[e].src = NULL
      BY <2>1 DEF PlaceInv, Types, NoRx
    <3>. HIDE DEF x
    <3>. QED
      BY <3>1 DEF Backed
  <2>2. CASE e # d
    <3>1. x[e] = rx[e]
      BY <2>2 DEF PlaceInv, Types
    <3>. QED
      BY <2>2, <3>1
  <2>. QED
    BY <2>1, <2>2
<1>. HIDE DEF x
<1>3. CASE Forward(q, d)
  <2>1. /\ Settled(q, d) /\ frames' = Woken(d) /\ run' = Idle
    BY <1>3, SettleSettled DEF Forward
  <2>2. /\ st' \in [Cell -> State]
        /\ list' \in [Cell -> Seq(Link)]
        /\ queue' \in Seq(JobSet)
        /\ Woken(d) \in [Frame -> Row]
        /\ \A f \in Frame : At(f, Woken(d)[f], list', queue', Idle)
        /\ \A e \in Cell : Backed(e, x[e], st', list', queue', Idle)
    BY <1>1, <1>2, <2>1, SettlePlaces DEF PlaceInv, Inv
  <2>3. Types'
    BY <1>1, <2>1, <2>2 DEF PlaceInv, Types, RunOK, Idle
  <2>. QED
    BY <1>1, <2>1, <2>2, <2>3 DEF PlaceInv, FramesPlaced, ReactionsBacked
<1>4. CASE Call(q, d)
  <2>1. /\ run' = [k |-> "handler", d |-> d, src |-> rx[d].src, of |-> "inline"]
        /\ queue' = q /\ UNCHANGED <<st, list, frames>>
    BY <1>4 DEF Call
  <2>2. Plain(Idle) /\ Plain(run') /\ RunOK'
    BY <2>1 DEF Plain, Idle, RunOK
  <2>3. \A f \in Frame : At(f, frames[f], list, q, run')
    BY <2>2, PlainAt
  <2>4. \A e \in Cell : Backed(e, x[e], st, list, q, run')
    BY <1>2, <2>2, PlainBacked
  <2>5. Types'
    BY <1>1, <2>1, <2>2 DEF PlaceInv, Types
  <2>. QED
    BY <1>1, <2>1, <2>3, <2>4, <2>5 DEF PlaceInv, FramesPlaced, ReactionsBacked
<1>. QED
  BY <1>3, <1>4 DEF React

\* The job of an inline reaction: its words are cleared before the handler runs.
LEMMA RunReactPlaces ==
  ASSUME PlaceInv, Inv, RunReact
  PROVE  PlaceInv'
<1>1. /\ run = Idle /\ queue # <<>> /\ queue \in Seq(JobSet)
      /\ Head(queue).k = "react" /\ React(Tail(queue), Head(queue).d)
      /\ UNCHANGED handles
  BY DEF RunReact, Ready, Job, PlaceInv, Types
<1>2. Head(queue) \in JobSet /\ Tail(queue) \in Seq(JobSet)
  BY <1>1, TailHas
<1>3. PICK d \in Cell : Head(queue) = ReactJob(d) /\ Head(queue).d = d
  BY <1>1, <1>2, JobKinds
<1>4. ASSUME NEW f \in Frame
      PROVE  At(f, frames[f], list, Tail(queue), Idle)
  <2>1. At(f, frames[f], list, queue, Idle)
    BY <1>1 DEF PlaceInv, FramesPlaced
  <2>2. Head(queue) # ResumeJob(f)
    BY <1>3, JobsDiffer
  <2>. QED
    BY <1>1, <2>1, <2>2, PopAt
<1>5. ASSUME NEW e \in Cell, e # d
      PROVE  Backed(e, rx[e], st, list, Tail(queue), Idle)
  <2>1. Backed(e, rx[e], st, list, queue, Idle)
    BY <1>1 DEF PlaceInv, ReactionsBacked
  <2>2. Head(queue) # ReactJob(e)
    BY <1>3, <1>5, JobsDiffer
  <2>. QED
    BY <1>1, <2>1, <2>2, PopBacked
<1>. QED
  BY <1>1, <1>2, <1>3, <1>4, <1>5, ReactPlaces

\* The reaction that runs on in the job of another.
LEMMA RunNextPlaces ==
  ASSUME PlaceInv, Inv, RunNext
  PROVE  PlaceInv'
<1>. DEFINE d == run.d
<1>1. /\ run.k = "next" /\ d \in Cell /\ queue \in Seq(JobSet)
      /\ React(queue, d) /\ UNCHANGED handles
  BY DEF RunNext, PlaceInv, Types, RunOK
<1>2. Idle.k = "idle"
  BY DEF Idle
<1>3. ASSUME NEW f \in Frame
      PROVE  At(f, frames[f], list, queue, Idle)
  <2>1. /\ ~Wakes(run, f) /\ ~Runs(run, f) /\ ~Wakes(Idle, f) /\ ~Runs(Idle, f)
    BY <1>1, <1>2 DEF Wakes, Runs
  <2>. QED
    BY <2>1 DEF PlaceInv, FramesPlaced, At
<1>4. ASSUME NEW e \in Cell, e # d
      PROVE  Backed(e, rx[e], st, list, queue, Idle)
  <2>1. run # [k |-> "next", d |-> e]
    BY <1>4
  <2>. QED
    BY <2>1 DEF PlaceInv, ReactionsBacked, Backed
<1>. HIDE DEF d
<1>. QED
  BY <1>1, <1>3, <1>4, ReactPlaces

\* A job that resumes no frame and no inline reaction is taken off the queue.
LEMMA TakenPlaces ==
  ASSUME PlaceInv, Ready, Job.k \notin {"react", "resume"}
  PROVE  /\ Job \in JobSet /\ Tail(queue) \in Seq(JobSet)
         /\ \A f \in Frame : At(f, frames[f], list, Tail(queue), run)
         /\ \A e \in Cell : Backed(e, rx[e], st, list, Tail(queue), run)
<1>1. queue # <<>> /\ queue \in Seq(JobSet)
  BY DEF Ready, PlaceInv, Types
<1>2. Head(queue) \in JobSet /\ Tail(queue) \in Seq(JobSet)
  BY <1>1, TailHas
<1>3. /\ \A f \in Frame : Head(queue) # ResumeJob(f)
      /\ \A e \in Cell : Head(queue) # ReactJob(e)
  BY DEF Job, ResumeJob, ReactJob
<1>4. \A f \in Frame : At(f, frames[f], list, Tail(queue), run)
  BY <1>1, <1>3, PopAt DEF PlaceInv, FramesPlaced
<1>5. \A e \in Cell : Backed(e, rx[e], st, list, Tail(queue), run)
  BY <1>1, <1>3, PopBacked DEF PlaceInv, ReactionsBacked
<1>. QED
  BY <1>2, <1>4, <1>5 DEF Job

\* adopt_attach_job: a record on the inner promise.
LEMMA RunAttachPlaces ==
  ASSUME PlaceInv, RunAttach
  PROVE  PlaceInv'
<1>1. /\ AttachThen(Tail(queue), Job.c, Record("adopt", Job.c, Job.d))
      /\ UNCHANGED <<st, rx, frames, run, handles>>
      /\ Ready /\ Job.k = "attach"
  BY DEF RunAttach
<1>2. /\ Job \in JobSet /\ Tail(queue) \in Seq(JobSet)
      /\ \A f \in Frame : At(f, frames[f], list, Tail(queue), run)
      /\ \A e \in Cell : Backed(e, rx[e], st, list, Tail(queue), run)
  BY <1>1, TakenPlaces
<1>3. Job.c \in Cell /\ Job.d \in Cell
  BY <1>1, <1>2, JobKinds
<1>4. Record("adopt", Job.c, Job.d) \in Records
  BY <1>3, MadeOK
<1>5. /\ Types /\ rx \in [Cell -> [kind : {"none", "then", "catch"}, src : Word]]
  BY DEF PlaceInv, Types
<1>6. /\ list' \in [Cell -> Seq(Link)] /\ queue' \in Seq(JobSet)
      /\ \A f \in Frame : At(f, frames[f], list', queue', run)
      /\ \A e \in Cell : Backed(e, rx[e], st, list', queue', run)
  BY <1>1, <1>2, <1>3, <1>4, <1>5, RecordPlaces
<1>7. Types'
  BY <1>1, <1>6 DEF PlaceInv, Types, RunOK
<1>. QED
  BY <1>1, <1>6, <1>7 DEF PlaceInv, FramesPlaced, ReactionsBacked

\* adopt_dispatch and finally_wait_dispatch.
LEMMA PassedOnPlaces ==
  ASSUME PlaceInv, Inv, RunAdopt \/ RunWait
  PROVE  PlaceInv'
<1>1. /\ Ready /\ Job.k \in {"adopt", "wait"}
      /\ Settled(Tail(queue), Job.d) /\ frames' = Woken(Job.d)
      /\ UNCHANGED <<rx, run, handles>>
  BY SettleSettled DEF RunAdopt, RunWait
<1>2. /\ Job \in JobSet /\ Tail(queue) \in Seq(JobSet)
      /\ \A f \in Frame : At(f, frames[f], list, Tail(queue), run)
      /\ \A e \in Cell : Backed(e, rx[e], st, list, Tail(queue), run)
  BY <1>1, TakenPlaces
<1>3. Job.d \in Cell
  BY <1>1, <1>2, JobKinds
<1>4. /\ st' \in [Cell -> State]
      /\ list' \in [Cell -> Seq(Link)]
      /\ queue' \in Seq(JobSet)
      /\ Woken(Job.d) \in [Frame -> Row]
      /\ \A f \in Frame : At(f, Woken(Job.d)[f], list', queue', run)
      /\ \A e \in Cell : Backed(e, rx[e], st', list', queue', run)
  BY <1>1, <1>2, <1>3, SettlePlaces DEF PlaceInv, Inv, Types
<1>5. Types'
  BY <1>1, <1>4 DEF PlaceInv, Types, RunOK
<1>. QED
  BY <1>1, <1>4, <1>5 DEF PlaceInv, FramesPlaced, ReactionsBacked

\* then2_dispatch and finally_dispatch call a handler.
LEMMA RunRecordPlaces ==
  ASSUME PlaceInv, RunRecord
  PROVE  PlaceInv'
<1>1. /\ Ready /\ Job.k \in {"both", "finally"} /\ run = Idle
      /\ run' = [k |-> "handler", d |-> Job.d, src |-> Job.c, of |-> Job.k]
      /\ queue' = Tail(queue)
      /\ UNCHANGED <<st, list, rx, frames, handles>>
  BY DEF RunRecord, Ready
<1>2. /\ Job \in JobSet /\ Tail(queue) \in Seq(JobSet)
      /\ \A f \in Frame : At(f, frames[f], list, Tail(queue), run)
      /\ \A e \in Cell : Backed(e, rx[e], st, list, Tail(queue), run)
  BY <1>1, TakenPlaces
<1>3. Job.c \in Cell /\ Job.d \in Cell
  BY <1>1, <1>2, JobKinds
<1>4. Plain(run) /\ Plain(run') /\ RunOK'
  BY <1>1, <1>3 DEF Plain, Idle, RunOK
<1>5. \A f \in Frame : At(f, frames[f], list, Tail(queue), run')
  BY <1>2, <1>4, PlainAt
<1>6. \A e \in Cell : Backed(e, rx[e], st, list, Tail(queue), run')
  BY <1>2, <1>4, PlainBacked
<1>7. Types'
  BY <1>1, <1>2, <1>4 DEF PlaceInv, Types
<1>. QED
  BY <1>1, <1>5, <1>6, <1>7 DEF PlaceInv, FramesPlaced, ReactionsBacked

-----------------------------------------------------------------------------
(* The teardown, and every step.                                           *)

\* The frames parked on the cell are cancelled, and the words of the reactions
\* that named it are cut.
LEMMA FreeCellPlaces ==
  ASSUME PlaceInv, NEW c \in Cell, FreeCell(c)
  PROVE  PlaceInv'
<1>1. /\ st' = [st EXCEPT ![c] = "free"]
      /\ list' = [list EXCEPT ![c] = <<>>]
      /\ rx' = [e \in Cell |-> IF e = c THEN NoRx
                               ELSE IF Has(list[c], Inline(e))
                               THEN [rx[e] EXCEPT !.src = NULL]
                               ELSE rx[e]]
      /\ frames' = [f \in Frame |-> IF Has(list[c], Parked(f)) THEN NoFrame ELSE frames[f]]
      /\ UNCHANGED <<queue, run, handles>>
  BY DEF FreeCell, Has
<1>2. /\ rx \in [Cell -> [kind : {"none", "then", "catch"}, src : Word]]
      /\ frames \in [Frame -> Row] /\ list \in [Cell -> Seq(Link)] /\ st \in [Cell -> State]
  BY DEF PlaceInv, Types
<1>3. rx' \in [Cell -> [kind : {"none", "then", "catch"}, src : Word]]
  BY <1>1, <1>2 DEF NoRx, Word
<1>4. frames' \in [Frame -> Row]
  <2>1. NoFrame \in Row
    BY DEF NoFrame, Row, Word
  <2>. QED
    BY <1>1, <1>2, <2>1
<1>5. list' \in [Cell -> Seq(Link)] /\ st' \in [Cell -> State]
  BY <1>1, <1>2 DEF State
<1>6. Types'
  BY <1>1, <1>3, <1>4, <1>5 DEF PlaceInv, Types, RunOK
<1>7. /\ \A p \in Cell : p # c => list'[p] = list[p] /\ st'[p] = st[p]
      /\ list'[c] = <<>>
  BY <1>1, <1>2
<1>8. ASSUME NEW f \in Frame
      PROVE  At(f, frames'[f], list', queue, run)
  <2>1. At(f, frames[f], list, queue, run)
    BY DEF PlaceInv, FramesPlaced
  <2>2. ~Has(list'[c], Parked(f)) /\ Once(list'[c], Parked(f))
    BY <1>7, EmptyHas
  <2>3. CASE Has(list[c], Parked(f))
    <3>1. frames'[f] = NoFrame /\ NoFrame.at = "none"
      BY <1>1, <2>3 DEF NoFrame
    <3>2. frames[f].at = "parked" /\ frames[f].src = c
      BY <2>1, <2>3 DEF At
    <3>3. \A p \in Cell : ~Has(list'[p], Parked(f)) /\ Once(list'[p], Parked(f))
      BY <1>7, <2>1, <2>2, <3>2 DEF At
    <3>4. /\ ~(Wakes(run, f) \/ Has(queue, ResumeJob(f))) /\ ~Runs(run, f)
          /\ Once(queue, ResumeJob(f))
      BY <2>1, <3>2 DEF At
    <3>. QED
      BY <3>1, <3>3, <3>4 DEF At
  <2>4. CASE ~Has(list[c], Parked(f))
    <3>1. frames'[f] = frames[f]
      BY <1>1, <2>4
    <3>. QED
      BY <1>7, <2>1, <2>2, <2>4, <3>1 DEF At
  <2>. QED
    BY <2>3, <2>4
<1>9. ASSUME NEW e \in Cell
      PROVE  Backed(e, rx'[e], st', list', queue, run)
  <2>1. Backed(e, rx[e], st, list, queue, run)
    BY DEF PlaceInv, ReactionsBacked
  <2>2. CASE e = c \/ Has(list[c], Inline(e))
    <3>1. rx'[e].src = NULL
      BY <1>1, <1>2, <2>2 DEF NoRx
    <3>. QED
      BY <3>1 DEF Backed
  <2>3. CASE e # c /\ ~Has(list[c], Inline(e))
    <3>1. rx'[e] = rx[e] /\ rx[e].src \in Word
      BY <1>1, <1>2, <2>3
    <3>2. CASE rx[e].src \in Cell /\ st[rx[e].src] = "pending" /\ Has(list[rx[e].src], Inline(e))
      <4>1. list'[rx[e].src] = list[rx[e].src] /\ st'[rx[e].src] = st[rx[e].src]
        BY <1>7, <2>3, <3>2
      <4>. QED
        BY <3>1, <3>2, <4>1 DEF Backed
    <3>. QED
      BY <2>1, <3>1, <3>2 DEF Backed, Word
  <2>. QED
    BY <2>2, <2>3
<1>. QED
  BY <1>1, <1>6, <1>8, <1>9 DEF PlaceInv, FramesPlaced, ReactionsBacked

\* Steps of the program and of the host that change none of this.
LEMMA KeptPlaces ==
  ASSUME PlaceInv, UNCHANGED <<st, list, rx, frames, queue>>, handles' \subseteq handles,
         UNCHANGED run \/ (Plain(run) /\ run' = Idle)
  PROVE  PlaceInv'
<1>1. CASE UNCHANGED run
  <2>1. Types'
    BY <1>1 DEF PlaceInv, Types, RunOK
  <2>. QED
    BY <1>1, <2>1 DEF PlaceInv, FramesPlaced, ReactionsBacked
<1>2. CASE Plain(run) /\ run' = Idle
  <2>1. Types'
    BY <1>2, IdlePlaces DEF PlaceInv, Types, RunOK
  <2>2. /\ \A f \in Frame : At(f, frames[f], list, queue, Idle)
        /\ \A d \in Cell : Backed(d, rx[d], st, list, queue, Idle)
    BY <1>2, IdlePlaces DEF PlaceInv
  <2>. QED
    BY <1>2, <2>1, <2>2 DEF PlaceInv, FramesPlaced, ReactionsBacked
<1>. QED
  BY <1>1, <1>2

\* At first nothing is suspended and nothing is attached.
LEMMA InitPlaces == Init => PlaceInv
<1>. SUFFICES ASSUME Init
              PROVE  PlaceInv
  OBVIOUS
<1>1. /\ st = [c \in Cell |-> "free"] /\ list = [c \in Cell |-> <<>>]
      /\ rx = [c \in Cell |-> NoRx] /\ frames = [f \in Frame |-> NoFrame]
      /\ queue = <<>> /\ run = [k |-> "main"] /\ handles = {}
  BY DEF Init
<1>2. run.k = "main" /\ NoFrame.at = "none" /\ NoRx.src = NULL
  BY <1>1 DEF NoFrame, NoRx
<1>3. NoFrame \in Row /\ NoRx \in [kind : {"none", "then", "catch"}, src : Word]
  BY DEF NoFrame, NoRx, Row, Word
<1>4. <<>> \in Seq(Link) /\ <<>> \in Seq(JobSet)
  OBVIOUS
<1>5. Types
  BY <1>1, <1>2, <1>3, <1>4 DEF Types, RunOK, State
<1>6. ASSUME NEW f \in Frame
      PROVE  At(f, NoFrame, list, queue, run)
  <2>1. ~Wakes(run, f) /\ ~Runs(run, f)
    BY <1>2 DEF Wakes, Runs
  <2>2. /\ ~Has(queue, ResumeJob(f)) /\ Once(queue, ResumeJob(f))
        /\ \A p \in Cell : ~Has(list[p], Parked(f)) /\ Once(list[p], Parked(f))
    BY <1>1, EmptyHas
  <2>. QED
    BY <1>2, <2>1, <2>2 DEF At
<1>7. FramesPlaced
  BY <1>1, <1>6 DEF FramesPlaced
<1>8. ReactionsBacked
  BY <1>1, <1>2 DEF ReactionsBacked, Backed
<1>. QED
  BY <1>5, <1>7, <1>8 DEF PlaceInv

\* The invariant is inductive, given that no list of a settled promise has an entry.
LEMMA StepPlaces == PlaceInv /\ Inv /\ [Next]_vars => PlaceInv'
<1>. SUFFICES ASSUME PlaceInv, Inv, [Next]_vars
              PROVE  PlaceInv'
  OBVIOUS
<1>1. ASSUME NEW c \in Cell,
             \/ \E s \in {"pending", "fulfilled", "rejected"} : New(c, s)
             \/ \E o \in Outcome : Resolve(c, o)
             \/ BodyAwait(c) \/ FreeCell(c)
      PROVE  PlaceInv'
  BY <1>1, NewPlaces, ResolvePlaces, BodyAwaitPlaces, FreeCellPlaces
<1>2. ASSUME NEW s \in Cell, NEW d \in Cell,
             \/ \E kind \in {"then", "catch"} : Then(s, d, kind)
             \/ ThenNone(s, d) \/ ThenTwo(s, d) \/ Finally(s, d)
      PROVE  PlaceInv'
  BY <1>2, ThenPlaces, DerivePlaces DEF ThenNone, ThenTwo, Finally
<1>3. ASSUME NEW f \in Frame, NEW r \in Cell, NEW c \in Cell, CallAsync(f, r, c)
      PROVE  PlaceInv'
  BY <1>3, CallAsyncPlaces
<1>4. CASE HandlerEnd \/ FinallyEnd \/ BodyEnd \/ BodyAwaitValue
  BY <1>4, HandlerEndPlaces, FinallyEndPlaces, BodyEndPlaces, BodyAwaitValuePlaces
<1>5. ASSUME NEW c \in Cell, Drop(c)
      PROVE  PlaceInv'
  BY <1>5, KeptPlaces DEF Drop
<1>6. CASE MainEnd
  <2>1. Plain(run) /\ run' = Idle
    BY <1>6 DEF MainEnd, Plain
  <2>. QED
    BY <1>6, <2>1, KeptPlaces DEF MainEnd
<1>7. CASE Quiet \/ UNCHANGED vars
  BY <1>7, KeptPlaces DEF Quiet, vars
<1>8. CASE RunReact \/ RunResume \/ RunNext \/ RunFrame \/ RunAttach \/ RunAdopt
           \/ RunRecord \/ RunWait
  BY <1>8, RunReactPlaces, RunResumePlaces, RunNextPlaces, RunFramePlaces,
     RunAttachPlaces, PassedOnPlaces, RunRecordPlaces
<1>. QED
  BY <1>1, <1>2, <1>3, <1>4, <1>5, <1>6, <1>7, <1>8 DEF Next

\* The inductive invariant, over the cells' words and the rejections' (Inv).
THEOREM PlacesHold == Spec => []PlaceInv
<1>1. Init => Inv /\ PlaceInv
  BY InitInv, InitPlaces
<1>2. Inv /\ PlaceInv /\ [Next]_vars => (Inv /\ PlaceInv)'
  BY StepInv, StepPlaces
<1>. QED
  BY <1>1, <1>2, PTL DEF Spec

\* A suspended async call is parked in the list of the one promise it awaits,
\* once, or has one job, or is about to go on, or runs: no call is resumed twice
\* or lost (frame.rs: park, wake, land; teardown.rs: a parked one is cancelled with
\* the promise).
THEOREM FramesHaveOnePlace == Spec => []FramesPlaced
<1>1. PlaceInv => FramesPlaced
  BY DEF PlaceInv
<1>. QED
  BY <1>1, PlacesHold, PTL

\* A back-pointer, which holds no reference, is never left to a cell that settled or
\* went back to the pool: free_cell cuts every one the list of a dying cell names.
THEOREM BackPointersCorrect == Spec => []BackPointersLive
<1>1. PlaceInv => BackPointersLive
  <2>. SUFFICES ASSUME PlaceInv
                PROVE  BackPointersLive
    OBVIOUS
  <2>1. ASSUME NEW d \in Cell, rx[d].src # NULL,
               ~\E i \in DOMAIN queue : queue[i] = ReactJob(d),
               run # [k |-> "next", d |-> d]
        PROVE  /\ st[rx[d].src] = "pending"
               /\ \E i \in DOMAIN list[rx[d].src] : list[rx[d].src][i] = Inline(d)
    BY <2>1 DEF PlaceInv, ReactionsBacked, Backed, Has
  <2>2. ASSUME NEW f \in Frame, frames[f].at = "parked"
        PROVE  \E i \in DOMAIN list[frames[f].src] : list[frames[f].src][i] = Parked(f)
    BY <2>2 DEF PlaceInv, FramesPlaced, At, Has
  <2>. QED
    BY <2>1, <2>2 DEF BackPointersLive
<1>. QED
  BY <1>1, PlacesHold, PTL

-----------------------------------------------------------------------------
(* Counting.                                                               *)

\* The entries of all the lists, and the frame words, that are in K.
EntriesOf(l, p, K) == {<<p, i>> : i \in {j \in DOMAIN l[p] : l[p][j] \in K}}
InLists(l, K) == Cardinality(UNION {EntriesOf(l, p, K) : p \in Cell})
RowsIn(fr, K) == Cardinality({f \in Frame : fr[f] \in K})

\* One sequence has at each place what the other has at the opposite one.
Opposite(s, t, K, J) == /\ Len(t) = Len(s)
                        /\ \A i \in 1 .. Len(s) : t[i] \in J <=> s[Len(s) + 1 - i] \in K

\* As many of one are in J as of the other in K.
LEMMA CountReversed ==
  ASSUME NEW S, NEW T, NEW s \in Seq(S), NEW t \in Seq(T), NEW K, NEW J,
         Opposite(s, t, K, J)
  PROVE  CountIn(t, J) = CountIn(s, K)
<1>. USE DEF Opposite
<1>. DEFINE A == {i \in DOMAIN s : s[i] \in K}
            B == {i \in DOMAIN t : t[i] \in J}
            n == Len(s)
            g == [i \in A |-> n + 1 - i]
<1>1. n \in Nat /\ DOMAIN s = 1 .. n /\ DOMAIN t = 1 .. n
  OBVIOUS
<1>2. ASSUME NEW i \in 1 .. n
      PROVE  /\ i \in Nat /\ n + 1 - i \in 1 .. n /\ n + 1 - (n + 1 - i) = i
             /\ i \in A <=> n + 1 - i \in B
  <2>1. i \in Nat /\ n + 1 - i \in 1 .. n /\ n + 1 - (n + 1 - i) = i
    BY <1>1
  <2>2. t[n + 1 - i] \in J <=> s[n + 1 - (n + 1 - i)] \in K
    BY <2>1
  <2>. QED
    BY <1>1, <2>1, <2>2
<1>3. IsFiniteSet(A) /\ A \subseteq 1 .. n /\ B \subseteq 1 .. n
  BY <1>1, CountNat
<1>. HIDE DEF A, B, n
<1>4. g \in [A -> B]
  BY <1>2, <1>3
<1>5. ASSUME NEW a \in A, NEW b \in A, g[a] = g[b]
      PROVE  a = b
  <2>1. n + 1 - a = n + 1 - b /\ a \in Nat /\ b \in Nat /\ n \in Nat
    BY <1>1, <1>2, <1>3, <1>5
  <2>. QED
    BY <2>1
<1>6. ASSUME NEW b \in B
      PROVE  \E a \in A : g[a] = b
  <2>1. /\ b \in 1 .. n /\ n + 1 - b \in 1 .. n /\ n + 1 - (n + 1 - b) = b
    BY <1>2, <1>3
  <2>2. n + 1 - b \in A
    BY <1>2, <2>1
  <2>. QED
    BY <2>1, <2>2
<1>. HIDE DEF g
<1>7. Cardinality(B) = Cardinality(A)
  BY <1>3, <1>4, <1>5, <1>6, SameCount
<1>. QED
  BY <1>7 DEF CountIn, A, B

\* Of a sequence of one.
LEMMA CountOne ==
  ASSUME NEW e, NEW K
  PROVE  CountIn(<<e>>, K) = One(e \in K)
<1>1. DOMAIN <<e>> = {1} /\ <<e>>[1] = e
  OBVIOUS
<1>2. CASE e \in K
  <2>1. {i \in DOMAIN <<e>> : <<e>>[i] \in K} = {1}
    BY <1>1, <1>2
  <2>. QED
    BY <1>2, <2>1, FS_Singleton DEF CountIn, One
<1>3. CASE e \notin K
  <2>1. {i \in DOMAIN <<e>> : <<e>>[i] \in K} = {}
    BY <1>1, <1>3
  <2>. QED
    BY <1>3, <2>1, FS_EmptySet DEF CountIn, One
<1>. QED
  BY <1>2, <1>3

\* What a queue or a list has more of, when it grows by one.
LEMMA CountGrows ==
  ASSUME NEW S, NEW s \in Seq(S), NEW e \in S, NEW K
  PROVE  /\ CountIn(Append(s, e), K) = CountIn(s, K) + One(e \in K)
         /\ CountIn(<<e>> \o s, K) = CountIn(s, K) + One(e \in K)
<1>. DEFINE one == <<e>>
<1>1. one \in Seq(S)
  BY AppendOne
<1>2. s \o one = Append(s, e)
  BY AppendOne
<1>3. CountIn(one, K) = One(e \in K)
  BY CountOne
<1>. HIDE DEF one
<1>4. CountIn(s \o one, K) = CountIn(s, K) + CountIn(one, K)
  BY <1>1, CountConcat
<1>5. CountIn(one \o s, K) = CountIn(one, K) + CountIn(s, K)
  BY <1>1, CountConcat
<1>6. CountIn(s, K) \in Nat /\ CountIn(one, K) \in Nat
  BY <1>1, CountNat
<1>7. CountIn(Append(s, e), K) = CountIn(s, K) + One(e \in K)
  BY <1>2, <1>3, <1>4
<1>8. CountIn(one \o s, K) = CountIn(s, K) + One(e \in K)
  BY <1>3, <1>5, <1>6
<1>. QED
  BY <1>7, <1>8 DEF one

\* And when it loses its head.
LEMMA CountTail ==
  ASSUME NEW S, NEW s \in Seq(S), s # <<>>, NEW K
  PROVE  CountIn(s, K) = CountIn(Tail(s), K) + One(Head(s) \in K)
<1>1. Tail(s) \in Seq(S) /\ Head(s) \in S
  BY TailAt
<1>. DEFINE h == Head(s)
            t == Tail(s)
<1>2. s = <<h>> \o t
  OBVIOUS
<1>. HIDE DEF h, t
<1>3. CountIn(<<h>> \o t, K) = CountIn(t, K) + One(h \in K)
  BY <1>1, CountGrows DEF h, t
<1>. QED
  BY <1>2, <1>3 DEF h, t

\* The entries of a list in all the lists' count.
LEMMA EntriesCount ==
  ASSUME NEW l, NEW p, l[p] \in Seq(Link), NEW K
  PROVE  /\ IsFiniteSet(EntriesOf(l, p, K))
         /\ Cardinality(EntriesOf(l, p, K)) = CountIn(l[p], K)
<1>. DEFINE A == {i \in DOMAIN l[p] : l[p][i] \in K}
            g == [i \in A |-> <<p, i>>]
<1>1. IsFiniteSet(A)
  BY CountNat
<1>2. EntriesOf(l, p, K) = {<<p, i>> : i \in A}
  BY DEF EntriesOf
<1>. HIDE DEF A
<1>3. g \in [A -> EntriesOf(l, p, K)]
  BY <1>2
<1>4. \A a, b \in A : g[a] = g[b] => a = b
  OBVIOUS
<1>5. \A t \in EntriesOf(l, p, K) : \E a \in A : g[a] = t
  BY <1>2
<1>. HIDE DEF g
<1>6. /\ IsFiniteSet(EntriesOf(l, p, K))
      /\ Cardinality(EntriesOf(l, p, K)) = Cardinality(A)
  BY <1>1, <1>3, <1>4, <1>5, SameCount
<1>. QED
  BY <1>6 DEF CountIn, A

\* The lists but one.
Others(l, c, K) == UNION {EntriesOf(l, p, K) : p \in Cell \ {c}}

\* A finite number of finite sets.
LEMMA UnionFinite ==
  ASSUME NEW D \in SUBSET Cell, NEW l \in [Cell -> Seq(Link)], NEW K
  PROVE  IsFiniteSet(UNION {EntriesOf(l, p, K) : p \in D})
<1>. DEFINE T == {EntriesOf(l, p, K) : p \in D}
            g == [p \in D |-> EntriesOf(l, p, K)]
<1>1. IsFiniteSet(D)
  BY CellAssumption, FS_Subset
<1>2. g \in [D -> T]
  OBVIOUS
<1>3. \A t \in T : \E p \in D : g[p] = t
  OBVIOUS
<1>4. g \in Surjection(D, T)
  BY <1>2, <1>3 DEF Surjection
<1>5. IsFiniteSet(T)
  BY <1>1, <1>4, FS_Surjection
<1>6. \A t \in T : IsFiniteSet(t)
  BY EntriesCount
<1>. QED
  BY <1>5, <1>6, FS_UNION

\* One list apart from the others.
LEMMA ListsSplit ==
  ASSUME NEW l \in [Cell -> Seq(Link)], NEW c \in Cell, NEW K
  PROVE  /\ IsFiniteSet(Others(l, c, K))
         /\ InLists(l, K) = CountIn(l[c], K) + Cardinality(Others(l, c, K))
         /\ InLists(l, K) \in Nat
<1>. DEFINE D == Cell \ {c}
<1>0. D \in SUBSET Cell
  OBVIOUS
<1>. HIDE DEF D
<1>6. IsFiniteSet(UNION {EntriesOf(l, p, K) : p \in D})
  BY <1>0, UnionFinite
<1>1. IsFiniteSet(Others(l, c, K))
  BY <1>6 DEF Others, D
<1>2. /\ IsFiniteSet(EntriesOf(l, c, K))
      /\ Cardinality(EntriesOf(l, c, K)) = CountIn(l[c], K)
  BY EntriesCount
<1>3. UNION {EntriesOf(l, p, K) : p \in Cell} = EntriesOf(l, c, K) \cup Others(l, c, K)
  BY DEF Others
<1>4. EntriesOf(l, c, K) \cap Others(l, c, K) = {}
  BY DEF Others, EntriesOf
<1>5. /\ Cardinality(EntriesOf(l, c, K)) \in Nat /\ Cardinality(Others(l, c, K)) \in Nat
      /\ Cardinality(EntriesOf(l, c, K) \cup Others(l, c, K))
           = Cardinality(EntriesOf(l, c, K)) + Cardinality(Others(l, c, K))
  BY <1>1, <1>2, <1>4, DisjointCount
<1>7. InLists(l, K) = Cardinality(EntriesOf(l, c, K) \cup Others(l, c, K))
  BY <1>3 DEF InLists
<1>. QED
  BY <1>1, <1>2, <1>5, <1>7

\* Lists l and m are the same but c's.
SameBut(l, m, c) == /\ l \in [Cell -> Seq(Link)] /\ m \in [Cell -> Seq(Link)] /\ c \in Cell
                    /\ \A p \in Cell \ {c} : m[p] = l[p]

\* One list changes.
LEMMA ListsAt ==
  ASSUME NEW l, NEW m, NEW c, NEW K, SameBut(l, m, c)
  PROVE  InLists(m, K) = InLists(l, K) - CountIn(l[c], K) + CountIn(m[c], K)
<1>1. /\ l \in [Cell -> Seq(Link)] /\ m \in [Cell -> Seq(Link)] /\ c \in Cell
      /\ \A p \in Cell \ {c} : m[p] = l[p]
  BY DEF SameBut
<1>2. \A p \in Cell \ {c} : EntriesOf(m, p, K) = EntriesOf(l, p, K)
  BY <1>1 DEF EntriesOf
<1>3. Others(m, c, K) = Others(l, c, K)
  BY <1>2 DEF Others
<1>4. /\ InLists(l, K) = CountIn(l[c], K) + Cardinality(Others(l, c, K))
      /\ Cardinality(Others(l, c, K)) \in Nat
  BY <1>1, ListsSplit, FS_CardinalityType
<1>5. InLists(m, K) = CountIn(m[c], K) + Cardinality(Others(m, c, K))
  BY <1>1, ListsSplit
<1>6. CountIn(l[c], K) \in Nat /\ CountIn(m[c], K) \in Nat
  BY <1>1, CountNat
<1>. QED
  BY <1>3, <1>4, <1>5, <1>6

\* An entry is counted.
LEMMA ListsHave ==
  ASSUME NEW l \in [Cell -> Seq(Link)], NEW K
  PROVE  InLists(l, K) = 0 <=> \A p \in Cell : \A i \in DOMAIN l[p] : l[p][i] \notin K
<1>1. ASSUME InLists(l, K) = 0, NEW p \in Cell
      PROVE  \A i \in DOMAIN l[p] : l[p][i] \notin K
  <2>1. /\ InLists(l, K) = CountIn(l[p], K) + Cardinality(Others(l, p, K))
        /\ Cardinality(Others(l, p, K)) \in Nat
        /\ CountIn(l[p], K) \in Nat
    BY ListsSplit, CountNat, FS_CardinalityType
  <2>2. CountIn(l[p], K) = 0
    BY <1>1, <2>1
  <2>. QED
    BY <2>2, CountNat
<1>2. ASSUME \A p \in Cell : \A i \in DOMAIN l[p] : l[p][i] \notin K
      PROVE  InLists(l, K) = 0
  <2>1. \A p \in Cell : EntriesOf(l, p, K) = {}
    BY <1>2 DEF EntriesOf
  <2>2. UNION {EntriesOf(l, p, K) : p \in Cell} = {}
    BY <2>1
  <2>. QED
    BY <2>2, FS_EmptySet DEF InLists
<1>. QED
  BY <1>1, <1>2

\* The words of the frames, and of one of them.
LEMMA RowsNat ==
  ASSUME NEW fr, NEW K
  PROVE  /\ IsFiniteSet({f \in Frame : fr[f] \in K})
         /\ RowsIn(fr, K) \in Nat
         /\ RowsIn(fr, K) = 0 <=> \A f \in Frame : fr[f] \notin K
<1>. DEFINE A == {f \in Frame : fr[f] \in K}
<1>1. IsFiniteSet(A)
  BY FrameAssumption, FS_Subset
<1>2. Cardinality(A) \in Nat /\ (Cardinality(A) = 0 <=> A = {})
  BY <1>1, FS_CardinalityType, FS_EmptySet
<1>. QED
  BY <1>1, <1>2 DEF RowsIn

\* One frame's words change.
LEMMA RowsAt ==
  ASSUME NEW fr \in [Frame -> Row], NEW words \in [Frame -> Row], NEW f \in Frame,
         \A g \in Frame \ {f} : words[g] = fr[g], NEW K
  PROVE  RowsIn(words, K) = RowsIn(fr, K) - One(fr[f] \in K) + One(words[f] \in K)
<1>. DEFINE A == {g \in Frame : fr[g] \in K}
            B == {g \in Frame : words[g] \in K}
            C == A \ {f}
<1>1. IsFiniteSet(A)
  BY RowsNat
<1>2. IsFiniteSet(C) /\ Cardinality(C) = IF f \in A THEN Cardinality(A) - 1 ELSE Cardinality(A)
  BY <1>1, FS_RemoveElement
<1>3. Cardinality(A) \in Nat
  BY <1>1, FS_CardinalityType
<1>4. f \in A <=> fr[f] \in K
  OBVIOUS
<1>5. f \notin C
  OBVIOUS
<1>6. CASE words[f] \in K
  <2>1. B = C \cup {f}
    BY <1>6
  <2>. HIDE DEF B, C
  <2>2. Cardinality(B) = Cardinality(C) + 1
    BY <1>2, <1>5, <2>1, FS_AddElement
  <2>. HIDE DEF A
  <2>3. Cardinality(B) = Cardinality(A) - One(fr[f] \in K) + 1
    BY <1>2, <1>3, <1>4, <2>2 DEF One
  <2>. QED
    BY <1>6, <2>3 DEF RowsIn, A, B, One
<1>7. CASE words[f] \notin K
  <2>1. B = C
    BY <1>7
  <2>. HIDE DEF A, B, C
  <2>2. Cardinality(B) = Cardinality(A) - One(fr[f] \in K) + 0
    BY <1>2, <1>3, <1>4, <2>1 DEF One
  <2>. QED
    BY <1>7, <2>2 DEF RowsIn, A, B, One
<1>. QED
  BY <1>6, <1>7

-----------------------------------------------------------------------------
(* Who owns a cell.                                                        *)

\* The links and jobs that hold x as what they settle, as what they are on, and as
\* what a finally keeps; w are the words of the reactions.
LinkD(x) == {link \in Link : link.k # "frame" /\ link.d = x}
LinkC(x) == {link \in Link : IsRecord(link) /\ link.c = x}
LinkS(x) == {link \in Link : link.k = "wait" /\ link.s = x}
JobD(x) == {job \in JobSet : job.k # "resume" /\ job.d = x}
JobC(x, w) == {job \in JobSet : \/ job.k = "react" /\ w[job.d].src = x
                                \/ job.k \notin {"react", "resume"} /\ job.c = x}
JobS(x) == {job \in JobSet : job.k = "wait" /\ job.s = x}

\* The frame words that hold it.
Waits(x) == {row \in Row : row.at = "queued" /\ row.src = x}
Results(x) == {row \in Row : row.result = x}

\* The references of lists l, of the queue q, of frames fr and of the running code r.
Lists(x, l) == InLists(l, LinkD(x)) + InLists(l, LinkC(x)) + InLists(l, LinkS(x))
Jobs(x, q, w) == CountIn(q, JobD(x)) + CountIn(q, JobC(x, w)) + CountIn(q, JobS(x))
Calls(x, fr) == RowsIn(fr, Waits(x)) + RowsIn(fr, Results(x))
Running(x, r, w) == One(r.k \in {"handler", "next"} /\ r.d = x)
                    + One(r.k = "handler" /\ r.src = x)
                    + One(r.k = "next" /\ w[r.d].src = x)

\* Those, with the program's handles h and the rejection list t.
Owed(x, h, t, l, q, w, fr, r) ==
    One(x \in h) + One(x \in t) + Lists(x, l) + Jobs(x, q, w) + Calls(x, fr)
    + Running(x, r, w)

\* The references of one link, one job, one frame's words and one list.
LinkW(x, e) == One(e \in LinkD(x)) + One(e \in LinkC(x)) + One(e \in LinkS(x))
JobW(x, e, w) == One(e \in JobD(x)) + One(e \in JobC(x, w)) + One(e \in JobS(x))
RowW(x, row) == One(row \in Waits(x)) + One(row \in Results(x))
ListW(x, s) == CountIn(s, LinkD(x)) + CountIn(s, LinkC(x)) + CountIn(s, LinkS(x))

\* A test counts for one or nothing.
LEMMA OneNat ==
  ASSUME NEW test
  PROVE  One(test) \in Nat
  BY DEF One

\* The parts of a count are natural numbers.
LEMMA OwedNat ==
  ASSUME NEW x, NEW h, NEW t, NEW l \in [Cell -> Seq(Link)], NEW q \in Seq(JobSet),
         NEW w, NEW fr, NEW r
  PROVE  /\ Lists(x, l) \in Nat /\ Jobs(x, q, w) \in Nat /\ Calls(x, fr) \in Nat
         /\ Running(x, r, w) \in Nat
         /\ Cell # {} => Owed(x, h, t, l, q, w, fr, r) \in Nat
<1>1. ASSUME NEW K
      PROVE  InLists(l, K) \in Nat
  <2>. DEFINE D == Cell
  <2>1. D \in SUBSET Cell
    OBVIOUS
  <2>. HIDE DEF D
  <2>2. IsFiniteSet(UNION {EntriesOf(l, p, K) : p \in D})
    BY <2>1, UnionFinite
  <2>3. Cardinality(UNION {EntriesOf(l, p, K) : p \in D}) \in Nat
    BY <2>2, FS_CardinalityType
  <2>. QED
    BY <2>3 DEF InLists, D
<1>2. Lists(x, l) \in Nat
  BY <1>1 DEF Lists
<1>3. Jobs(x, q, w) \in Nat
  <2>1. \A K : CountIn(q, K) \in Nat
    BY CountNat
  <2>. QED
    BY <2>1 DEF Jobs
<1>4. Calls(x, fr) \in Nat
  <2>1. RowsIn(fr, Waits(x)) \in Nat
    BY RowsNat
  <2>2. RowsIn(fr, Results(x)) \in Nat
    BY RowsNat
  <2>. QED
    BY <2>1, <2>2 DEF Calls
<1>5. Running(x, r, w) \in Nat
  BY DEF Running, One
<1>6. One(x \in h) \in Nat /\ One(x \in t) \in Nat
  BY OneNat
<1>. QED
  BY <1>2, <1>3, <1>4, <1>5, <1>6 DEF Owed

\* The lists m are the lists l with a link more at the head of that of c.
PushedOn(l, m, c, link) == SameBut(l, m, c) /\ m[c] = <<link>> \o l[c]

\* A list grows by a link.
LEMMA ListsGrow ==
  ASSUME NEW x, NEW l, NEW m, NEW c, NEW link \in Link, PushedOn(l, m, c, link)
  PROVE  Lists(x, m) = Lists(x, l) + LinkW(x, link)
<1>0. SameBut(l, m, c) /\ l \in [Cell -> Seq(Link)] /\ l[c] \in Seq(Link)
  BY DEF PushedOn, SameBut
<1>1. ASSUME NEW K
      PROVE  /\ InLists(m, K) = InLists(l, K) + One(link \in K)
             /\ InLists(l, K) \in Nat /\ One(link \in K) \in Nat
  <2>. DEFINE own == l[c]
  <2>0. own \in Seq(Link) /\ m[c] = <<link>> \o own
    BY <1>0 DEF PushedOn
  <2>. HIDE DEF own
  <2>1. CountIn(<<link>> \o own, K) = CountIn(own, K) + One(link \in K)
    BY <2>0, CountGrows
  <2>2. InLists(m, K) = InLists(l, K) - CountIn(l[c], K) + CountIn(m[c], K)
    BY <1>0, ListsAt
  <2>3. CountIn(own, K) \in Nat
    BY <2>0, CountNat
  <2>4. InLists(l, K) \in Nat
    BY <1>0, ListsSplit DEF SameBut
  <2>5. One(link \in K) \in Nat
    BY OneNat
  <2>6. InLists(m, K) = InLists(l, K) - CountIn(own, K) + CountIn(own, K) + One(link \in K)
    BY <2>0, <2>1, <2>2, <2>3, <2>4, <2>5 DEF own
  <2>. QED
    BY <2>3, <2>4, <2>5, <2>6
<1>. DEFINE a == LinkD(x)
            b == LinkC(x)
            k == LinkS(x)
<1>. HIDE DEF a, b, k
<1>2. /\ InLists(m, a) = InLists(l, a) + One(link \in a)
      /\ InLists(l, a) \in Nat /\ One(link \in a) \in Nat
  BY <1>1
<1>3. /\ InLists(m, b) = InLists(l, b) + One(link \in b)
      /\ InLists(l, b) \in Nat /\ One(link \in b) \in Nat
  BY <1>1
<1>4. /\ InLists(m, k) = InLists(l, k) + One(link \in k)
      /\ InLists(l, k) \in Nat /\ One(link \in k) \in Nat
  BY <1>1
<1>5. InLists(m, a) + InLists(m, b) + InLists(m, k)
        = InLists(l, a) + InLists(l, b) + InLists(l, k)
          + (One(link \in a) + One(link \in b) + One(link \in k))
  BY <1>2, <1>3, <1>4
<1>. QED
  BY <1>5 DEF Lists, LinkW, a, b, k

\* The lists m are the lists l with that of c emptied.
Emptied(l, m, c) == SameBut(l, m, c) /\ m[c] = <<>>

\* A list is emptied: what its entries held goes.
LEMMA ListsLose ==
  ASSUME NEW x, NEW l, NEW m, NEW c, Emptied(l, m, c)
  PROVE  Lists(x, m) = Lists(x, l) - ListW(x, l[c]) /\ ListW(x, l[c]) \in Nat
<1>0. SameBut(l, m, c) /\ l \in [Cell -> Seq(Link)] /\ l[c] \in Seq(Link) /\ m[c] = <<>>
  BY DEF Emptied, SameBut
<1>1. ASSUME NEW K
      PROVE  /\ InLists(m, K) = InLists(l, K) - CountIn(l[c], K)
             /\ CountIn(l[c], K) \in Nat /\ InLists(l, K) \in Nat
  <2>1. InLists(m, K) = InLists(l, K) - CountIn(l[c], K) + CountIn(m[c], K)
    BY <1>0, ListsAt
  <2>2. CountIn(m[c], K) = 0
    BY <1>0, CountEmpty
  <2>3. CountIn(l[c], K) \in Nat
    BY <1>0, CountNat
  <2>4. InLists(l, K) \in Nat
    BY <1>0, ListsSplit DEF SameBut
  <2>. QED
    BY <2>1, <2>2, <2>3, <2>4
<1>. DEFINE a == LinkD(x)
            b == LinkC(x)
            k == LinkS(x)
            own == l[c]
<1>. HIDE DEF a, b, k
<1>2. /\ InLists(m, a) = InLists(l, a) - CountIn(own, a)
      /\ InLists(l, a) \in Nat /\ CountIn(own, a) \in Nat
  BY <1>1
<1>3. /\ InLists(m, b) = InLists(l, b) - CountIn(own, b)
      /\ InLists(l, b) \in Nat /\ CountIn(own, b) \in Nat
  BY <1>1
<1>4. /\ InLists(m, k) = InLists(l, k) - CountIn(own, k)
      /\ InLists(l, k) \in Nat /\ CountIn(own, k) \in Nat
  BY <1>1
<1>. DEFINE la == InLists(l, a)
            lb == InLists(l, b)
            lk == InLists(l, k)
            ca == CountIn(own, a)
            cb == CountIn(own, b)
            ck == CountIn(own, k)
            total == InLists(m, a) + InLists(m, b) + InLists(m, k)
<1>5. total = (la - ca) + (lb - cb) + (lk - ck)
  BY <1>2, <1>3, <1>4
<1>6. /\ la \in Nat /\ lb \in Nat /\ lk \in Nat
      /\ ca \in Nat /\ cb \in Nat /\ ck \in Nat
  BY <1>2, <1>3, <1>4
<1>. HIDE DEF la, lb, lk, ca, cb, ck, total
<1>7. total = (la + lb + lk) - (ca + cb + ck) /\ ca + cb + ck \in Nat
  BY <1>5, <1>6
<1>. QED
  BY <1>7 DEF Lists, ListW, a, b, k, own, la, lb, lk, ca, cb, ck, total

\* The queue grows by a job.
LEMMA JobsGrow ==
  ASSUME NEW x, NEW q \in Seq(JobSet), NEW w, NEW e \in JobSet
  PROVE  Jobs(x, Append(q, e), w) = Jobs(x, q, w) + JobW(x, e, w)
<1>1. ASSUME NEW K
      PROVE  /\ CountIn(Append(q, e), K) = CountIn(q, K) + One(e \in K)
             /\ CountIn(q, K) \in Nat /\ One(e \in K) \in Nat
  <2>1. CountIn(Append(q, e), K) = CountIn(q, K) + One(e \in K)
    BY CountGrows
  <2>2. CountIn(q, K) \in Nat
    BY CountNat
  <2>. QED
    BY <2>1, <2>2, OneNat
<1>. DEFINE a == JobD(x)
            b == JobC(x, w)
            c == JobS(x)
            all == Append(q, e)
<1>. HIDE DEF a, b, c, all
<1>2. CountIn(all, a) = CountIn(q, a) + One(e \in a) /\ CountIn(q, a) \in Nat /\ One(e \in a) \in Nat
  BY <1>1 DEF all
<1>3. CountIn(all, b) = CountIn(q, b) + One(e \in b) /\ CountIn(q, b) \in Nat /\ One(e \in b) \in Nat
  BY <1>1 DEF all
<1>4. CountIn(all, c) = CountIn(q, c) + One(e \in c) /\ CountIn(q, c) \in Nat /\ One(e \in c) \in Nat
  BY <1>1 DEF all
<1>5. CountIn(all, a) + CountIn(all, b) + CountIn(all, c)
        = CountIn(q, a) + CountIn(q, b) + CountIn(q, c)
          + (One(e \in a) + One(e \in b) + One(e \in c))
  BY <1>2, <1>3, <1>4
<1>. QED
  BY <1>5 DEF Jobs, JobW, a, b, c, all

\* And loses its head.
LEMMA JobsLose ==
  ASSUME NEW x, NEW q \in Seq(JobSet), q # <<>>, NEW w
  PROVE  Jobs(x, q, w) = Jobs(x, Tail(q), w) + JobW(x, Head(q), w)
<1>1. Tail(q) \in Seq(JobSet)
  BY TailAt
<1>. DEFINE rest == Tail(q)
            e == Head(q)
<1>2. ASSUME NEW K
      PROVE  /\ CountIn(q, K) = CountIn(rest, K) + One(e \in K)
             /\ CountIn(rest, K) \in Nat /\ One(e \in K) \in Nat
  <2>1. CountIn(q, K) = CountIn(rest, K) + One(e \in K)
    BY CountTail
  <2>2. CountIn(rest, K) \in Nat
    BY <1>1, CountNat
  <2>. QED
    BY <2>1, <2>2, OneNat
<1>. DEFINE a == JobD(x)
            b == JobC(x, w)
            c == JobS(x)
<1>. HIDE DEF a, b, c, rest, e
<1>3. CountIn(q, a) = CountIn(rest, a) + One(e \in a) /\ CountIn(rest, a) \in Nat /\ One(e \in a) \in Nat
  BY <1>2
<1>4. CountIn(q, b) = CountIn(rest, b) + One(e \in b) /\ CountIn(rest, b) \in Nat /\ One(e \in b) \in Nat
  BY <1>2
<1>5. CountIn(q, c) = CountIn(rest, c) + One(e \in c) /\ CountIn(rest, c) \in Nat /\ One(e \in c) \in Nat
  BY <1>2
<1>6. CountIn(q, a) + CountIn(q, b) + CountIn(q, c)
        = CountIn(rest, a) + CountIn(rest, b) + CountIn(rest, c)
          + (One(e \in a) + One(e \in b) + One(e \in c))
  BY <1>3, <1>4, <1>5
<1>. QED
  BY <1>6 DEF Jobs, JobW, a, b, c, rest, e

\* The words of reactions that have no job are not in its count.
LEMMA JobsWords ==
  ASSUME NEW x, NEW q \in Seq(JobSet), NEW w, NEW v,
         \A d \in Cell : Has(q, ReactJob(d)) => v[d].src = w[d].src
  PROVE  Jobs(x, q, v) = Jobs(x, q, w)
<1>1. ASSUME NEW i \in DOMAIN q
      PROVE  q[i] \in JobC(x, v) <=> q[i] \in JobC(x, w)
  <2>1. q[i] \in JobSet
    OBVIOUS
  <2>2. q[i].k = "react" => v[q[i].d].src = w[q[i].d].src
    BY <2>1, JobKinds DEF Has
  <2>. QED
    BY <2>2 DEF JobC
<1>2. CountIn(q, JobC(x, v)) = CountIn(q, JobC(x, w))
  BY <1>1, CountSame
<1>. QED
  BY <1>2 DEF Jobs

\* Words that differ from those of fr in frame f at most.
RowsBut(fr, words, f) ==
  /\ fr \in [Frame -> Row] /\ words \in [Frame -> Row] /\ f \in Frame
  /\ \A g \in Frame \ {f} : words[g] = fr[g]

\* One frame's words change: what the frame held goes, what it holds comes.
LEMMA CallsAt ==
  ASSUME NEW x, NEW fr, NEW words, NEW f, RowsBut(fr, words, f)
  PROVE  Calls(x, words) = Calls(x, fr) - RowW(x, fr[f]) + RowW(x, words[f])
<1>0. /\ fr \in [Frame -> Row] /\ words \in [Frame -> Row] /\ f \in Frame
      /\ \A g \in Frame \ {f} : words[g] = fr[g]
  BY DEF RowsBut
<1>1. ASSUME NEW K
      PROVE  /\ RowsIn(words, K) = RowsIn(fr, K) - One(fr[f] \in K) + One(words[f] \in K)
             /\ RowsIn(fr, K) \in Nat
             /\ One(fr[f] \in K) \in Nat /\ One(words[f] \in K) \in Nat
  <2>1. RowsIn(words, K) = RowsIn(fr, K) - One(fr[f] \in K) + One(words[f] \in K)
    BY <1>0, RowsAt
  <2>2. RowsIn(fr, K) \in Nat
    BY <1>0, RowsNat
  <2>. QED
    BY <2>1, <2>2, OneNat
<1>. QED
  BY <1>1 DEF Calls, RowW

\* What each link, job and frame holds.
LEMMA InlineW ==
  ASSUME NEW x, NEW d \in Cell, NEW w
  PROVE  /\ LinkW(x, Inline(d)) = One(d = x)
         /\ JobW(x, ReactJob(d), w) = One(d = x) + One(w[d].src = x)
<1>1. Inline(d) \in Link /\ ReactJob(d) \in JobSet
  BY MadeOK
<1>2. /\ Inline(d) \in LinkD(x) <=> d = x
      /\ Inline(d) \notin LinkC(x) /\ Inline(d) \notin LinkS(x)
  BY <1>1 DEF LinkD, LinkC, LinkS, Inline, IsRecord
<1>3. /\ ReactJob(d) \in JobD(x) <=> d = x
      /\ ReactJob(d) \in JobC(x, w) <=> w[d].src = x
      /\ ReactJob(d) \notin JobS(x)
  BY <1>1 DEF JobD, JobC, JobS, ReactJob
<1>. QED
  BY <1>2, <1>3 DEF LinkW, JobW, One

\* A frame's link and job hold nothing themselves.
LEMMA FrameW ==
  ASSUME NEW x, NEW f \in Frame, NEW w
  PROVE  LinkW(x, Parked(f)) = 0 /\ JobW(x, ResumeJob(f), w) = 0
<1>1. Parked(f) \notin LinkD(x) /\ Parked(f) \notin LinkC(x) /\ Parked(f) \notin LinkS(x)
  BY DEF LinkD, LinkC, LinkS, Parked, IsRecord
<1>2. ResumeJob(f) \notin JobD(x) /\ ResumeJob(f) \notin JobC(x, w) /\ ResumeJob(f) \notin JobS(x)
  BY DEF JobD, JobC, JobS, ResumeJob
<1>. QED
  BY <1>1, <1>2 DEF LinkW, JobW, One

\* A record holds what it is on and what it settles.
LEMMA RecordW ==
  ASSUME NEW x, NEW kind \in {"adopt", "both", "finally"}, NEW c \in Cell, NEW d \in Cell, NEW w
  PROVE  /\ LinkW(x, Record(kind, c, d)) = One(c = x) + One(d = x)
         /\ JobW(x, Record(kind, c, d), w) = One(c = x) + One(d = x)
         /\ JobW(x, AttachJob(c, d), w) = One(c = x) + One(d = x)
<1>1. /\ Record(kind, c, d) \in Link /\ Record(kind, c, d) \in JobSet
      /\ AttachJob(c, d) \in JobSet
  BY MadeOK
<1>2. /\ Record(kind, c, d) \in LinkD(x) <=> d = x
      /\ Record(kind, c, d) \in LinkC(x) <=> c = x
      /\ Record(kind, c, d) \notin LinkS(x)
  BY <1>1 DEF LinkD, LinkC, LinkS, Record, IsRecord
<1>3. /\ Record(kind, c, d) \in JobD(x) <=> d = x
      /\ Record(kind, c, d) \in JobC(x, w) <=> c = x
      /\ Record(kind, c, d) \notin JobS(x)
  BY <1>1 DEF JobD, JobC, JobS, Record
<1>4. /\ AttachJob(c, d) \in JobD(x) <=> d = x
      /\ AttachJob(c, d) \in JobC(x, w) <=> c = x
      /\ AttachJob(c, d) \notin JobS(x)
  BY <1>1 DEF JobD, JobC, JobS, AttachJob
<1>. QED
  BY <1>2, <1>3, <1>4 DEF LinkW, JobW, One

\* The record of a finally holds the source besides.
LEMMA WaitW ==
  ASSUME NEW x, NEW c \in Cell, NEW d \in Cell, NEW s \in Cell, NEW w
  PROVE  /\ LinkW(x, WaitRecord(c, d, s)) = One(c = x) + One(d = x) + One(s = x)
         /\ JobW(x, WaitRecord(c, d, s), w) = One(c = x) + One(d = x) + One(s = x)
<1>1. WaitRecord(c, d, s) \in Link /\ WaitRecord(c, d, s) \in JobSet
  BY MadeOK
<1>2. /\ WaitRecord(c, d, s) \in LinkD(x) <=> d = x
      /\ WaitRecord(c, d, s) \in LinkC(x) <=> c = x
      /\ WaitRecord(c, d, s) \in LinkS(x) <=> s = x
  BY <1>1 DEF LinkD, LinkC, LinkS, WaitRecord, IsRecord
<1>3. /\ WaitRecord(c, d, s) \in JobD(x) <=> d = x
      /\ WaitRecord(c, d, s) \in JobC(x, w) <=> c = x
      /\ WaitRecord(c, d, s) \in JobS(x) <=> s = x
  BY <1>1 DEF JobD, JobC, JobS, WaitRecord
<1>. QED
  BY <1>2, <1>3 DEF LinkW, JobW, One

\* A frame holds its result, and what it awaits once that has settled.
LEMMA RowIs ==
  ASSUME NEW x, NEW row \in Row
  PROVE  RowW(x, row) = One(row.at = "queued" /\ row.src = x) + One(row.result = x)
  BY DEF RowW, Waits, Results, One

-----------------------------------------------------------------------------
(* References taken and given up.                                          *)

\* How often c is in a sequence of cells.
LEMMA TimesCount ==
  ASSUME NEW x, NEW s \in Seq(Cell)
  PROVE  Times(x, s) = CountIn(s, {x}) /\ Times(x, s) \in Nat
<1>1. {i \in DOMAIN s : s[i] = x} = {i \in DOMAIN s : s[i] \in {x}}
  OBVIOUS
<1>2. Times(x, s) = CountIn(s, {x})
  BY <1>1 DEF Times, CountIn
<1>. QED
  BY <1>2, CountNat, ZenonT(40)

\* In two, one behind the other.
LEMMA TimesConcat ==
  ASSUME NEW x, NEW s \in Seq(Cell), NEW t \in Seq(Cell)
  PROVE  s \o t \in Seq(Cell) /\ Times(x, s \o t) = Times(x, s) + Times(x, t)
<1>1. s \o t \in Seq(Cell)
  BY ConcatAt
<1>. DEFINE K == {x}
            all == s \o t
<1>2. Times(x, s) = CountIn(s, K) /\ Times(x, t) = CountIn(t, K)
  BY TimesCount
<1>3. Times(x, all) = CountIn(all, K)
  BY <1>1, TimesCount
<1>. HIDE DEF K
<1>4. CountIn(all, K) = CountIn(s, K) + CountIn(t, K)
  BY CountConcat
<1>. QED
  BY <1>1, <1>2, <1>3, <1>4

\* In a sequence of none, one, two and three.
LEMMA TimesNone ==
  ASSUME NEW x
  PROVE  <<>> \in Seq(Cell) /\ Times(x, <<>>) = 0
<1>1. <<>> \in Seq(Cell)
  OBVIOUS
<1>. QED
  BY <1>1, TimesCount, CountEmpty

\* Of one.
LEMMA TimesOne ==
  ASSUME NEW x, NEW a \in Cell
  PROVE  <<a>> \in Seq(Cell) /\ Times(x, <<a>>) = One(a = x)
<1>1. <<a>> \in Seq(Cell)
  OBVIOUS
<1>2. Times(x, <<a>>) = CountIn(<<a>>, {x})
  BY <1>1, TimesCount
<1>3. CountIn(<<a>>, {x}) = One(a \in {x})
  BY CountOne
<1>. QED
  BY <1>1, <1>2, <1>3 DEF One

\* Of two.
LEMMA TimesTwo ==
  ASSUME NEW x, NEW a \in Cell, NEW b \in Cell
  PROVE  <<a, b>> \in Seq(Cell) /\ Times(x, <<a, b>>) = One(a = x) + One(b = x)
<1>1. <<a>> \in Seq(Cell) /\ <<b>> \in Seq(Cell) /\ <<a, b>> \in Seq(Cell)
  OBVIOUS
<1>2. <<a, b>> = <<a>> \o <<b>>
  <2>1. Len(<<a>> \o <<b>>) = 2 /\ Len(<<a, b>>) = 2
    BY <1>1
  <2>2. (<<a>> \o <<b>>)[1] = a /\ (<<a>> \o <<b>>)[2] = b
    BY <1>1
  <2>3. <<a>> \o <<b>> \in Seq(Cell)
    BY <1>1
  <2>4. \A i \in 1 .. 2 : i = 1 \/ i = 2
    OBVIOUS
  <2>5. \A i \in 1 .. Len(<<a, b>>) : <<a, b>>[i] = (<<a>> \o <<b>>)[i]
    BY <2>1, <2>2, <2>4
  <2>. QED
    BY <1>1, <2>1, <2>3, <2>5, SeqEqual
<1>. DEFINE s == <<a>>
            t == <<b>>
<1>3. /\ s \in Seq(Cell) /\ Times(x, s) = One(a = x)
      /\ t \in Seq(Cell) /\ Times(x, t) = One(b = x)
  BY TimesOne
<1>4. <<a, b>> = s \o t
  BY <1>2
<1>. HIDE DEF s, t
<1>5. Times(x, s \o t) = Times(x, s) + Times(x, t)
  BY <1>3, TimesConcat
<1>6. Times(x, s \o t) = One(a = x) + One(b = x)
  BY <1>3, <1>5
<1>. QED
  BY <1>1, <1>4, <1>6

\* Of three.
LEMMA TimesThree ==
  ASSUME NEW x, NEW a \in Cell, NEW b \in Cell, NEW c \in Cell
  PROVE  /\ <<a, b, c>> \in Seq(Cell)
         /\ Times(x, <<a, b, c>>) = One(a = x) + One(b = x) + One(c = x)
<1>1. <<a, b>> \in Seq(Cell) /\ <<c>> \in Seq(Cell) /\ <<a, b, c>> \in Seq(Cell)
  OBVIOUS
<1>2. <<a, b, c>> = <<a, b>> \o <<c>>
  <2>1. Len(<<a, b>> \o <<c>>) = 3 /\ Len(<<a, b, c>>) = 3
    BY <1>1
  <2>2. /\ (<<a, b>> \o <<c>>)[1] = a /\ (<<a, b>> \o <<c>>)[2] = b
        /\ (<<a, b>> \o <<c>>)[3] = c
    BY <1>1
  <2>3. <<a, b>> \o <<c>> \in Seq(Cell)
    BY <1>1
  <2>4. \A i \in 1 .. 3 : i = 1 \/ i = 2 \/ i = 3
    OBVIOUS
  <2>5. \A i \in 1 .. Len(<<a, b, c>>) : <<a, b, c>>[i] = (<<a, b>> \o <<c>>)[i]
    BY <2>1, <2>2, <2>4
  <2>. QED
    BY <1>1, <2>1, <2>3, <2>5, SeqEqual
<1>3. Times(x, <<a, b>> \o <<c>>) = Times(x, <<a, b>>) + Times(x, <<c>>)
  BY <1>1, TimesConcat
<1>4. Times(x, <<a, b>>) = One(a = x) + One(b = x)
  BY TimesTwo
<1>5. Times(x, <<c>>) = One(c = x)
  BY TimesOne
<1>. QED
  BY <1>1, <1>2, <1>3, <1>4, <1>5

\* The same reference n times.
LEMMA TimesSame ==
  ASSUME NEW x, NEW c \in Cell, NEW n \in Nat, NEW s, s = [i \in 1 .. n |-> c]
  PROVE  s \in Seq(Cell) /\ Times(x, s) = IF x = c THEN n ELSE 0
<1>1. s \in Seq(Cell) /\ DOMAIN s = 1 .. n /\ \A i \in 1 .. n : s[i] = c
  OBVIOUS
<1>2. CASE x = c
  <2>1. {i \in DOMAIN s : s[i] = x} = 1 .. n
    BY <1>1, <1>2
  <2>2. Cardinality(1 .. n) = n
    BY FS_Interval
  <2>. QED
    BY <1>1, <1>2, <2>1, <2>2 DEF Times
<1>3. CASE x # c
  <2>1. {i \in DOMAIN s : s[i] = x} = {}
    BY <1>1, <1>3
  <2>. QED
    BY <1>1, <1>3, <2>1, FS_EmptySet DEF Times
<1>. QED
  BY <1>2, <1>3

\* A set of cells given up, each once.
LEMMA TimesSet ==
  ASSUME NEW x, NEW S \in SUBSET Cell
  PROVE  AsSeq(S) \in Seq(Cell) /\ Times(x, AsSeq(S)) = One(x \in S)
<1>. DEFINE n == Cardinality(S)
            s == AsSeq(S)
<1>1. IsFiniteSet(S) /\ n \in Nat /\ ExistsBijection(1 .. n, S)
  BY CellAssumption, FS_Subset, FS_CardinalityType
<1>2. PICK g \in [1 .. n -> S] : \A i, j \in 1 .. n : g[i] = g[j] => i = j
  <2>1. PICK g : g \in Bijection(1 .. n, S)
    BY <1>1 DEF ExistsBijection
  <2>2. g \in Injection(1 .. n, S)
    BY <2>1 DEF Bijection
  <2>3. g \in [1 .. n -> S] /\ IsInjective(g)
    BY <2>2 DEF Injection
  <2>. QED
    BY <2>3 DEF IsInjective
<1>3. s \in [1 .. n -> S] /\ \A i, j \in DOMAIN s : s[i] = s[j] => i = j
  <2>1. \E t \in [1 .. n -> S] : \A i, j \in DOMAIN t : t[i] = t[j] => i = j
    BY <1>2
  <2>. QED
    BY <2>1 DEF AsSeq
<1>. HIDE DEF s, n
<1>4. DOMAIN s = 1 .. n /\ s \in Seq(Cell)
  BY <1>1, <1>3
<1>5. s \in Injection(1 .. n, S)
  BY <1>3 DEF Injection, IsInjective
<1>6. Cardinality(1 .. n) = n
  BY <1>1, FS_Interval
<1>7. s \in Surjection(1 .. n, S)
  BY <1>1, <1>5, <1>6, FS_Injection DEF n
<1>8. \A a \in S : \E i \in 1 .. n : s[i] = a
  BY <1>7 DEF Surjection
<1>9. CASE x \in S
  <2>1. PICK i \in 1 .. n : s[i] = x
    BY <1>8, <1>9
  <2>2. {j \in DOMAIN s : s[j] = x} = {i}
    BY <1>3, <1>4, <2>1
  <2>. QED
    BY <1>4, <1>9, <2>2, FS_Singleton DEF Times, One, s
<1>10. CASE x \notin S
  <2>1. {j \in DOMAIN s : s[j] = x} = {}
    BY <1>3, <1>4, <1>10
  <2>. QED
    BY <1>4, <1>10, <2>1, FS_EmptySet DEF Times, One, s
<1>. QED
  BY <1>9, <1>10

-----------------------------------------------------------------------------
(* What a settlement hands over.                                           *)

Inlines == {link \in Link : link.k = "inline"}
Parkeds == {link \in Link : link.k = "frame"}

\* drain_callbacks takes a reference on the source for each of them.
LEMMA StakesOfDrain ==
  ASSUME Types, NEW c \in Cell, NEW x
  PROVE  /\ DrainStakes(c) \in Seq(Cell)
         /\ CountIn(list[c], Inlines) \in Nat /\ CountIn(list[c], Parkeds) \in Nat
         /\ Times(x, DrainStakes(c))
              = IF x = c THEN CountIn(list[c], Inlines) + CountIn(list[c], Parkeds) ELSE 0
<1>. DEFINE M == {link \in Link : ~IsRecord(link)}
            n == Cardinality({i \in DOMAIN list[c] : ~IsRecord(list[c][i])})
<1>1. list[c] \in Seq(Link) /\ \A i \in DOMAIN list[c] : list[c][i] \in Link
  BY DEF Types
<1>2. {i \in DOMAIN list[c] : ~IsRecord(list[c][i])} = {i \in DOMAIN list[c] : list[c][i] \in M}
  BY <1>1
<1>3. n = CountIn(list[c], M)
  BY <1>2 DEF CountIn
<1>4. ASSUME NEW i \in DOMAIN list[c]
      PROVE  /\ list[c][i] \in M <=> list[c][i] \in Inlines \/ list[c][i] \in Parkeds
             /\ ~(list[c][i] \in Inlines /\ list[c][i] \in Parkeds)
  BY <1>1 DEF Inlines, Parkeds, IsRecord
<1>. HIDE DEF M, n
<1>5. CountIn(list[c], M) = CountIn(list[c], Inlines) + CountIn(list[c], Parkeds)
  BY <1>1, <1>4, CountUnion
<1>6. /\ CountIn(list[c], Inlines) \in Nat /\ CountIn(list[c], Parkeds) \in Nat
      /\ CountIn(list[c], M) \in Nat
  BY <1>1, CountNat
<1>7. DrainStakes(c) = [i \in 1 .. n |-> c]
  BY DEF DrainStakes, n
<1>9. n \in Nat
  BY <1>3, <1>6
<1>8. DrainStakes(c) \in Seq(Cell) /\ Times(x, DrainStakes(c)) = IF x = c THEN n ELSE 0
  BY <1>7, <1>9, TimesSame
<1>. QED
  BY <1>3, <1>5, <1>6, <1>7, <1>8

\* The job of a link holds what the link held, and the source of a reaction besides.
LEMMA JobOfLinkHolds ==
  ASSUME NEW link \in Link, NEW x, NEW w
  PROVE  /\ JobOf(link) \in JobD(x) <=> link \in LinkD(x)
         /\ JobOf(link) \in JobS(x) <=> link \in LinkS(x)
         /\ JobOf(link) \in JobC(x, w)
              <=> link \in LinkC(x) \/ (link \in Inlines /\ w[link.d].src = x)
<1>1. CASE \E d \in Cell : link = Inline(d)
  <2>1. PICK d \in Cell : link = Inline(d)
    BY <1>1
  <2>2. JobOf(link) = ReactJob(d) /\ ReactJob(d) \in JobSet
    BY <2>1, JobOfLink, MadeOK
  <2>. QED
    BY <2>1, <2>2 DEF JobD, JobS, JobC, LinkD, LinkS, LinkC, Inlines, ReactJob, Inline, IsRecord
<1>2. CASE \E f \in Frame : link = Parked(f)
  <2>1. PICK f \in Frame : link = Parked(f)
    BY <1>2
  <2>2. JobOf(link) = ResumeJob(f) /\ ResumeJob(f) \in JobSet
    BY <2>1, JobOfLink, MadeOK
  <2>. QED
    BY <2>1, <2>2 DEF JobD, JobS, JobC, LinkD, LinkS, LinkC, Inlines, ResumeJob, Parked, IsRecord
<1>3. CASE link \in Records
  <2>1. link.k \in {"adopt", "both", "finally", "wait"} /\ link \in JobSet
    BY <1>3, MadeOK DEF Records, Record, WaitRecord
  <2>2. JobOf(link) = link /\ IsRecord(link)
    BY <2>1 DEF JobOf, IsRecord
  <2>. QED
    BY <2>1, <2>2 DEF JobD, JobS, JobC, LinkD, LinkS, LinkC, Inlines
<1>. QED
  BY <1>1, <1>2, <1>3 DEF Link

\* The jobs of a drained list.
LEMMA DrainHolds ==
  ASSUME Types, NEW c \in Cell, NEW x, NEW w,
         \A d \in Cell : Has(list[c], Inline(d)) => w[d].src = c
  PROVE  CountIn(DrainJobs(c), JobD(x)) + CountIn(DrainJobs(c), JobC(x, w))
           + CountIn(DrainJobs(c), JobS(x))
         = ListW(x, list[c]) + IF x = c THEN CountIn(list[c], Inlines) ELSE 0
<1>. DEFINE jobs == DrainJobs(c)
            links == list[c]
            n == Len(list[c])
            I == {link \in Link : link \in Inlines /\ w[link.d].src = x}
            M == {link \in Link : link \in LinkC(x) \/ link \in I}
<1>1. /\ jobs \in Seq(JobSet) /\ links \in Seq(Link) /\ Len(jobs) = Len(links)
      /\ \A i \in DOMAIN links : links[i] \in Link
      /\ \A i \in 1 .. Len(links) : /\ jobs[i] = JobOf(links[Len(links) + 1 - i])
                                    /\ links[Len(links) + 1 - i] \in Link
  <2>1. links \in Seq(Link)
    BY DEF Types
  <2>. QED
    BY <2>1, DrainAt
<1>. HIDE DEF jobs, links, n
<1>2. CountIn(jobs, JobD(x)) = CountIn(links, LinkD(x))
  <2>1. ASSUME NEW i \in 1 .. Len(links)
        PROVE  jobs[i] \in JobD(x) <=> links[Len(links) + 1 - i] \in LinkD(x)
    <3>. DEFINE e == links[Len(links) + 1 - i]
    <3>1. e \in Link /\ jobs[i] = JobOf(e)
      BY <1>1
    <3>. HIDE DEF e
    <3>2. jobs[i] \in JobD(x) <=> e \in LinkD(x)
      BY <3>1, JobOfLinkHolds
    <3>. QED
      BY <3>2 DEF e
  <2>2. Opposite(links, jobs, LinkD(x), JobD(x))
    BY <1>1, <2>1 DEF Opposite
  <2>. QED
    BY <1>1, <2>2, CountReversed
<1>3. CountIn(jobs, JobS(x)) = CountIn(links, LinkS(x))
  <2>1. ASSUME NEW i \in 1 .. Len(links)
        PROVE  jobs[i] \in JobS(x) <=> links[Len(links) + 1 - i] \in LinkS(x)
    <3>. DEFINE e == links[Len(links) + 1 - i]
    <3>1. e \in Link /\ jobs[i] = JobOf(e)
      BY <1>1
    <3>. HIDE DEF e
    <3>2. jobs[i] \in JobS(x) <=> e \in LinkS(x)
      BY <3>1, JobOfLinkHolds
    <3>. QED
      BY <3>2 DEF e
  <2>2. Opposite(links, jobs, LinkS(x), JobS(x))
    BY <1>1, <2>1 DEF Opposite
  <2>. QED
    BY <1>1, <2>2, CountReversed
<1>4. CountIn(jobs, JobC(x, w)) = CountIn(links, M)
  <2>1. ASSUME NEW i \in 1 .. Len(links)
        PROVE  jobs[i] \in JobC(x, w) <=> links[Len(links) + 1 - i] \in M
    <3>. DEFINE e == links[Len(links) + 1 - i]
    <3>1. e \in Link /\ jobs[i] = JobOf(e)
      BY <1>1
    <3>. HIDE DEF e
    <3>2. jobs[i] \in JobC(x, w) <=> e \in M
      BY <3>1, JobOfLinkHolds
    <3>. QED
      BY <3>2 DEF e
  <2>. DEFINE K == M
              J == JobC(x, w)
  <2>2. \A i \in 1 .. Len(links) : jobs[i] \in J <=> links[Len(links) + 1 - i] \in K
    BY <2>1
  <2>4. Opposite(links, jobs, K, J)
    BY <1>1, <2>2 DEF Opposite
  <2>. HIDE DEF K, J
  <2>3. CountIn(jobs, J) = CountIn(links, K)
    BY <1>1, <2>4, CountReversed
  <2>. QED
    BY <2>3 DEF K, J
<1>5. CountIn(links, M) = CountIn(links, LinkC(x)) + CountIn(links, I)
  <2>1. ASSUME NEW i \in DOMAIN links
        PROVE  /\ links[i] \in M <=> links[i] \in LinkC(x) \/ links[i] \in I
               /\ ~(links[i] \in LinkC(x) /\ links[i] \in I)
    BY <1>1 DEF LinkC, Inlines, IsRecord
  <2>. HIDE DEF M, I
  <2>. QED
    BY <1>1, <2>1, CountUnion
<1>6. CountIn(links, I) = IF x = c THEN CountIn(links, Inlines) ELSE 0
  <2>1. ASSUME NEW i \in DOMAIN links
        PROVE  links[i] \in I <=> links[i] \in Inlines /\ x = c
    <3>1. links[i] \in Inlines => w[links[i].d].src = c
      <4>1. links[i] \in Inlines => links[i].d \in Cell /\ links[i] = Inline(links[i].d)
        BY <1>1, LinkKinds DEF Inlines
      <4>. QED
        BY <4>1 DEF Has, links
    <3>. QED
      BY <1>1, <3>1
  <2>. HIDE DEF I
  <2>2. CASE x = c
    BY <2>1, <2>2, CountSame
  <2>3. CASE x # c
    BY <1>1, <2>1, <2>3, CountNat
  <2>. QED
    BY <2>2, <2>3
<1>. HIDE DEF M, I
<1>7. /\ CountIn(links, LinkD(x)) \in Nat /\ CountIn(links, LinkC(x)) \in Nat
      /\ CountIn(links, LinkS(x)) \in Nat /\ CountIn(links, Inlines) \in Nat
  BY <1>1, CountNat
<1>. QED
  BY <1>2, <1>3, <1>4, <1>5, <1>6, <1>7 DEF ListW, jobs, links

\* The frames of the list, each an entry of it, hold its cell once they are woken.
LEMMA WokenCalls ==
  ASSUME Types, FramesPlaced, NEW c \in Cell, NEW x \in Cell
  PROVE  /\ Calls(x, Woken(c))
              = Calls(x, frames) + IF x = c THEN CountIn(list[c], Parkeds) ELSE 0
         /\ CountIn(list[c], Parkeds) \in Nat /\ Calls(x, frames) \in Nat
<1>. DEFINE P == {f \in Frame : Has(list[c], Parked(f))}
            I == {i \in DOMAIN list[c] : list[c][i] \in Parkeds}
            A == {f \in Frame : frames[f] \in Waits(x)}
            B == {f \in Frame : Woken(c)[f] \in Waits(x)}
            g == [i \in I |-> list[c][i].f]
<1>1. /\ list[c] \in Seq(Link) /\ frames \in [Frame -> Row]
      /\ \A i \in DOMAIN list[c] : list[c][i] \in Link
  BY DEF Types
<1>2. ASSUME NEW f \in Frame
      PROVE  /\ f \in P => /\ frames[f].at = "parked"
                           /\ Woken(c)[f].at = "queued" /\ Woken(c)[f].src = c
             /\ f \notin P => Woken(c)[f] = frames[f]
             /\ Woken(c)[f].result = frames[f].result
             /\ Woken(c)[f] \in Row /\ frames[f] \in Row
  <2>1. At(f, frames[f], list, queue, run) /\ frames[f] \in Row
    BY <1>1 DEF FramesPlaced
  <2>2. f \in P => frames[f].at = "parked"
    BY <2>1 DEF At
  <2>3. Woken(c)[f] = IF f \in P THEN [frames[f] EXCEPT !.at = "queued", !.src = c]
                                 ELSE frames[f]
    BY DEF Woken, Has
  <2>. HIDE DEF P
  <2>4. CASE f \in P
    BY <2>1, <2>2, <2>3, <2>4 DEF Row, Word
  <2>5. CASE f \notin P
    BY <2>1, <2>3, <2>5
  <2>. QED
    BY <2>4, <2>5
<1>3. ASSUME NEW i \in I
      PROVE  g[i] \in P /\ list[c][i] = Parked(g[i])
  <2>1. list[c][i].f \in Frame /\ list[c][i] = Parked(list[c][i].f)
    BY <1>1, LinkKinds DEF Parkeds
  <2>. QED
    BY <2>1 DEF Has
<1>4. ASSUME NEW f \in P
      PROVE  \E i \in I : g[i] = f
  <2>1. PICK i \in DOMAIN list[c] : list[c][i] = Parked(f)
    BY DEF Has
  <2>2. Parked(f) \in Parkeds /\ Parked(f).f = f
    BY MadeOK DEF Parkeds, Parked
  <2>. QED
    BY <2>1, <2>2
<1>5. ASSUME NEW i \in I, NEW j \in I, g[i] = g[j]
      PROVE  i = j
  <2>. DEFINE f == g[i]
  <2>1. f \in Frame /\ list[c][i] = Parked(f) /\ list[c][j] = Parked(f)
    BY <1>3, <1>5
  <2>2. Once(list[c], Parked(f))
    BY <2>1 DEF FramesPlaced, At
  <2>. QED
    BY <2>1, <2>2 DEF Once
<1>6. IsFiniteSet(I) /\ CountIn(list[c], Parkeds) = Cardinality(I)
      /\ CountIn(list[c], Parkeds) \in Nat
  BY <1>1, CountNat DEF CountIn
<1>7. IsFiniteSet(P) /\ Cardinality(P) = Cardinality(I)
  <2>1. g \in [I -> P]
    BY <1>3
  <2>2. \A i, j \in I : g[i] = g[j] => i = j
    BY <1>5
  <2>3. \A f \in P : \E i \in I : g[i] = f
    BY <1>4
  <2>. HIDE DEF g, I, P
  <2>. QED
    BY <1>6, <2>1, <2>2, <2>3, SameCount
<1>8. IsFiniteSet(A) /\ RowsIn(frames, Waits(x)) = Cardinality(A)
  BY RowsNat DEF RowsIn
<1>9. A \cap P = {}
  BY <1>2 DEF Waits
<1>. HIDE DEF P, I, g
<1>10. RowsIn(Woken(c), Waits(x))
         = RowsIn(frames, Waits(x)) + IF x = c THEN CountIn(list[c], Parkeds) ELSE 0
  <2>1. RowsIn(Woken(c), Waits(x)) = Cardinality(B)
    BY DEF RowsIn
  <2>2. CASE x = c
    <3>1. B = A \cup P
      <4>1. \A f \in Frame : f \in B <=> f \in A \/ f \in P
        BY <1>2, <2>2 DEF Waits
      <4>2. P \subseteq Frame
        BY DEF P
      <4>. QED
        BY <4>1, <4>2
    <3>. HIDE DEF A, B
    <3>2. Cardinality(A \cup P) = Cardinality(A) + Cardinality(P)
      BY <1>7, <1>8, <1>9, DisjointCount
    <3>. QED
      BY <1>6, <1>7, <1>8, <2>1, <2>2, <3>1, <3>2
  <2>3. CASE x # c
    <3>1. B = A
      <4>1. \A f \in Frame : f \in B <=> f \in A
        BY <1>2, <2>3 DEF Waits
      <4>. QED
        BY <4>1
    <3>2. RowsIn(frames, Waits(x)) \in Nat
      BY RowsNat
    <3>. QED
      BY <1>8, <2>1, <2>3, <3>1, <3>2
  <2>. QED
    BY <2>2, <2>3
<1>11. RowsIn(Woken(c), Results(x)) = RowsIn(frames, Results(x))
  <2>1. {f \in Frame : Woken(c)[f] \in Results(x)} = {f \in Frame : frames[f] \in Results(x)}
    BY <1>2 DEF Results
  <2>. QED
    BY <2>1 DEF RowsIn
<1>12. RowsIn(frames, Waits(x)) \in Nat /\ RowsIn(frames, Results(x)) \in Nat
  BY RowsNat
<1>. QED
  BY <1>6, <1>10, <1>11, <1>12 DEF Calls

\* Two queues, one behind the other.
LEMMA JobsConcat ==
  ASSUME NEW x, NEW q \in Seq(JobSet), NEW s \in Seq(JobSet), NEW w
  PROVE  Jobs(x, q \o s, w) = Jobs(x, q, w) + Jobs(x, s, w)
<1>1. ASSUME NEW K
      PROVE  /\ CountIn(q \o s, K) = CountIn(q, K) + CountIn(s, K)
             /\ CountIn(q, K) \in Nat /\ CountIn(s, K) \in Nat
  <2>1. CountIn(q \o s, K) = CountIn(q, K) + CountIn(s, K)
    BY CountConcat
  <2>2. CountIn(q, K) \in Nat /\ CountIn(s, K) \in Nat
    BY CountNat
  <2>. QED
    BY <2>1, <2>2
<1>. DEFINE a == JobD(x)
            b == JobC(x, w)
            c == JobS(x)
            all == q \o s
<1>. HIDE DEF a, b, c, all
<1>2. CountIn(all, a) = CountIn(q, a) + CountIn(s, a) /\ CountIn(q, a) \in Nat /\ CountIn(s, a) \in Nat
  BY <1>1 DEF all
<1>3. CountIn(all, b) = CountIn(q, b) + CountIn(s, b) /\ CountIn(q, b) \in Nat /\ CountIn(s, b) \in Nat
  BY <1>1 DEF all
<1>4. CountIn(all, c) = CountIn(q, c) + CountIn(s, c) /\ CountIn(q, c) \in Nat /\ CountIn(s, c) \in Nat
  BY <1>1 DEF all
<1>5. CountIn(all, a) + CountIn(all, b) + CountIn(all, c)
        = CountIn(q, a) + CountIn(q, b) + CountIn(q, c)
          + (CountIn(s, a) + CountIn(s, b) + CountIn(s, c))
  BY <1>2, <1>3, <1>4
<1>. QED
  BY <1>5 DEF Jobs, a, b, c, all

\* What is owed by the rejection list t, lists l, the queue q and frames fr.
Held(x, t, l, q, w, fr) == One(x \in t) + Lists(x, l) + Jobs(x, q, w) + Calls(x, fr)

\* The reactions in the list of c name it; w are the words.
Sourced(c, w) == \A d \in Cell : Has(list[c], Inline(d)) => w[d].src = c

\* A settlement gives up what it was told to, and takes what its jobs hold.
LEMMA SettleOwed ==
  ASSUME Types, FramesPlaced, NoneStranded, tracked \subseteq Cell,
         \A y \in tracked : st[y] = "rejected",
         NEW q \in Seq(JobSet), NEW c \in Cell, NEW o, NEW given \in Seq(Cell),
         Settle(q, c, o, <<>>, given), NEW w, Sourced(c, w)
  PROVE  \E tk, gv \in Seq(Cell) :
            /\ Stakes(tk, gv)
            /\ \A x \in Cell :
                  /\ Held(x, tracked', list', queue', w, Woken(c)) + Times(x, gv)
                       = Held(x, tracked, list, q, w, frames) + Times(x, tk) + Times(x, given)
                  /\ Times(x, tk) > 0 => x = c /\ st[c] = "pending"
<1>. USE DEF Sourced
<1>1. list \in [Cell -> Seq(Link)] /\ list[c] \in Seq(Link)
  BY DEF Types
<1>2. \A x : Times(x, <<>>) = 0 /\ <<>> \in Seq(Cell)
  BY TimesNone
<1>3. ASSUME NEW x \in Cell
      PROVE  /\ One(x \in tracked) \in Nat /\ Lists(x, list) \in Nat /\ Jobs(x, q, w) \in Nat
             /\ Calls(x, frames) \in Nat /\ Times(x, given) \in Nat
             /\ CountIn(list[c], Parkeds) \in Nat /\ CountIn(list[c], Inlines) \in Nat
             /\ Calls(x, Woken(c)) = Calls(x, frames)
                                     + IF x = c THEN CountIn(list[c], Parkeds) ELSE 0
  BY <1>1, OneNat, OwedNat, TimesCount, WokenCalls, StakesOfDrain
<1>4. CASE st[c] # "pending"
  <2>1. queue' = q /\ Stakes(<<>>, given) /\ list' = list /\ tracked' = tracked
    BY <1>4 DEF Settle
  <2>2. CountIn(list[c], Parkeds) = 0
    <3>1. list[c] = <<>>
      BY <1>4 DEF NoneStranded
    <3>. QED
      BY <3>1, CountEmpty
  <2>3. ASSUME NEW x \in Cell
        PROVE  /\ Held(x, tracked', list', queue', w, Woken(c)) + Times(x, given)
                    = Held(x, tracked, list, q, w, frames) + Times(x, <<>>) + Times(x, given)
               /\ ~(Times(x, <<>>) > 0)
    <3>1. Calls(x, Woken(c)) = Calls(x, frames)
      BY <1>3, <2>2
    <3>2. Held(x, tracked', list', queue', w, Woken(c)) = Held(x, tracked, list, q, w, frames)
      BY <2>1, <3>1 DEF Held
    <3>. DEFINE h == Held(x, tracked, list, q, w, frames)
                g == Times(x, given)
                a == One(x \in tracked)
                b == Lists(x, list)
                j == Jobs(x, q, w)
                f == Calls(x, frames)
    <3>4. a \in Nat /\ b \in Nat /\ j \in Nat /\ f \in Nat /\ g \in Nat
      BY <1>3
    <3>5. h = a + b + j + f
      BY DEF Held
    <3>6. Times(x, <<>>) = 0
      BY <1>2
    <3>. HIDE DEF h, g, a, b, j, f
    <3>7. h \in Nat /\ g \in Nat
      BY <3>4, <3>5
    <3>8. h + g = h + 0 + g
      BY <3>7
    <3>. QED
      BY <3>2, <3>6, <3>8 DEF h, g
  <2>. QED
    BY <1>2, <2>1, <2>3
<1>5. CASE st[c] = "pending"
  <2>1. /\ list' = [list EXCEPT ![c] = <<>>]
        /\ queue' = q \o DrainJobs(c)
        /\ \/ Stakes(<<>> \o DrainStakes(c), given) /\ tracked' = tracked
           \/ \E dropped \in {{}, Observed} :
                 /\ tracked' = (tracked \ dropped) \cup {c}
                 /\ Stakes(<<>> \o DrainStakes(c) \o <<c>>, given \o AsSeq(dropped))
    BY <1>5 DEF Settle, Track
  <2>2. ASSUME NEW x \in Cell
        PROVE  Lists(x, list') = Lists(x, list) - ListW(x, list[c]) /\ ListW(x, list[c]) \in Nat
    <3>1. /\ list'[c] = <<>> /\ \A p \in Cell \ {c} : list'[p] = list[p]
          /\ list' \in [Cell -> Seq(Link)]
      BY <1>1, <2>1
    <3>2. Emptied(list, list', c)
      BY <1>1, <3>1 DEF Emptied, SameBut
    <3>. QED
      BY <3>2, ListsLose
  <2>3. ASSUME NEW x \in Cell
        PROVE  Jobs(x, queue', w) = Jobs(x, q, w) + ListW(x, list[c])
                                    + IF x = c THEN CountIn(list[c], Inlines) ELSE 0
    <3>1. DrainJobs(c) \in Seq(JobSet)
      BY DrainAt
    <3>2. Jobs(x, queue', w) = Jobs(x, q, w) + Jobs(x, DrainJobs(c), w)
      BY <2>1, <3>1, JobsConcat
    <3>3. Jobs(x, DrainJobs(c), w)
            = ListW(x, list[c]) + IF x = c THEN CountIn(list[c], Inlines) ELSE 0
      BY DrainHolds DEF Jobs
    <3>. DEFINE after == Jobs(x, queue', w)
                j == Jobs(x, q, w)
                e == ListW(x, list[c])
                a == IF x = c THEN CountIn(list[c], Inlines) ELSE 0
    <3>4. after = j + (e + a)
      BY <3>2, <3>3
    <3>5. j \in Nat /\ e \in Nat /\ a \in Nat
      BY <1>3, <2>2
    <3>. HIDE DEF after, j, e, a
    <3>6. after = j + e + a
      BY <3>4, <3>5
    <3>. QED
      BY <3>6 DEF after, j, e, a
  <2>. DEFINE taken == <<>> \o DrainStakes(c)
  <2>4. ASSUME NEW x \in Cell
        PROVE  /\ taken \in Seq(Cell)
               /\ Times(x, taken) = IF x = c THEN CountIn(list[c], Inlines)
                                                  + CountIn(list[c], Parkeds) ELSE 0
    <3>1. /\ DrainStakes(c) \in Seq(Cell)
          /\ Times(x, DrainStakes(c)) = IF x = c THEN CountIn(list[c], Inlines)
                                                      + CountIn(list[c], Parkeds) ELSE 0
      BY StakesOfDrain
    <3>. DEFINE none == <<>>
    <3>2. none \in Seq(Cell) /\ Times(x, none) = 0
      BY TimesNone
    <3>. HIDE DEF none
    <3>3. /\ none \o DrainStakes(c) \in Seq(Cell)
          /\ Times(x, none \o DrainStakes(c)) = Times(x, none) + Times(x, DrainStakes(c))
      BY <3>1, <3>2, TimesConcat
    <3>4. taken = none \o DrainStakes(c)
      BY DEF taken, none
    <3>. HIDE DEF taken
    <3>. DEFINE a == CountIn(list[c], Inlines)
                b == CountIn(list[c], Parkeds)
                n == IF x = c THEN a + b ELSE 0
    <3>5. a \in Nat /\ b \in Nat
      BY <1>3
    <3>6. Times(x, taken) = 0 + n
      BY <3>1, <3>2, <3>3, <3>4
    <3>. HIDE DEF a, b
    <3>7. n \in Nat
      BY <3>5
    <3>. HIDE DEF n
    <3>8. Times(x, taken) = n
      BY <3>6, <3>7
    <3>. QED
      BY <3>3, <3>4, <3>8 DEF n, a, b
  <2>. HIDE DEF taken
  <2>7. ASSUME NEW x \in Cell, NEW m \in Nat, NEW k \in Nat, NEW n \in Nat,
               One(x \in tracked') + k = One(x \in tracked) + m,
               One(x \in tracked') \in Nat
        PROVE  Held(x, tracked', list', queue', w, Woken(c)) + (n + k)
                 = Held(x, tracked, list, q, w, frames) + (Times(x, taken) + m) + n
    <3>. DEFINE t == One(x \in tracked)
                u == One(x \in tracked')
                l == Lists(x, list)
                j == Jobs(x, q, w)
                f == Calls(x, frames)
                e == ListW(x, list[c])
                a == IF x = c THEN CountIn(list[c], Inlines) ELSE 0
                b == IF x = c THEN CountIn(list[c], Parkeds) ELSE 0
    <3>1. /\ t \in Nat /\ u \in Nat /\ l \in Nat /\ j \in Nat /\ f \in Nat /\ e \in Nat
          /\ a \in Nat /\ b \in Nat /\ u + k = t + m
      BY <1>3, <2>2, <2>7
    <3>2. Lists(x, list') = l - e
      BY <2>2
    <3>3. Jobs(x, queue', w) = j + e + a
      BY <2>3
    <3>4. Calls(x, Woken(c)) = f + b
      BY <1>3
    <3>5. Times(x, taken) = a + b
      BY <1>3, <2>4
    <3>6. Held(x, tracked', list', queue', w, Woken(c)) = u + (l - e) + (j + e + a) + (f + b)
      BY <3>2, <3>3, <3>4 DEF Held
    <3>7. Held(x, tracked, list, q, w, frames) = t + l + j + f
      BY DEF Held
    <3>. HIDE DEF t, u, l, j, f, e, a, b
    <3>. QED
      BY <3>1, <3>5, <3>6, <3>7
  <2>8. ASSUME NEW x \in Cell
        PROVE  Times(x, taken) \in Nat /\ (Times(x, taken) > 0 => x = c)
    BY <1>3, <2>4, SMTT(30)
  <2>5. CASE Stakes(taken, given) /\ tracked' = tracked
    <3>1. ASSUME NEW x \in Cell
          PROVE  /\ Held(x, tracked', list', queue', w, Woken(c)) + Times(x, given)
                      = Held(x, tracked, list, q, w, frames) + Times(x, taken) + Times(x, given)
                 /\ Times(x, taken) > 0 => x = c
      <4>1. One(x \in tracked') + 0 = One(x \in tracked) + 0 /\ One(x \in tracked') \in Nat
        BY <1>3, <2>5
      <4>2. Times(x, given) \in Nat /\ 0 \in Nat
        BY <1>3
      <4>3. Held(x, tracked', list', queue', w, Woken(c)) + (Times(x, given) + 0)
              = Held(x, tracked, list, q, w, frames) + (Times(x, taken) + 0) + Times(x, given)
        BY <2>7, <4>1, <4>2
      <4>. QED
        BY <2>8, <4>2, <4>3
    <3>. QED
      BY <1>5, <2>4, <2>5, <3>1
  <2>6. ASSUME NEW dropped \in {{}, Observed}, tracked' = (tracked \ dropped) \cup {c},
               Stakes(taken \o <<c>>, given \o AsSeq(dropped))
        PROVE  \E tk, gv \in Seq(Cell) :
                 /\ Stakes(tk, gv)
                 /\ \A x \in Cell :
                  /\ Held(x, tracked', list', queue', w, Woken(c)) + Times(x, gv)
                       = Held(x, tracked, list, q, w, frames) + Times(x, tk) + Times(x, given)
                  /\ Times(x, tk) > 0 => x = c /\ st[c] = "pending"
    <3>. DEFINE tk == taken \o <<c>>
                gv == given \o AsSeq(dropped)
    <3>1. dropped \subseteq tracked /\ dropped \in SUBSET Cell /\ c \notin tracked
      BY <1>5 DEF Observed
    <3>2. ASSUME NEW x \in Cell
          PROVE  /\ tk \in Seq(Cell) /\ Times(x, tk) = Times(x, taken) + One(c = x)
                 /\ gv \in Seq(Cell) /\ Times(x, gv) = Times(x, given) + One(x \in dropped)
      <4>1. <<c>> \in Seq(Cell) /\ Times(x, <<c>>) = One(c = x)
        BY TimesOne
      <4>2. AsSeq(dropped) \in Seq(Cell) /\ Times(x, AsSeq(dropped)) = One(x \in dropped)
        BY <3>1, TimesSet
      <4>3. taken \in Seq(Cell)
        BY <2>4
      <4>4. tk \in Seq(Cell) /\ Times(x, tk) = Times(x, taken) + Times(x, <<c>>)
        BY <4>1, <4>3, TimesConcat
      <4>5. gv \in Seq(Cell) /\ Times(x, gv) = Times(x, given) + Times(x, AsSeq(dropped))
        BY <4>2, TimesConcat
      <4>. QED
        BY <4>1, <4>2, <4>4, <4>5
    <3>3. ASSUME NEW x \in Cell
          PROVE  /\ One(x \in tracked') + One(x \in dropped) = One(x \in tracked) + One(c = x)
                 /\ One(x \in tracked') \in Nat /\ One(x \in dropped) \in Nat
                 /\ One(c = x) \in Nat /\ (One(c = x) > 0 => x = c)
      BY <2>6, <3>1 DEF One
    <3>. HIDE DEF tk, gv
    <3>4. ASSUME NEW x \in Cell
          PROVE  /\ Held(x, tracked', list', queue', w, Woken(c)) + Times(x, gv)
                      = Held(x, tracked, list, q, w, frames) + Times(x, tk) + Times(x, given)
                 /\ Times(x, tk) > 0 => x = c
      <4>1. Times(x, given) \in Nat
        BY <1>3
      <4>2. Held(x, tracked', list', queue', w, Woken(c)) + (Times(x, given) + One(x \in dropped))
              = Held(x, tracked, list, q, w, frames) + (Times(x, taken) + One(c = x))
                + Times(x, given)
        BY <2>7, <3>3, <4>1
      <4>3. Times(x, tk) > 0 => x = c
        BY <2>8, <3>2, <3>3, SMTT(30)
      <4>. QED
        BY <3>2, <4>2, <4>3
    <3>5. Stakes(tk, gv)
      BY <2>6 DEF tk, gv
    <3>6. tk \in Seq(Cell) /\ gv \in Seq(Cell)
      BY <3>2
    <3>. QED
      BY <1>5, <3>4, <3>5, <3>6
  <2>. QED
    BY <2>1, <2>5, <2>6 DEF taken
<1>. QED
  BY <1>4, <1>5

-----------------------------------------------------------------------------
(* The inductive invariant.                                                *)

\* Whatever resumes the reaction of d: its job, or the code that runs.
Nexts(r, d) == r.k = "next" /\ r.d = d
Due(d, q, r) == Has(q, ReactJob(d)) \/ Nexts(r, d)

\* The reaction of d, whose words are row, is in one place, like a frame: in the list
\* of the cell it names, once, or queued once, or next.
ReactAt(d, row, l, q, r) ==
    /\ Due(d, q, r) => row.src \in Cell
    /\ ~(Nexts(r, d) /\ Has(q, ReactJob(d)))
    /\ Once(q, ReactJob(d))
    /\ \A p \in Cell : Has(l[p], Inline(d)) => /\ row.src = p /\ ~Due(d, q, r)
                                               /\ Once(l[p], Inline(d))

ReactionsPlaced == \A d \in Cell : ReactAt(d, rx[d], list, queue, run)

\* A record is in the list of the cell it has.
RecordsOn(l) == \A p \in Cell : \A i \in DOMAIN l[p] : IsRecord(l[p][i]) => l[p][i].c = p

\* A frame's words but for what it awaits and answers are clear.
RowOK(row) == /\ row.at \in {"none", "running"} => row.src = NULL
              /\ row.at = "none" => row.result = NULL

RejectedOnly == tracked \subseteq Cell /\ \A c \in tracked : st[c] = "rejected"

WordsOK == /\ RecordsOn(list)
           /\ \A f \in Frame : RowOK(frames[f])
           /\ run.k = "handler" => run.src \in Cell
           /\ RejectedOnly
           /\ open \subseteq handles
           /\ \A c \in Cell : st[c] = "free" => rx[c] = NoRx

\* What every place together owes c.
Owing(c) == Owed(c, handles, tracked, list, queue, rx, frames, run)

\* And after a step.
OwingAfter(c) == Owed(c, handles', tracked', list', queue', rx', frames', run')

\* A count is what is owed; a cell of the pool has none, and the dead are those that
\* have lost their last owner.
Counted == /\ rc \in [Cell -> Nat]
           /\ \A c \in Cell : rc[c] = Owing(c)
           /\ \A c \in Cell : st[c] = "free" => rc[c] = 0
           /\ dead = {c \in Cell : st[c] # "free" /\ rc[c] = 0}

CountInv == ReactionsPlaced /\ WordsOK /\ Counted

\* Nothing has a word of c.
Unowned(c) == /\ c \notin handles /\ c \notin tracked
              /\ ~Due(c, queue, run)
              /\ \A p \in Cell : ~Has(list[p], Inline(c))

-----------------------------------------------------------------------------
(* What is not owed, and the counts after a step.                          *)

\* What is owed is a natural number, and so is every part of it.
LEMMA OwingNat ==
  ASSUME Types, NEW c \in Cell
  PROVE  /\ Owing(c) \in Nat
         /\ One(c \in handles) \in Nat /\ One(c \in tracked) \in Nat
         /\ Lists(c, list) \in Nat /\ Jobs(c, queue, rx) \in Nat /\ Calls(c, frames) \in Nat
         /\ Running(c, run, rx) \in Nat
<1>1. list \in [Cell -> Seq(Link)] /\ queue \in Seq(JobSet)
  BY DEF Types
<1>2. One(c \in handles) \in Nat /\ One(c \in tracked) \in Nat
  BY OneNat
<1>3. /\ Lists(c, list) \in Nat /\ Jobs(c, queue, rx) \in Nat /\ Calls(c, frames) \in Nat
      /\ Running(c, run, rx) \in Nat
  BY <1>1, OwedNat
<1>. QED
  BY <1>2, <1>3 DEF Owing, Owed

\* To whom nothing is owed is in no place.
LEMMA NothingOwed ==
  ASSUME Types, NEW c \in Cell, Owing(c) = 0
  PROVE  /\ c \notin handles /\ c \notin tracked
         /\ \A p \in Cell : \A i \in DOMAIN list[p] :
               list[p][i] \notin LinkD(c) /\ list[p][i] \notin LinkC(c)
         /\ \A i \in DOMAIN queue : queue[i] \notin JobD(c) /\ queue[i] \notin JobC(c, rx)
         /\ ~Nexts(run, c)
<1>1. /\ One(c \in handles) = 0 /\ One(c \in tracked) = 0
      /\ Lists(c, list) = 0 /\ Jobs(c, queue, rx) = 0 /\ Running(c, run, rx) = 0
  <2>. DEFINE a == One(c \in handles)
              b == One(c \in tracked)
              l == Lists(c, list)
              j == Jobs(c, queue, rx)
              f == Calls(c, frames)
              r == Running(c, run, rx)
  <2>1. /\ a \in Nat /\ b \in Nat /\ l \in Nat /\ j \in Nat /\ f \in Nat /\ r \in Nat
    BY OwingNat
  <2>2. a + b + l + j + f + r = 0
    BY DEF Owing, Owed
  <2>. HIDE DEF a, b, l, j, f, r
  <2>3. a = 0 /\ b = 0 /\ l = 0 /\ j = 0 /\ r = 0
    BY <2>1, <2>2
  <2>. QED
    BY <2>3 DEF a, b, l, j, r
<1>2. c \notin handles /\ c \notin tracked
  BY <1>1 DEF One
<1>3. list \in [Cell -> Seq(Link)] /\ queue \in Seq(JobSet)
  BY DEF Types
<1>4. ASSUME NEW p \in Cell, NEW i \in DOMAIN list[p]
      PROVE  list[p][i] \notin LinkD(c) /\ list[p][i] \notin LinkC(c)
  <2>1. /\ InLists(list, LinkD(c)) \in Nat /\ InLists(list, LinkC(c)) \in Nat
        /\ InLists(list, LinkS(c)) \in Nat
    BY <1>3, ListsSplit
  <2>2. InLists(list, LinkD(c)) = 0 /\ InLists(list, LinkC(c)) = 0
    BY <1>1, <2>1 DEF Lists
  <2>3. list[p][i] \notin LinkD(c)
    BY <1>3, <2>2, ListsHave
  <2>4. list[p][i] \notin LinkC(c)
    BY <1>3, <2>2, ListsHave
  <2>. QED
    BY <2>3, <2>4
<1>5. ASSUME NEW i \in DOMAIN queue
      PROVE  queue[i] \notin JobD(c) /\ queue[i] \notin JobC(c, rx)
  <2>1. \A K : CountIn(queue, K) \in Nat
    BY <1>3, CountNat
  <2>2. CountIn(queue, JobD(c)) = 0 /\ CountIn(queue, JobC(c, rx)) = 0
    BY <1>1, <2>1 DEF Jobs
  <2>3. queue[i] \notin JobD(c)
    BY <1>3, <2>2, CountNat
  <2>4. queue[i] \notin JobC(c, rx)
    BY <1>3, <2>2, CountNat
  <2>. QED
    BY <2>3, <2>4
<1>6. ~Nexts(run, c)
  BY <1>1 DEF Running, One, Nexts
<1>. QED
  BY <1>2, <1>4, <1>5, <1>6

\* A cell of the pool and a dead one have no owner.
LEMMA PoolUnowned ==
  ASSUME Types, Counted, NEW c \in Cell, st[c] = "free" \/ c \in dead
  PROVE  Unowned(c) /\ Owing(c) = 0
<1>1. Owing(c) = 0
  BY DEF Counted
<1>2. Inline(c) \in Link /\ ReactJob(c) \in JobSet
  BY MadeOK
<1>3. Inline(c) \in LinkD(c) /\ ReactJob(c) \in JobD(c)
  BY <1>2 DEF LinkD, JobD, Inline, ReactJob
<1>4. ~Has(queue, ReactJob(c)) /\ \A p \in Cell : ~Has(list[p], Inline(c))
  BY <1>1, <1>3, NothingOwed DEF Has
<1>. QED
  BY <1>1, <1>4, NothingOwed DEF Unowned, Due

\* The count n of one cell whose count was a, whose state was s and is z, once t
\* references are taken and g given up, when o are owed.
LEMMA CountAfter ==
  ASSUME NEW a \in Nat, NEW t \in Nat, NEW g \in Nat, NEW o \in Nat, NEW s, NEW z, NEW n,
         o + g = a + t, n = a + t - g,
         s = "free" => a = 0, s # "free" => a # 0,
         s # "free" => z # "free", s = "free" /\ t > 0 => z # "free",
         s = "free" /\ z # "free" => t > 0 /\ g = 0
  PROVE  /\ n = o
         /\ z = "free" => n = 0
         /\ g > 0 /\ n = 0 <=> z # "free" /\ n = 0
<1>1. n = o
  OBVIOUS
<1>2. CASE s = "free"
  <2>1. a = 0
    BY <1>2
  <2>2. CASE z = "free"
    <3>1. t = 0
      BY <1>2, <2>2
    <3>. QED
      BY <1>1, <2>1, <2>2, <3>1
  <2>3. CASE z # "free"
    <3>1. t > 0 /\ g = 0
      BY <1>2, <2>3
    <3>. QED
      BY <1>1, <2>1, <2>3, <3>1
  <2>. QED
    BY <2>2, <2>3
<1>3. CASE s # "free"
  <2>1. a > 0 /\ z # "free"
    BY <1>3
  <2>2. n = 0 => g > 0
    BY <1>1, <2>1
  <2>. QED
    BY <1>1, <2>1, <2>2
<1>. QED
  BY <1>2, <1>3

\* A step that takes and gives up as many references as its places gain and lose.
LEMMA StakesCounted ==
  ASSUME Types', Counted, dead = {}, NEW tk \in Seq(Cell), NEW gv \in Seq(Cell),
         Stakes(tk, gv),
         \A x \in Cell : OwingAfter(x) + Times(x, gv) = Owing(x) + Times(x, tk),
         \A x \in Cell : st[x] # "free" => st'[x] # "free",
         \A x \in Cell : st[x] = "free" /\ Times(x, tk) > 0 => st'[x] # "free",
         \A x \in Cell : st[x] = "free" /\ st'[x] # "free"
                           => Times(x, tk) > 0 /\ Times(x, gv) = 0
  PROVE  Counted'
<1>1. /\ rc' = [c \in Cell |-> rc[c] + Times(c, tk) - Times(c, gv)]
      /\ dead' = {c \in Cell : /\ Times(c, gv) > 0
                               /\ rc[c] + Times(c, tk) - Times(c, gv) = 0}
  BY DEF Stakes
<1>2. ASSUME NEW x \in Cell
      PROVE  /\ rc'[x] = OwingAfter(x) /\ OwingAfter(x) \in Nat
             /\ st'[x] = "free" => rc'[x] = 0
             /\ Times(x, gv) > 0 /\ rc'[x] = 0 <=> st'[x] # "free" /\ rc'[x] = 0
             /\ rc'[x] = rc[x] + Times(x, tk) - Times(x, gv)
  <2>1. Times(x, tk) \in Nat /\ Times(x, gv) \in Nat
    BY TimesCount
  <2>2. OwingAfter(x) \in Nat
    <3>1. list' \in [Cell -> Seq(Link)] /\ queue' \in Seq(JobSet)
      BY DEF Types
    <3>. QED
      BY <3>1, OwedNat DEF OwingAfter
  <2>3. rc[x] \in Nat /\ OwingAfter(x) + Times(x, gv) = rc[x] + Times(x, tk)
    BY DEF Counted
  <2>4. /\ st[x] = "free" => rc[x] = 0
        /\ st[x] # "free" => rc[x] # 0
    BY DEF Counted
  <2>5. rc'[x] = rc[x] + Times(x, tk) - Times(x, gv)
    BY <1>1
  <2>6. /\ st[x] # "free" => st'[x] # "free"
        /\ st[x] = "free" /\ Times(x, tk) > 0 => st'[x] # "free"
        /\ st[x] = "free" /\ st'[x] # "free" => Times(x, tk) > 0 /\ Times(x, gv) = 0
    OBVIOUS
  <2>. DEFINE a == rc[x]
              t == Times(x, tk)
              g == Times(x, gv)
              o == OwingAfter(x)
              s == st[x]
              z == st'[x]
              n == rc'[x]
  <2>. HIDE DEF a, t, g, o, s, z, n
  <2>7. /\ a \in Nat /\ t \in Nat /\ g \in Nat /\ o \in Nat
        /\ o + g = a + t /\ n = a + t - g
        /\ s = "free" => a = 0
        /\ s # "free" => a # 0
        /\ s # "free" => z # "free"
        /\ s = "free" /\ t > 0 => z # "free"
        /\ s = "free" /\ z # "free" => t > 0 /\ g = 0
    BY <2>1, <2>2, <2>3, <2>4, <2>5, <2>6 DEF a, t, g, o, s, z, n
  <2>8. /\ n = o
        /\ z = "free" => n = 0
        /\ g > 0 /\ n = 0 <=> z # "free" /\ n = 0
    BY <2>7, CountAfter
  <2>. QED
    BY <2>2, <2>5, <2>8 DEF t, g, o, z, n
<1>3. dead' = {c \in Cell : st'[c] # "free" /\ rc'[c] = 0}
  <2>1. \A c \in Cell : c \in dead' <=> st'[c] # "free" /\ rc'[c] = 0
    <3>1. \A c \in Cell : c \in dead' <=> Times(c, gv) > 0 /\ rc'[c] = 0
      BY <1>1
    <3>. QED
      BY <1>2, <3>1
  <2>2. dead' \subseteq Cell
    BY <1>1
  <2>. QED
    BY <2>1, <2>2
<1>4. rc' \in [Cell -> Nat]
  <2>1. rc' = [c \in Cell |-> rc'[c]]
    BY <1>1
  <2>2. \A c \in Cell : rc'[c] \in Nat
    BY <1>2
  <2>. QED
    BY <2>1, <2>2
<1>5. \A x \in Cell : rc'[x] = Owing(x)'
  BY <1>2 DEF Owing, OwingAfter
<1>. QED
  BY <1>2, <1>3, <1>4, <1>5 DEF Counted

\* A step that only moves references.
LEMMA KeptCounted ==
  ASSUME Counted, UNCHANGED <<rc, dead>>,
         \A x \in Cell : OwingAfter(x) = Owing(x),
         \A x \in Cell : st[x] = "free" <=> st'[x] = "free"
  PROVE  Counted'
<1>1. \A x \in Cell : rc'[x] = OwingAfter(x)
  BY DEF Counted
<1>2. \A x \in Cell : rc'[x] = Owing(x)'
  BY <1>1 DEF Owing, OwingAfter
<1>. QED
  BY <1>2 DEF Counted

-----------------------------------------------------------------------------
(* The place of every reaction.                                            *)

\* Every reaction, of words x, is in its place.
AllAt(x, l, q, r) == \A d \in Cell : ReactAt(d, x[d], l, q, r)

\* Any job but its own leaves a reaction in its place.
LEMMA PushReacts ==
  ASSUME NEW x, NEW l, NEW q \in Seq(JobSet), NEW r, AllAt(x, l, q, r),
         NEW e \in JobSet, \A d \in Cell : e # ReactJob(d)
  PROVE  AllAt(x, l, Append(q, e), r)
<1>1. ASSUME NEW d \in Cell
      PROVE  ReactAt(d, x[d], l, Append(q, e), r)
  <2>1. /\ Has(Append(q, e), ReactJob(d)) <=> Has(q, ReactJob(d))
        /\ Once(q, ReactJob(d)) => Once(Append(q, e), ReactJob(d))
    BY AppendHas
  <2>2. ReactAt(d, x[d], l, q, r)
    BY DEF AllAt
  <2>. QED
    BY <2>1, <2>2 DEF ReactAt, Due
<1>. QED
  BY <1>1 DEF AllAt

\* So does the head of the queue when it is taken.
LEMMA PopReacts ==
  ASSUME NEW x, NEW l, NEW q \in Seq(JobSet), NEW r, AllAt(x, l, q, r), q # <<>>,
         \A d \in Cell : Head(q) # ReactJob(d)
  PROVE  AllAt(x, l, Tail(q), r)
<1>1. ASSUME NEW d \in Cell
      PROVE  ReactAt(d, x[d], l, Tail(q), r)
  <2>1. /\ Has(Tail(q), ReactJob(d)) <=> Has(q, ReactJob(d))
        /\ Once(q, ReactJob(d)) => Once(Tail(q), ReactJob(d))
    BY TailHas
  <2>2. ReactAt(d, x[d], l, q, r)
    BY DEF AllAt
  <2>. QED
    BY <2>1, <2>2 DEF ReactAt, Due
<1>. QED
  BY <1>1 DEF AllAt

\* So does another link of a list.
LEMMA LinkReacts ==
  ASSUME NEW x, NEW l \in [Cell -> Seq(Link)], NEW m, NEW q, NEW r, AllAt(x, l, q, r),
         NEW c \in Cell, NEW link \in Link, \A d \in Cell : link # Inline(d),
         m = [l EXCEPT ![c] = <<link>> \o @]
  PROVE  AllAt(x, m, q, r)
<1>1. ASSUME NEW d \in Cell, NEW p \in Cell
      PROVE  /\ Has(m[p], Inline(d)) <=> Has(l[p], Inline(d))
             /\ Once(l[p], Inline(d)) => Once(m[p], Inline(d))
  <2>1. CASE p = c
    <3>1. m[p] = <<link>> \o l[p] /\ l[p] \in Seq(Link)
      BY <2>1
    <3>2. link # Inline(d)
      OBVIOUS
    <3>. QED
      BY <3>1, <3>2, ConsHas
  <2>2. CASE p # c
    BY <2>2
  <2>. QED
    BY <2>1, <2>2
<1>2. ASSUME NEW d \in Cell
      PROVE  ReactAt(d, x[d], m, q, r)
  <2>1. ReactAt(d, x[d], l, q, r)
    BY DEF AllAt
  <2>. QED
    BY <1>1, <2>1 DEF ReactAt
<1>. QED
  BY <1>2 DEF AllAt

\* The code that runs may change while it is no reaction.
LEMMA RunReacts ==
  ASSUME NEW x, NEW l, NEW q, NEW r, AllAt(x, l, q, r), NEW t, r.k # "next", t.k # "next"
  PROVE  AllAt(x, l, q, t)
<1>1. ASSUME NEW d \in Cell
      PROVE  ReactAt(d, x[d], l, q, t)
  <2>1. ~Nexts(r, d) /\ ~Nexts(t, d)
    BY DEF Nexts
  <2>2. ReactAt(d, x[d], l, q, r)
    BY DEF AllAt
  <2>. QED
    BY <2>1, <2>2 DEF ReactAt, Due
<1>. QED
  BY <1>1 DEF AllAt

\* A settlement moves reactions from the list to the queue.
LEMMA SettleReacts ==
  ASSUME Types, NoneStranded, NEW q \in Seq(JobSet), NEW c \in Cell, NEW r, NEW x,
         Settled(q, c), AllAt(x, list, q, r)
  PROVE  AllAt(x, list', queue', r)
<1>1. CASE st[c] # "pending"
  BY <1>1 DEF Settled
<1>2. CASE st[c] = "pending"
  <2>1. queue' = q \o DrainJobs(c) /\ list' = [list EXCEPT ![c] = <<>>]
    BY <1>2 DEF Settled
  <2>2. ASSUME NEW d \in Cell
        PROVE  ReactAt(d, x[d], list', queue', r)
    <3>1. ReactAt(d, x[d], list, q, r)
      BY DEF AllAt
    <3>2. /\ Has(queue', ReactJob(d)) <=> Has(q, ReactJob(d)) \/ Has(list[c], Inline(d))
          /\ /\ Once(q, ReactJob(d)) /\ Once(DrainJobs(c), ReactJob(d))
             /\ ~(Has(q, ReactJob(d)) /\ Has(list[c], Inline(d)))
             => Once(queue', ReactJob(d))
      BY <2>1, DrainHas, ConcatHas
    <3>3. ASSUME NEW p \in Cell
          PROVE  /\ p # c => list'[p] = list[p]
                 /\ p = c => ~Has(list'[p], Inline(d)) /\ Once(list'[p], Inline(d))
      BY <2>1, EmptyHas DEF Types
    <3>4. CASE Has(list[c], Inline(d))
      <4>1. /\ x[d].src = c /\ ~Has(q, ReactJob(d)) /\ ~Nexts(r, d)
            /\ Once(list[c], Inline(d))
            /\ \A p \in Cell : p # c => ~Has(list[p], Inline(d))
        BY <3>1, <3>4 DEF ReactAt, Due
      <4>2. Once(DrainJobs(c), ReactJob(d))
        BY <4>1, DrainHas
      <4>3. Once(q, ReactJob(d))
        BY <3>1 DEF ReactAt
      <4>4. Once(queue', ReactJob(d))
        BY <3>2, <4>1, <4>2, <4>3
      <4>5. \A p \in Cell : ~Has(list'[p], Inline(d))
        BY <3>3, <4>1
      <4>. QED
        BY <4>1, <4>4, <4>5 DEF ReactAt
    <3>5. CASE ~Has(list[c], Inline(d))
      <4>1. Once(DrainJobs(c), ReactJob(d))
        BY <3>5, DrainHas DEF Once, Has
      <4>2. /\ Has(queue', ReactJob(d)) <=> Has(q, ReactJob(d))
            /\ Once(queue', ReactJob(d))
        BY <3>1, <3>2, <3>5, <4>1 DEF ReactAt
      <4>3. \A p \in Cell : Has(list'[p], Inline(d)) => list'[p] = list[p]
        BY <3>3
      <4>. QED
        BY <3>1, <4>2, <4>3 DEF ReactAt, Due
    <3>. QED
      BY <3>4, <3>5
  <2>. QED
    BY <2>2 DEF AllAt
<1>. QED
  BY <1>1, <1>2

\* A record's link or job is no reaction's.
LEMMA RecordReacts ==
  ASSUME Types, NEW q \in Seq(JobSet), NEW c \in Cell, NEW record \in Records, NEW r, NEW x,
         AttachThen(q, c, record), AllAt(x, list, q, r)
  PROVE  AllAt(x, list', queue', r)
<1>1. /\ record \in JobSet /\ record \in Link
      /\ \A d \in Cell : record # ReactJob(d) /\ record # Inline(d)
  BY MadeOK, RecordsDiffer
<1>2. CASE st[c] = "pending"
  <2>1. list' = [list EXCEPT ![c] = <<record>> \o @] /\ queue' = q
    BY <1>2 DEF AttachThen
  <2>2. list \in [Cell -> Seq(Link)]
    BY DEF Types
  <2>3. AllAt(x, list', q, r)
    BY <1>1, <2>1, <2>2, LinkReacts
  <2>. QED
    BY <2>1, <2>3
<1>3. CASE st[c] # "pending"
  <2>1. list' = list /\ queue' = Append(q, record)
    BY <1>3 DEF AttachThen
  <2>. QED
    BY <1>1, <2>1, PushReacts
<1>. QED
  BY <1>2, <1>3

\* Nor is a frame's.
LEMMA AwaitReacts ==
  ASSUME Types, NEW f \in Frame, NEW c \in Cell, NEW row, NEW taken,
         FrameAwait(f, c, row, taken), NEW r, NEW x, AllAt(x, list, queue, r)
  PROVE  AllAt(x, list', queue', r)
<1>1. /\ ResumeJob(f) \in JobSet /\ Parked(f) \in Link
      /\ \A d \in Cell : ResumeJob(f) # ReactJob(d) /\ Parked(f) # Inline(d)
  BY MadeOK, JobsDiffer
<1>2. CASE st[c] = "pending"
  <2>1. list' = [list EXCEPT ![c] = <<Parked(f)>> \o @] /\ queue' = queue
    BY <1>2 DEF FrameAwait
  <2>2. list \in [Cell -> Seq(Link)]
    BY DEF Types
  <2>3. AllAt(x, list', queue, r)
    BY <1>1, <2>1, <2>2, LinkReacts
  <2>. QED
    BY <2>1, <2>3
<1>3. CASE st[c] # "pending"
  <2>1. list' = list /\ queue' = Append(queue, ResumeJob(f))
    BY <1>3 DEF FrameAwait
  <2>2. queue \in Seq(JobSet)
    BY DEF Types
  <2>. QED
    BY <1>1, <2>1, <2>2, PushReacts
<1>. QED
  BY <1>2, <1>3

\* then() and catch() of a fresh cell make one.
LEMMA ThenReacts ==
  ASSUME Types, ReactionsPlaced, NEW s \in Cell, NEW d \in Cell, NEW kind,
         Unowned(d), Attach(s, d, kind), UNCHANGED run
  PROVE  ReactionsPlaced'
<1>1. /\ rx' = [rx EXCEPT ![d] = [kind |-> kind, src |-> s]]
      /\ list \in [Cell -> Seq(Link)] /\ queue \in Seq(JobSet)
      /\ rx'[d].src = s
      /\ \A e \in Cell : e # d => rx'[e] = rx[e]
  BY DEF Attach, Types
<1>2. /\ ~Has(queue, ReactJob(d)) /\ ~Nexts(run, d)
      /\ \A p \in Cell : ~Has(list[p], Inline(d))
  BY DEF Unowned, Due
<1>3. Inline(d) \in Link /\ ReactJob(d) \in JobSet
  BY MadeOK
<1>4. CASE st[s] = "pending"
  <2>1. list' = [list EXCEPT ![s] = <<Inline(d)>> \o @] /\ queue' = queue
    BY <1>4 DEF Attach
  <2>2. ASSUME NEW p \in Cell, NEW e \in Cell
        PROVE  /\ e # d => (Has(list'[p], Inline(e)) <=> Has(list[p], Inline(e)))
               /\ e # d => (Once(list[p], Inline(e)) => Once(list'[p], Inline(e)))
               /\ Has(list'[p], Inline(d)) => p = s
               /\ Once(list'[p], Inline(d))
    <3>1. Once(list[p], Inline(d)) /\ ~Has(list[p], Inline(d)) /\ list[p] \in Seq(Link)
      BY <1>1, <1>2 DEF Once, Has
    <3>2. CASE p = s
      <4>1. list'[p] = <<Inline(d)>> \o list[p]
        BY <1>1, <2>1, <3>2
      <4>2. e # d => Inline(e) # Inline(d)
        BY JobsDiffer
      <4>3. /\ Has(list'[p], Inline(e)) <=> Has(list[p], Inline(e)) \/ Inline(e) = Inline(d)
            /\ /\ Once(list[p], Inline(e))
               /\ Inline(e) = Inline(d) => ~Has(list[p], Inline(e))
               => Once(list'[p], Inline(e))
        BY <1>3, <3>1, <4>1, ConsHas
      <4>4. Once(list'[p], Inline(d))
        BY <1>3, <3>1, <4>1, ConsHas
      <4>. QED
        BY <3>2, <4>2, <4>3, <4>4
    <3>3. CASE p # s
      BY <1>1, <2>1, <3>1, <3>3
    <3>. QED
      BY <3>2, <3>3
  <2>3. ASSUME NEW e \in Cell
        PROVE  ReactAt(e, rx'[e], list', queue', run')
    <3>1. CASE e = d
      <4>1. Once(queue, ReactJob(d))
        BY <1>2 DEF Once, Has
      <4>. QED
        BY <1>1, <1>2, <2>1, <2>2, <3>1, <4>1 DEF ReactAt, Due
    <3>2. CASE e # d
      <4>1. ReactAt(e, rx[e], list, queue, run) /\ rx'[e] = rx[e]
        BY <1>1, <3>2 DEF ReactionsPlaced
      <4>. QED
        BY <2>1, <2>2, <3>2, <4>1 DEF ReactAt
    <3>. QED
      BY <3>1, <3>2
  <2>. QED
    BY <2>3 DEF ReactionsPlaced
<1>5. CASE st[s] # "pending"
  <2>1. list' = list /\ queue' = Append(queue, ReactJob(d))
    BY <1>5 DEF Attach
  <2>2. ASSUME NEW e \in Cell
        PROVE  ReactAt(e, rx'[e], list', queue', run')
    <3>1. CASE e = d
      <4>1. Once(queue, ReactJob(d))
        BY <1>2 DEF Once, Has
      <4>2. Once(queue', ReactJob(d))
        BY <1>1, <1>2, <1>3, <2>1, <4>1, AppendHas
      <4>. QED
        BY <1>1, <1>2, <2>1, <3>1, <4>2 DEF ReactAt
    <3>2. CASE e # d
      <4>1. ReactAt(e, rx[e], list, queue, run) /\ rx'[e] = rx[e]
        BY <1>1, <3>2 DEF ReactionsPlaced
      <4>2. ReactJob(e) # ReactJob(d)
        BY <3>2, JobsDiffer
      <4>3. /\ Has(queue', ReactJob(e)) <=> Has(queue, ReactJob(e))
            /\ Once(queue, ReactJob(e)) => Once(queue', ReactJob(e))
        BY <1>1, <1>3, <2>1, <4>2, AppendHas
      <4>. QED
        BY <2>1, <4>1, <4>3 DEF ReactAt, Due
    <3>. QED
      BY <3>1, <3>2
  <2>. QED
    BY <2>2 DEF ReactionsPlaced
<1>. QED
  BY <1>4, <1>5

\* The sole waiter runs on in this job: its reaction is next, or it was none.
LEMMA ChainReacts ==
  ASSUME PlaceInv, ReactionsPlaced, run.k # "next", NEW d \in Cell, Chains(d),
         list' = [list EXCEPT ![d] = <<>>], UNCHANGED <<rx, queue>>,
         \/ \E n \in Cell : list[d][1] = Inline(n) /\ run' = [k |-> "next", d |-> n]
         \/ \E f \in Frame : list[d][1] = Parked(f) /\ run' = [k |-> "wake", f |-> f]
  PROVE  ReactionsPlaced'
<1>1. Types /\ list \in [Cell -> Seq(Link)]
  BY DEF PlaceInv, Types
<1>2. /\ \A p \in Cell : p # d => list'[p] = list[p]
      /\ \A e \in Cell : ~Has(list'[d], Inline(e)) /\ Once(list'[d], Inline(e))
  BY <1>1, EmptyHas
<1>3. ASSUME NEW e \in Cell
      PROVE  ReactAt(e, rx'[e], list', queue', run')
  <2>1. ReactAt(e, rx[e], list, queue, run) /\ ~Nexts(run, e)
    BY DEF ReactionsPlaced, Nexts
  <2>2. Has(list[d], Inline(e)) <=> Inline(e) = list[d][1]
    BY <1>1, SoleLink
  <2>3. Nexts(run', e) <=> Inline(e) = list[d][1]
    <3>1. ASSUME NEW n \in Cell, list[d][1] = Inline(n), run' = [k |-> "next", d |-> n]
          PROVE  Nexts(run', e) <=> Inline(e) = list[d][1]
      BY <3>1, JobsDiffer DEF Nexts
    <3>2. ASSUME NEW f \in Frame, list[d][1] = Parked(f), run' = [k |-> "wake", f |-> f]
          PROVE  Nexts(run', e) <=> Inline(e) = list[d][1]
      BY <3>2, JobsDiffer DEF Nexts
    <3>. QED
      BY <3>1, <3>2
  <2>4. CASE Inline(e) = list[d][1]
    <3>1. /\ rx[e].src = d /\ ~Has(queue, ReactJob(e)) /\ Once(queue, ReactJob(e))
          /\ \A p \in Cell : p # d => ~Has(list[p], Inline(e))
      BY <2>1, <2>2, <2>4 DEF ReactAt, Due
    <3>2. \A p \in Cell : ~Has(list'[p], Inline(e))
      BY <1>2, <3>1
    <3>. QED
      BY <3>1, <3>2 DEF ReactAt
  <2>5. CASE Inline(e) # list[d][1]
    <3>1. \A p \in Cell : Has(list'[p], Inline(e)) => list'[p] = list[p]
      BY <1>2
    <3>. QED
      BY <2>1, <2>3, <2>5, <3>1 DEF ReactAt, Due
  <2>. QED
    BY <2>4, <2>5
<1>. QED
  BY <1>3 DEF ReactionsPlaced

\* A settlement of one waiter, whose job is queued.
LEMMA SoleReacts ==
  ASSUME PlaceInv, Inv, ReactionsPlaced, run.k # "next", run'.k # "next",
         NEW c \in Cell, Chains(c),
         queue' = Append(queue, JobOf(list[c][1])),
         st' = [st EXCEPT ![c] = "fulfilled"], list' = [list EXCEPT ![c] = <<>>],
         UNCHANGED rx
  PROVE  ReactionsPlaced'
<1>1. Types /\ NoneStranded /\ queue \in Seq(JobSet)
  BY DEF PlaceInv, Types, Inv
<1>2. Settled(queue, c)
  BY <1>1, SoleSettled
<1>3. AllAt(rx, list, queue, run')
  BY RunReacts DEF ReactionsPlaced, AllAt
<1>4. AllAt(rx, list', queue', run')
  BY <1>1, <1>2, <1>3, SettleReacts
<1>. QED
  BY <1>4 DEF AllAt, ReactionsPlaced

\* A settlement of c, by code that is no reaction.
LEMMA SettledReacts ==
  ASSUME PlaceInv, Inv, ReactionsPlaced, run.k # "next", run'.k # "next",
         NEW c \in Cell, NEW o, NEW given, Settle(queue, c, o, <<>>, given), UNCHANGED rx
  PROVE  ReactionsPlaced'
<1>1. Types /\ NoneStranded /\ queue \in Seq(JobSet)
  BY DEF PlaceInv, Types, Inv
<1>2. Settled(queue, c)
  BY SettleSettled
<1>3. AllAt(rx, list, queue, run')
  BY RunReacts DEF ReactionsPlaced, AllAt
<1>4. AllAt(rx, list', queue', run')
  BY <1>1, <1>2, <1>3, SettleReacts
<1>. QED
  BY <1>4 DEF AllAt, ReactionsPlaced

\* adopt_into: a job that is no reaction's.
LEMMA AttachReacts ==
  ASSUME PlaceInv, ReactionsPlaced, run.k # "next", run'.k # "next",
         NEW c \in Cell, NEW d \in Cell, queue' = Append(queue, AttachJob(c, d)),
         UNCHANGED <<rx, list>>
  PROVE  ReactionsPlaced'
<1>1. /\ queue \in Seq(JobSet) /\ AttachJob(c, d) \in JobSet
      /\ \A e \in Cell : AttachJob(c, d) # ReactJob(e)
  BY MadeOK, JobsDiffer DEF PlaceInv, Types
<1>2. AllAt(rx, list, queue, run')
  BY RunReacts DEF ReactionsPlaced, AllAt
<1>3. AllAt(rx, list, queue', run')
  BY <1>1, <1>2, PushReacts
<1>. QED
  BY <1>3 DEF AllAt, ReactionsPlaced

\* A handler returns.
LEMMA HandlerEndReacts ==
  ASSUME PlaceInv, Inv, ReactionsPlaced, HandlerEnd
  PROVE  ReactionsPlaced'
<1>1. run.k = "handler" /\ run.d \in Cell /\ run.k # "next" /\ handles \subseteq Cell
  BY DEF HandlerEnd, PlaceInv, Types, RunOK
<1>2. Idle.k # "next"
  BY DEF Idle
<1>3. CASE IntoChain(run.d, run.src)
  <2>1. /\ Chains(run.d) /\ list' = [list EXCEPT ![run.d] = <<>>] /\ UNCHANGED rx
        /\ st' = [st EXCEPT ![run.d] = "fulfilled"]
        /\ IntoReaction(run.d, run.src) \/ IntoFrame(run.d, run.src)
    BY <1>3 DEF IntoChain
  <2>2. \/ \E n \in Cell : list[run.d][1] = Inline(n)
        \/ \E f \in Frame : list[run.d][1] = Parked(f)
    BY <1>1, <2>1, SoleLink DEF PlaceInv
  <2>3. CASE IntoReaction(run.d, run.src)
    <3>1. list[run.d][1].k = "inline" /\ \A f \in Frame : Parked(f).k = "frame"
      BY <2>3 DEF IntoReaction, Parked
    <3>2. PICK n \in Cell : list[run.d][1] = Inline(n)
      BY <2>2, <3>1
    <3>3. list[run.d][1].d = n /\ JobOf(list[run.d][1]) = ReactJob(n)
      BY <3>2 DEF Inline, JobOf
    <3>4. \/ run' = [k |-> "next", d |-> n] /\ queue' = queue
          \/ run' = Idle /\ queue' = Append(queue, JobOf(list[run.d][1]))
      BY <2>3, <3>3 DEF IntoReaction, Chain
    <3>. QED
      BY <1>1, <1>2, <2>1, <3>2, <3>4, ChainReacts, SoleReacts
  <2>4. CASE IntoFrame(run.d, run.src)
    <3>1. list[run.d][1].k = "frame" /\ \A n \in Cell : Inline(n).k = "inline"
      BY <2>4 DEF IntoFrame, Inline
    <3>2. PICK f \in Frame : list[run.d][1] = Parked(f)
      BY <2>2, <3>1
    <3>3. list[run.d][1].f = f /\ JobOf(list[run.d][1]) = ResumeJob(f)
      BY <3>2 DEF Parked, JobOf
    <3>4. \/ run' = [k |-> "wake", f |-> f] /\ queue' = queue
          \/ run' = Idle /\ queue' = Append(queue, JobOf(list[run.d][1]))
      BY <2>4, <3>3 DEF IntoFrame, Chain
    <3>. QED
      BY <1>1, <1>2, <2>1, <3>2, <3>4, ChainReacts, SoleReacts
  <2>. QED
    BY <2>1, <2>3, <2>4
<1>4. CASE \E o, given : General(run.d, o, given)
  BY <1>1, <1>2, <1>4, SettledReacts DEF General
<1>5. CASE \E c \in handles : \E given : Adopt(run.d, c, given)
  BY <1>1, <1>2, <1>5, AttachReacts DEF Adopt
<1>. QED
  BY <1>3, <1>4, <1>5 DEF HandlerEnd

\* A finally returns.
LEMMA FinallyEndReacts ==
  ASSUME PlaceInv, Inv, ReactionsPlaced, FinallyEnd
  PROVE  ReactionsPlaced'
<1>1. /\ run.k # "next" /\ run.d \in Cell /\ run.src \in Cell /\ handles \subseteq Cell
      /\ Types /\ queue \in Seq(JobSet)
  BY DEF FinallyEnd, PlaceInv, Types, RunOK
<1>2. Idle.k # "next"
  BY DEF Idle
<1>3. CASE \E o, given : General(run.d, o, given)
  BY <1>1, <1>2, <1>3, SettledReacts DEF General
<1>4. CASE /\ \E c \in handles : AttachThen(queue, c, WaitRecord(c, run.d, run.src))
           /\ run' = Idle /\ UNCHANGED rx
  <2>1. PICK c \in Cell : AttachThen(queue, c, WaitRecord(c, run.d, run.src))
    BY <1>1, <1>4
  <2>2. WaitRecord(c, run.d, run.src) \in Records
    BY <1>1, MadeOK
  <2>3. AllAt(rx, list, queue, run')
    BY <1>1, <1>2, <1>4, RunReacts DEF ReactionsPlaced, AllAt
  <2>4. AllAt(rx, list', queue', run')
    BY <1>1, <2>1, <2>2, <2>3, RecordReacts
  <2>. QED
    BY <1>4, <2>4 DEF AllAt, ReactionsPlaced
<1>. QED
  BY <1>3, <1>4 DEF FinallyEnd

\* A body returns.
LEMMA BodyEndReacts ==
  ASSUME PlaceInv, Inv, ReactionsPlaced, BodyEnd
  PROVE  ReactionsPlaced'
<1>1. /\ run.k # "next" /\ run.k = "body" /\ run.f \in Frame /\ handles \subseteq Cell
  BY DEF BodyEnd, PlaceInv, Types, RunOK
<1>2. frames[run.f].result \in Cell
  BY <1>1 DEF PlaceInv, FramesPlaced, At, Runs
<1>3. Idle.k # "next"
  BY DEF Idle
<1>. DEFINE r == frames[run.f].result
<1>4. CASE Chains(r) /\ WakeSole(run.f, r)
  BY <1>1, <1>2, <1>3, <1>4, SoleReacts DEF WakeSole
<1>5. CASE \E o : EndFrame(run.f, r, o)
  BY <1>1, <1>2, <1>3, <1>5, SettledReacts DEF EndFrame
<1>6. CASE \E c \in handles : /\ queue' = Append(queue, AttachJob(c, r))
                              /\ run' = Idle /\ UNCHANGED <<list, rx>>
  BY <1>1, <1>2, <1>3, <1>6, AttachReacts
<1>. QED
  BY <1>4, <1>5, <1>6 DEF BodyEnd

\* The reaction of d runs: its words are cleared, it has no link and no other job.
LEMMA ReactReacts ==
  ASSUME PlaceInv, Inv, NEW q \in Seq(JobSet), NEW d \in Cell, React(q, d),
         \A e \in Cell : e # d => ReactAt(e, rx[e], list, q, Idle),
         ~Has(q, ReactJob(d)), \A p \in Cell : ~Has(list[p], Inline(d))
  PROVE  ReactionsPlaced'
<1>1. /\ Types /\ NoneStranded /\ rx' = [rx EXCEPT ![d] = NoRx]
      /\ \A e \in Cell : e # d => rx'[e] = rx[e]
  BY DEF PlaceInv, Inv, Types, React, Call, Forward
<1>2. Idle.k # "next" /\ ~Nexts(Idle, d)
  BY DEF Idle, Nexts
<1>3. ReactAt(d, rx'[d], list, q, Idle)
  <2>1. Once(q, ReactJob(d))
    BY DEF Once, Has
  <2>. QED
    BY <1>2, <2>1 DEF ReactAt, Due
<1>4. AllAt(rx', list, q, Idle)
  BY <1>1, <1>3 DEF AllAt
<1>5. CASE Call(q, d)
  <2>1. queue' = q /\ list' = list /\ run'.k # "next"
    BY <1>5 DEF Call
  <2>2. AllAt(rx', list, q, run')
    BY <1>2, <1>4, <2>1, RunReacts
  <2>. QED
    BY <2>1, <2>2 DEF AllAt, ReactionsPlaced
<1>6. CASE Forward(q, d)
  <2>1. Settled(q, d) /\ run' = Idle
    BY <1>6, SettleSettled DEF Forward
  <2>2. AllAt(rx', list', queue', Idle)
    BY <1>1, <1>4, <2>1, SettleReacts
  <2>. QED
    BY <2>1, <2>2 DEF AllAt, ReactionsPlaced
<1>. QED
  BY <1>5, <1>6 DEF React

\* The job of a reaction.
LEMMA RunReactReacts ==
  ASSUME PlaceInv, Inv, ReactionsPlaced, RunReact
  PROVE  ReactionsPlaced'
<1>1. /\ run = Idle /\ queue # <<>> /\ queue \in Seq(JobSet)
      /\ Head(queue).k = "react" /\ React(Tail(queue), Head(queue).d)
  BY DEF RunReact, Ready, Job, PlaceInv, Types
<1>2. Head(queue) \in JobSet /\ Tail(queue) \in Seq(JobSet)
  BY <1>1, TailHas
<1>3. PICK d \in Cell : Head(queue) = ReactJob(d) /\ Head(queue).d = d
  BY <1>1, <1>2, JobKinds
<1>4. ASSUME NEW e \in Cell
      PROVE  /\ Has(queue, ReactJob(e)) <=> ReactJob(e) = Head(queue) \/ Has(Tail(queue), ReactJob(e))
             /\ Once(Tail(queue), ReactJob(e))
             /\ ~(ReactJob(e) = Head(queue) /\ Has(Tail(queue), ReactJob(e)))
  <2>1. Once(queue, ReactJob(e))
    BY DEF ReactionsPlaced, ReactAt
  <2>. QED
    BY <1>1, <2>1, TailHas
<1>5. ASSUME NEW e \in Cell, e # d
      PROVE  ReactAt(e, rx[e], list, Tail(queue), Idle)
  <2>1. ReactJob(e) # Head(queue)
    BY <1>3, <1>5, JobsDiffer
  <2>2. ReactAt(e, rx[e], list, queue, Idle)
    BY <1>1 DEF ReactionsPlaced
  <2>3. (Has(queue, ReactJob(e)) <=> Has(Tail(queue), ReactJob(e)))
        /\ Once(Tail(queue), ReactJob(e))
    BY <1>4, <2>1
  <2>. QED
    BY <2>2, <2>3 DEF ReactAt, Due
<1>6. ~Has(Tail(queue), ReactJob(d)) /\ \A p \in Cell : ~Has(list[p], Inline(d))
  <2>1. Has(queue, ReactJob(d)) /\ ~Has(Tail(queue), ReactJob(d))
    BY <1>3, <1>4
  <2>2. ReactAt(d, rx[d], list, queue, run)
    BY DEF ReactionsPlaced
  <2>. QED
    BY <2>1, <2>2 DEF ReactAt, Due
<1>. QED
  BY <1>1, <1>2, <1>3, <1>5, <1>6, ReactReacts

\* The reaction that runs on in another's job.
LEMMA RunNextReacts ==
  ASSUME PlaceInv, Inv, ReactionsPlaced, RunNext
  PROVE  ReactionsPlaced'
<1>. DEFINE d == run.d
<1>1. /\ run.k = "next" /\ d \in Cell /\ queue \in Seq(JobSet) /\ React(queue, d)
  BY DEF RunNext, PlaceInv, Types, RunOK
<1>2. Nexts(run, d) /\ \A e \in Cell : ~Nexts(Idle, e) /\ (e # d => ~Nexts(run, e))
  BY <1>1 DEF Nexts, Idle
<1>. HIDE DEF d
<1>3. ASSUME NEW e \in Cell, e # d
      PROVE  ReactAt(e, rx[e], list, queue, Idle)
  <2>1. ReactAt(e, rx[e], list, queue, run)
    BY DEF ReactionsPlaced
  <2>. QED
    BY <1>2, <1>3, <2>1 DEF ReactAt, Due
<1>4. ~Has(queue, ReactJob(d)) /\ \A p \in Cell : ~Has(list[p], Inline(d))
  <2>1. ReactAt(d, rx[d], list, queue, run)
    BY <1>1 DEF ReactionsPlaced
  <2>. QED
    BY <1>2, <2>1 DEF ReactAt, Due
<1>. QED
  BY <1>1, <1>3, <1>4, ReactReacts

\* A job that is no reaction's is taken.
LEMMA TakenReacts ==
  ASSUME PlaceInv, ReactionsPlaced, Ready, Job.k # "react"
  PROVE  /\ Job \in JobSet /\ Tail(queue) \in Seq(JobSet) /\ run.k # "next"
         /\ AllAt(rx, list, Tail(queue), run)
<1>1. queue # <<>> /\ queue \in Seq(JobSet) /\ run = Idle
  BY DEF Ready, PlaceInv, Types
<1>2. Head(queue) \in JobSet /\ Tail(queue) \in Seq(JobSet)
  BY <1>1, TailHas
<1>3. \A e \in Cell : Head(queue) # ReactJob(e)
  BY DEF Job, ReactJob
<1>4. AllAt(rx, list, queue, run)
  BY DEF AllAt, ReactionsPlaced
<1>5. AllAt(rx, list, Tail(queue), run)
  BY <1>1, <1>3, <1>4, PopReacts
<1>. QED
  BY <1>1, <1>2, <1>5 DEF Job, Idle

\* adopt_attach_job.
LEMMA RunAttachReacts ==
  ASSUME PlaceInv, ReactionsPlaced, RunAttach
  PROVE  ReactionsPlaced'
<1>1. /\ AttachThen(Tail(queue), Job.c, Record("adopt", Job.c, Job.d))
      /\ UNCHANGED <<rx, run>> /\ Ready /\ Job.k = "attach" /\ Types
  BY DEF RunAttach, PlaceInv
<1>2. /\ Job \in JobSet /\ Tail(queue) \in Seq(JobSet)
      /\ AllAt(rx, list, Tail(queue), run)
  BY <1>1, TakenReacts
<1>3. Job.c \in Cell /\ Job.d \in Cell
  BY <1>1, <1>2, JobKinds
<1>4. Record("adopt", Job.c, Job.d) \in Records
  BY <1>3, MadeOK
<1>5. AllAt(rx, list', queue', run)
  BY <1>1, <1>2, <1>3, <1>4, RecordReacts
<1>. QED
  BY <1>1, <1>5 DEF AllAt, ReactionsPlaced

\* adopt_dispatch, finally_wait_dispatch and the dispatchers of handlers.
LEMMA DispatchReacts ==
  ASSUME PlaceInv, Inv, ReactionsPlaced, RunAdopt \/ RunWait \/ RunRecord
  PROVE  ReactionsPlaced'
<1>1. /\ Ready /\ Job.k # "react" /\ UNCHANGED rx /\ Types /\ NoneStranded
  BY DEF RunAdopt, RunWait, RunRecord, PlaceInv, Inv
<1>2. /\ Job \in JobSet /\ Tail(queue) \in Seq(JobSet) /\ run.k # "next"
      /\ AllAt(rx, list, Tail(queue), run)
  BY <1>1, TakenReacts
<1>3. CASE RunAdopt \/ RunWait
  <2>1. Settled(Tail(queue), Job.d) /\ UNCHANGED run /\ Job.k \in {"adopt", "wait"}
    BY <1>3, SettleSettled DEF RunAdopt, RunWait
  <2>2. Job.d \in Cell
    BY <1>2, <2>1, JobKinds
  <2>3. AllAt(rx, list', queue', run)
    BY <1>1, <1>2, <2>1, <2>2, SettleReacts
  <2>. QED
    BY <1>1, <2>1, <2>3 DEF AllAt, ReactionsPlaced
<1>4. CASE RunRecord
  <2>1. run'.k # "next" /\ queue' = Tail(queue) /\ UNCHANGED list
    BY <1>4 DEF RunRecord
  <2>2. AllAt(rx, list, Tail(queue), run')
    BY <1>2, <2>1, RunReacts
  <2>. QED
    BY <1>1, <2>1, <2>2 DEF AllAt, ReactionsPlaced
<1>. QED
  BY <1>3, <1>4

\* A frame goes on.
LEMMA LandReacts ==
  ASSUME PlaceInv, ReactionsPlaced, RunResume \/ RunFrame
  PROVE  ReactionsPlaced'
<1>1. CASE RunResume
  <2>1. /\ Ready /\ Job.k = "resume" /\ queue' = Tail(queue) /\ UNCHANGED <<rx, list>>
        /\ run'.k # "next"
    BY <1>1 DEF RunResume, Land
  <2>2. AllAt(rx, list, Tail(queue), run) /\ run.k # "next"
    BY <2>1, TakenReacts
  <2>3. AllAt(rx, list, Tail(queue), run')
    BY <2>1, <2>2, RunReacts
  <2>. QED
    BY <2>1, <2>3 DEF AllAt, ReactionsPlaced
<1>2. CASE RunFrame
  <2>1. run.k # "next" /\ run'.k # "next" /\ UNCHANGED <<rx, list, queue>>
    BY <1>2 DEF RunFrame, Land
  <2>2. AllAt(rx, list, queue, run')
    BY <2>1, RunReacts DEF AllAt, ReactionsPlaced
  <2>. QED
    BY <2>1, <2>2 DEF AllAt, ReactionsPlaced
<1>. QED
  BY <1>1, <1>2

\* The program's calls but then().
LEMMA CallReacts ==
  ASSUME PlaceInv, ReactionsPlaced,
         \/ \E s, d \in Cell, kind \in {"adopt", "both", "finally"} : Derive(s, d, kind)
         \/ \E f \in Frame, r, c \in Cell : CallAsync(f, r, c)
         \/ \E c \in Cell : BodyAwait(c)
         \/ BodyAwaitValue
  PROVE  ReactionsPlaced'
<1>1. Types /\ queue \in Seq(JobSet) /\ AllAt(rx, list, queue, run) /\ Idle.k # "next"
  BY DEF PlaceInv, Types, ReactionsPlaced, AllAt, Idle
<1>2. ASSUME NEW s \in Cell, NEW d \in Cell, NEW kind \in {"adopt", "both", "finally"},
             Derive(s, d, kind)
      PROVE  ReactionsPlaced'
  <2>1. AttachThen(queue, s, Record(kind, s, d)) /\ UNCHANGED <<rx, run>>
    BY <1>2 DEF Derive
  <2>2. Record(kind, s, d) \in Records
    BY MadeOK
  <2>3. AllAt(rx, list', queue', run)
    BY <1>1, <2>1, <2>2, RecordReacts
  <2>. QED
    BY <2>1, <2>3 DEF AllAt, ReactionsPlaced
<1>3. ASSUME NEW f \in Frame, NEW r \in Cell, NEW c \in Cell, CallAsync(f, r, c)
      PROVE  ReactionsPlaced'
  <2>1. FrameAwait(f, c, [NoFrame EXCEPT !.result = r], <<r, r>>) /\ UNCHANGED <<rx, run>>
    BY <1>3 DEF CallAsync
  <2>2. AllAt(rx, list', queue', run)
    BY <1>1, <2>1, AwaitReacts
  <2>. QED
    BY <2>1, <2>2 DEF AllAt, ReactionsPlaced
<1>4. ASSUME NEW c \in Cell, BodyAwait(c)
      PROVE  ReactionsPlaced'
  <2>1. /\ FrameAwait(run.f, c, frames[run.f], <<>>) /\ UNCHANGED rx /\ run' = Idle
        /\ run.k = "body"
    BY <1>4 DEF BodyAwait
  <2>2. run.f \in Frame /\ run.k # "next"
    BY <1>1, <2>1 DEF Types, RunOK
  <2>3. AllAt(rx, list, queue, Idle)
    BY <1>1, <2>2, RunReacts
  <2>4. AllAt(rx, list', queue', Idle)
    BY <1>1, <2>1, <2>2, <2>3, AwaitReacts
  <2>. QED
    BY <2>1, <2>4 DEF AllAt, ReactionsPlaced
<1>5. CASE BodyAwaitValue
  <2>1. /\ queue' = Append(queue, ResumeJob(run.f)) /\ UNCHANGED <<rx, list>> /\ run' = Idle
        /\ run.k = "body"
    BY <1>5 DEF BodyAwaitValue
  <2>2. run.f \in Frame /\ run.k # "next"
    BY <1>1, <2>1 DEF Types, RunOK
  <2>3. AllAt(rx, list, queue, Idle)
    BY <1>1, <2>2, RunReacts
  <2>4. ResumeJob(run.f) \in JobSet /\ \A d \in Cell : ResumeJob(run.f) # ReactJob(d)
    BY <2>2, MadeOK, JobsDiffer
  <2>5. AllAt(rx, list, queue', Idle)
    BY <1>1, <2>1, <2>3, <2>4, PushReacts
  <2>. QED
    BY <2>1, <2>5 DEF AllAt, ReactionsPlaced
<1>. QED
  BY <1>2, <1>3, <1>4, <1>5

\* The teardown: the reactions of the list are nowhere.
LEMMA FreeReacts ==
  ASSUME PlaceInv, ReactionsPlaced, NEW c \in Cell, Unowned(c), FreeCell(c)
  PROVE  ReactionsPlaced'
<1>1. /\ list' = [list EXCEPT ![c] = <<>>]
      /\ rx' = [e \in Cell |-> IF e = c THEN NoRx
                               ELSE IF Has(list[c], Inline(e))
                               THEN [rx[e] EXCEPT !.src = NULL]
                               ELSE rx[e]]
      /\ UNCHANGED <<queue, run>>
  BY DEF FreeCell, Has
<1>2. /\ \A p \in Cell : p # c => list'[p] = list[p]
      /\ \A e \in Cell : ~Has(list'[c], Inline(e)) /\ Once(list'[c], Inline(e))
  BY <1>1, EmptyHas DEF PlaceInv, Types
<1>3. ASSUME NEW e \in Cell
      PROVE  ReactAt(e, rx'[e], list', queue', run')
  <2>1. ReactAt(e, rx[e], list, queue, run)
    BY DEF ReactionsPlaced
  <2>2. CASE e = c
    <3>1. ~Due(c, queue, run) /\ \A p \in Cell : ~Has(list'[p], Inline(c))
      BY <1>2 DEF Unowned
    <3>. QED
      BY <1>1, <2>1, <2>2, <3>1 DEF ReactAt, Due
  <2>3. CASE Has(list[c], Inline(e))
    <3>1. rx[e].src = c /\ ~Due(e, queue, run)
      BY <2>1, <2>3 DEF ReactAt
    <3>2. \A p \in Cell : ~Has(list'[p], Inline(e))
      BY <1>2, <2>1, <3>1 DEF ReactAt
    <3>. QED
      BY <1>1, <2>1, <3>1, <3>2 DEF ReactAt, Due
  <2>4. CASE e # c /\ ~Has(list[c], Inline(e))
    <3>1. rx'[e] = rx[e]
      BY <1>1, <2>4
    <3>2. \A p \in Cell : Has(list'[p], Inline(e)) => list'[p] = list[p]
      BY <1>2
    <3>. QED
      BY <1>1, <2>1, <3>1, <3>2 DEF ReactAt, Due
  <2>. QED
    BY <2>2, <2>3, <2>4
<1>. QED
  BY <1>3 DEF ReactionsPlaced

\* Steps that change no list, no job and no reaction.
LEMMA KeptReacts ==
  ASSUME ReactionsPlaced, UNCHANGED <<rx, list, queue>>,
         UNCHANGED run \/ (run.k # "next" /\ run' = Idle)
  PROVE  ReactionsPlaced'
<1>1. CASE UNCHANGED run
  BY <1>1 DEF ReactionsPlaced
<1>2. CASE run.k # "next" /\ run' = Idle
  <2>1. run'.k # "next"
    BY <1>2 DEF Idle
  <2>2. AllAt(rx, list, queue, run')
    BY <1>2, <2>1, RunReacts DEF AllAt, ReactionsPlaced
  <2>. QED
    BY <2>2 DEF AllAt, ReactionsPlaced
<1>. QED
  BY <1>1, <1>2

\* Every step leaves every reaction in one place.
LEMMA StepReacts ==
  ASSUME PlaceInv, Inv, ReactionsPlaced, [Next]_vars,
         \A c \in Cell : st[c] = "free" \/ c \in dead => Unowned(c)
  PROVE  ReactionsPlaced'
<1>1. ASSUME NEW c \in Cell,
             \/ \E s \in {"pending", "fulfilled", "rejected"} : New(c, s)
             \/ Drop(c)
      PROVE  ReactionsPlaced'
  BY <1>1, KeptReacts DEF New, Drop
<1>2. ASSUME NEW c \in Cell, NEW o \in Outcome, Resolve(c, o)
      PROVE  ReactionsPlaced'
  <2>1. Settle(queue, c, o, <<>>, <<>>) /\ UNCHANGED <<rx, run>>
    BY <1>2 DEF Resolve
  <2>2. run.k # "next"
    BY <1>2 DEF Resolve, User
  <2>. QED
    BY <2>1, <2>2, SettledReacts
<1>3. ASSUME NEW c \in Cell, FreeCell(c)
      PROVE  ReactionsPlaced'
  BY <1>3, FreeReacts DEF FreeCell
<1>4. ASSUME NEW s \in Cell, NEW d \in Cell, NEW kind \in {"then", "catch"}, Then(s, d, kind)
      PROVE  ReactionsPlaced'
  BY <1>4, ThenReacts DEF Then, PlaceInv
<1>5. ASSUME NEW s \in Cell, NEW d \in Cell, ThenNone(s, d) \/ ThenTwo(s, d) \/ Finally(s, d)
      PROVE  ReactionsPlaced'
  BY <1>5, CallReacts DEF ThenNone, ThenTwo, Finally
<1>6. CASE MainEnd
  <2>1. run.k # "next"
    BY <1>6 DEF MainEnd
  <2>. QED
    BY <1>6, <2>1, KeptReacts DEF MainEnd
<1>7. CASE Quiet \/ UNCHANGED vars
  BY <1>7, KeptReacts DEF Quiet, vars
<1>8. ASSUME \/ \E f \in Frame, r, c \in Cell : CallAsync(f, r, c)
             \/ \E c \in Cell : BodyAwait(c)
             \/ BodyAwaitValue
      PROVE  ReactionsPlaced'
  BY <1>8, CallReacts
<1>9. CASE HandlerEnd \/ FinallyEnd \/ BodyEnd
  BY <1>9, HandlerEndReacts, FinallyEndReacts, BodyEndReacts
<1>10. CASE RunReact \/ RunResume \/ RunNext \/ RunFrame \/ RunAttach \/ RunAdopt
            \/ RunRecord \/ RunWait
  BY <1>10, RunReactReacts, LandReacts, RunNextReacts, RunAttachReacts, DispatchReacts
<1>. QED
  BY <1>1, <1>2, <1>3, <1>4, <1>5, <1>6, <1>7, <1>8, <1>9, <1>10 DEF Next

-----------------------------------------------------------------------------
(* The words.                                                              *)

\* The words after a step, one by one.
LEMMA WordsAfter ==
  ASSUME RecordsOn(list'), \A f \in Frame : RowOK(frames'[f]),
         run'.k = "handler" => run'.src \in Cell,
         tracked' \subseteq Cell, \A c \in tracked' : st'[c] = "rejected",
         open' \subseteq handles', \A c \in Cell : st'[c] = "free" => rx'[c] = NoRx
  PROVE  WordsOK'
  BY DEF WordsOK, RecordsOn, RowOK, RejectedOnly

\* A list grows by no record, or by one that has its cell.
LEMMA RecordsCons ==
  ASSUME NEW l \in [Cell -> Seq(Link)], RecordsOn(l), NEW c \in Cell, NEW link \in Link,
         IsRecord(link) => link.c = c, NEW m, m = [l EXCEPT ![c] = <<link>> \o @]
  PROVE  RecordsOn(m)
<1>1. ASSUME NEW p \in Cell, NEW i \in DOMAIN m[p], IsRecord(m[p][i])
      PROVE  m[p][i].c = p
  <2>1. CASE p = c
    <3>1. m[p] = <<link>> \o l[p] /\ l[p] \in Seq(Link)
      BY <2>1
    <3>2. Has(m[p], m[p][i])
      BY DEF Has
    <3>3. Has(l[p], m[p][i]) \/ m[p][i] = link
      BY <3>1, <3>2, ConsHas
    <3>4. CASE m[p][i] = link
      BY <1>1, <2>1, <3>4
    <3>5. CASE Has(l[p], m[p][i])
      <4>1. PICK j \in DOMAIN l[p] : l[p][j] = m[p][i]
        BY <3>5 DEF Has
      <4>2. IsRecord(l[p][j])
        BY <1>1, <4>1
      <4>3. l[p][j].c = p
        BY <4>2 DEF RecordsOn
      <4>. QED
        BY <4>1, <4>3
    <3>. QED
      BY <3>3, <3>4, <3>5
  <2>2. CASE p # c
    <3>1. m[p] = l[p]
      BY <2>2
    <3>. QED
      BY <1>1, <3>1 DEF RecordsOn
  <2>. QED
    BY <2>1, <2>2
<1>. QED
  BY <1>1 DEF RecordsOn

\* Or is emptied.
LEMMA RecordsCut ==
  ASSUME NEW l \in [Cell -> Seq(Link)], RecordsOn(l), NEW c \in Cell,
         NEW m, m = [l EXCEPT ![c] = <<>>]
  PROVE  RecordsOn(m)
<1>1. ASSUME NEW p \in Cell, NEW i \in DOMAIN m[p], IsRecord(m[p][i])
      PROVE  m[p][i].c = p
  <2>1. m[p] = IF p = c THEN <<>> ELSE l[p]
    OBVIOUS
  <2>2. p # c /\ m[p] = l[p]
    BY <2>1
  <2>. QED
    BY <1>1, <2>2 DEF RecordsOn
<1>. QED
  BY <1>1 DEF RecordsOn

\* The record of attach_then is on the cell it is given to.
LEMMA AttachWords ==
  ASSUME Types, WordsOK, NEW q, NEW c \in Cell, NEW record \in Records, record.c = c,
         AttachThen(q, c, record)
  PROVE  RecordsOn(list')
<1>1. list \in [Cell -> Seq(Link)] /\ RecordsOn(list) /\ record \in Link
  BY MadeOK DEF Types, WordsOK
<1>2. CASE st[c] = "pending"
  <2>1. list' = [list EXCEPT ![c] = <<record>> \o @]
    BY <1>2 DEF AttachThen
  <2>. QED
    BY <1>1, <2>1, RecordsCons
<1>3. CASE st[c] # "pending"
  <2>1. list' = list
    BY <1>3 DEF AttachThen
  <2>. QED
    BY <1>1, <2>1
<1>. QED
  BY <1>2, <1>3

\* A settlement.
LEMMA SettleWords ==
  ASSUME Types, WordsOK, NEW q, NEW c \in Cell, NEW o, NEW taken, NEW given,
         Settle(q, c, o, taken, given)
  PROVE  /\ RecordsOn(list') /\ \A f \in Frame : RowOK(Woken(c)[f])
         /\ tracked' \subseteq Cell /\ \A x \in tracked' : st'[x] = "rejected"
         /\ \A x \in Cell : st'[x] = "free" <=> st[x] = "free"
<1>1. /\ list \in [Cell -> Seq(Link)] /\ RecordsOn(list) /\ st \in [Cell -> State]
      /\ tracked \subseteq Cell /\ \A x \in tracked : st[x] = "rejected"
      /\ frames \in [Frame -> Row] /\ \A f \in Frame : RowOK(frames[f])
  BY DEF Types, WordsOK, RejectedOnly
<1>2. ASSUME NEW f \in Frame
      PROVE  RowOK(Woken(c)[f])
  <2>1. \/ Woken(c)[f] = frames[f]
        \/ Woken(c)[f] = [frames[f] EXCEPT !.at = "queued", !.src = c]
    BY DEF Woken
  <2>2. CASE Woken(c)[f] = frames[f]
    BY <1>1, <2>2
  <2>3. CASE Woken(c)[f] = [frames[f] EXCEPT !.at = "queued", !.src = c]
    <3>1. Woken(c)[f].at = "queued"
      BY <1>1, <2>3 DEF Row
    <3>. QED
      BY <3>1 DEF RowOK
  <2>. QED
    BY <2>1, <2>2, <2>3
<1>3. CASE st[c] # "pending"
  <2>1. UNCHANGED <<st, list, tracked>>
    BY <1>3 DEF Settle
  <2>. QED
    BY <1>1, <1>2, <2>1
<1>4. CASE st[c] = "pending"
  <2>1. list' = [list EXCEPT ![c] = <<>>] /\ st' = [st EXCEPT ![c] = o]
    BY <1>4 DEF Settle
  <2>2. RecordsOn(list')
    BY <1>1, <2>1, RecordsCut
  <2>3. c \notin tracked
    BY <1>1, <1>4
  <2>4. \/ o = "fulfilled" /\ tracked' = tracked
        \/ o = "rejected" /\ tracked' \subseteq tracked \cup {c}
    BY <1>4 DEF Settle, Track
  <2>5. tracked' \subseteq Cell /\ \A x \in tracked' : st'[x] = "rejected"
    BY <1>1, <2>1, <2>3, <2>4
  <2>6. \A x \in Cell : st'[x] = "free" <=> st[x] = "free"
    BY <1>1, <1>4, <2>1, <2>4
  <2>. QED
    BY <1>2, <2>2, <2>5, <2>6
<1>. QED
  BY <1>3, <1>4

\* A frame awaits: it is parked or queued, and its words with it.
LEMMA AwaitWords ==
  ASSUME Types, WordsOK, NEW f \in Frame, NEW c \in Cell, NEW row \in Row, NEW taken,
         FrameAwait(f, c, row, taken)
  PROVE  RecordsOn(list') /\ \A g \in Frame : RowOK(frames'[g])
<1>1. /\ list \in [Cell -> Seq(Link)] /\ RecordsOn(list) /\ Parked(f) \in Link
      /\ frames \in [Frame -> Row] /\ \A g \in Frame : RowOK(frames[g])
  BY MadeOK DEF Types, WordsOK
<1>2. ~IsRecord(Parked(f))
  BY DEF IsRecord, Parked
<1>3. \A w \in {"parked", "queued"} : RowOK([row EXCEPT !.at = w, !.src = c])
  BY DEF RowOK, Row
<1>4. CASE st[c] = "pending"
  <2>1. /\ frames' = [frames EXCEPT ![f] = [row EXCEPT !.at = "parked", !.src = c]]
        /\ list' = [list EXCEPT ![c] = <<Parked(f)>> \o @]
    BY <1>4 DEF FrameAwait
  <2>2. RecordsOn(list')
    BY <1>1, <1>2, <2>1, RecordsCons
  <2>. QED
    BY <1>1, <1>3, <2>1, <2>2
<1>5. CASE st[c] # "pending"
  <2>1. /\ frames' = [frames EXCEPT ![f] = [row EXCEPT !.at = "queued", !.src = c]]
        /\ list' = list
    BY <1>5 DEF FrameAwait
  <2>. QED
    BY <1>1, <1>3, <2>1
<1>. QED
  BY <1>4, <1>5

\* A row that is cleared.
LEMMA ClearWords ==
  /\ RowOK(NoFrame) /\ NoFrame \in Row
  /\ \A r \in Cell : [NoFrame EXCEPT !.result = r] \in Row
  BY DEF RowOK, NoFrame, Row, Word

\* Steps that leave lists, reactions and rejections alone.
LEMMA KeptWords ==
  ASSUME WordsOK, UNCHANGED <<st, list, rx, tracked>>, open' \subseteq handles',
         \A f \in Frame : RowOK(frames'[f]), run'.k = "handler" => run'.src \in Cell
  PROVE  WordsOK'
<1>1. /\ RecordsOn(list) /\ tracked \subseteq Cell /\ \A c \in tracked : st[c] = "rejected"
      /\ \A c \in Cell : st[c] = "free" => rx[c] = NoRx
  BY DEF WordsOK, RejectedOnly
<1>. QED
  BY <1>1, WordsAfter

\* alloc_pending, alloc_fulfilled, alloc_rejected.
LEMMA NewWords ==
  ASSUME PlaceInv, WordsOK, NEW c \in Cell, NEW s \in {"pending", "fulfilled", "rejected"}, New(c, s)
  PROVE  WordsOK'
<1>1. /\ st \in [Cell -> State] /\ RecordsOn(list) /\ open \subseteq handles
      /\ tracked \subseteq Cell /\ \A x \in tracked : st[x] = "rejected"
      /\ \A f \in Frame : RowOK(frames[f])
      /\ run.k = "handler" => run.src \in Cell
      /\ \A x \in Cell : st[x] = "free" => rx[x] = NoRx
  BY DEF PlaceInv, Types, WordsOK, RejectedOnly
<1>2. /\ st' = [st EXCEPT ![c] = s] /\ UNCHANGED <<list, rx, frames, run>>
      /\ st[c] = "free" /\ handles' = handles \cup {c} /\ open' \subseteq open \cup {c}
      /\ \/ tracked' = tracked
         \/ s = "rejected" /\ tracked' \subseteq tracked \cup {c}
  BY DEF New, Track
<1>3. tracked' \subseteq Cell /\ \A x \in tracked' : st'[x] = "rejected"
  BY <1>1, <1>2
<1>4. \A x \in Cell : st'[x] = "free" => rx'[x] = NoRx
  BY <1>1, <1>2
<1>5. open' \subseteq handles'
  BY <1>1, <1>2
<1>. QED
  BY <1>1, <1>2, <1>3, <1>4, <1>5, WordsAfter

\* A step that takes a fresh cell d, in a list or not.
LEMMA FreshWords ==
  ASSUME PlaceInv, WordsOK, NEW d \in Cell, st[d] = "free", st' = [st EXCEPT ![d] = "pending"],
         handles' = handles \cup {d}, UNCHANGED <<run, open, tracked>>,
         \A x \in Cell : x # d => rx'[x] = rx[x],
         RecordsOn(list'), \A f \in Frame : RowOK(frames'[f])
  PROVE  WordsOK'
<1>1. /\ st \in [Cell -> State] /\ open \subseteq handles
      /\ tracked \subseteq Cell /\ \A x \in tracked : st[x] = "rejected"
      /\ run.k = "handler" => run.src \in Cell
      /\ \A x \in Cell : st[x] = "free" => rx[x] = NoRx
  BY DEF PlaceInv, Types, WordsOK, RejectedOnly
<1>2. \A x \in tracked' : st'[x] = "rejected"
  BY <1>1
<1>3. \A x \in Cell : st'[x] = "free" => rx'[x] = NoRx
  BY <1>1
<1>4. tracked' \subseteq Cell /\ open' \subseteq handles'
  BY <1>1
<1>. QED
  BY <1>1, <1>2, <1>3, <1>4, WordsAfter

\* then() and catch().
LEMMA ThenWords ==
  ASSUME PlaceInv, WordsOK, NEW s \in Cell, NEW d \in Cell, NEW kind, Then(s, d, kind)
  PROVE  WordsOK'
<1>1. /\ st[d] = "free" /\ st' = [st EXCEPT ![d] = "pending"] /\ handles' = handles \cup {d}
      /\ UNCHANGED <<frames, run, open, tracked>> /\ Attach(s, d, kind)
  BY DEF Then
<1>2. list \in [Cell -> Seq(Link)] /\ RecordsOn(list) /\ \A f \in Frame : RowOK(frames[f])
  BY DEF PlaceInv, Types, WordsOK
<1>3. \A x \in Cell : x # d => rx'[x] = rx[x]
  BY <1>1 DEF Attach, PlaceInv, Types
<1>4. RecordsOn(list')
  <2>1. Inline(d) \in Link /\ ~IsRecord(Inline(d))
    BY MadeOK DEF IsRecord, Inline
  <2>2. list' = list \/ list' = [list EXCEPT ![s] = <<Inline(d)>> \o @]
    BY <1>1 DEF Attach
  <2>. QED
    BY <1>2, <2>1, <2>2, RecordsCons
<1>. QED
  BY <1>1, <1>2, <1>3, <1>4, FreshWords

\* A reaction in a record.
LEMMA DeriveWords ==
  ASSUME PlaceInv, WordsOK, NEW s \in Cell, NEW d \in Cell,
         NEW kind \in {"adopt", "both", "finally"}, Derive(s, d, kind)
  PROVE  WordsOK'
<1>1. /\ st[d] = "free" /\ st' = [st EXCEPT ![d] = "pending"] /\ handles' = handles \cup {d}
      /\ UNCHANGED <<rx, frames, run, open, tracked>>
      /\ AttachThen(queue, s, Record(kind, s, d))
  BY DEF Derive
<1>2. Record(kind, s, d) \in Records /\ Record(kind, s, d).c = s
  BY MadeOK DEF Record
<1>3. RecordsOn(list')
  BY <1>1, <1>2, AttachWords DEF PlaceInv
<1>4. \A f \in Frame : RowOK(frames'[f])
  BY <1>1 DEF WordsOK
<1>. QED
  BY <1>1, <1>3, <1>4, FreshWords

\* Async calls and awaits.
LEMMA CallWords ==
  ASSUME PlaceInv, WordsOK,
         \/ \E f \in Frame, r, c \in Cell : CallAsync(f, r, c)
         \/ \E c \in Cell : BodyAwait(c)
         \/ BodyAwaitValue
  PROVE  WordsOK'
<1>1. Types /\ open \subseteq handles /\ Idle.k # "handler" /\ RecordsOn(list)
      /\ \A f \in Frame : RowOK(frames[f])
  BY DEF PlaceInv, WordsOK, Idle
<1>2. ASSUME NEW f \in Frame, NEW r \in Cell, NEW c \in Cell, CallAsync(f, r, c)
      PROVE  WordsOK'
  <2>1. /\ st[r] = "free" /\ st' = [st EXCEPT ![r] = "pending"] /\ handles' = handles \cup {r}
        /\ UNCHANGED <<rx, run, open, tracked>>
        /\ FrameAwait(f, c, [NoFrame EXCEPT !.result = r], <<r, r>>)
    BY <1>2 DEF CallAsync
  <2>2. RecordsOn(list') /\ \A g \in Frame : RowOK(frames'[g])
    BY <1>1, <2>1, AwaitWords, ClearWords
  <2>. QED
    BY <2>1, <2>2, FreshWords
<1>3. ASSUME NEW c \in Cell, BodyAwait(c)
      PROVE  WordsOK'
  <2>1. /\ FrameAwait(run.f, c, frames[run.f], <<>>) /\ run' = Idle /\ run.k = "body"
        /\ UNCHANGED <<st, rx, handles, open, tracked>>
    BY <1>3 DEF BodyAwait
  <2>2. run.f \in Frame /\ frames[run.f] \in Row
    BY <1>1, <2>1 DEF Types, RunOK
  <2>3. RecordsOn(list') /\ \A g \in Frame : RowOK(frames'[g])
    BY <1>1, <2>1, <2>2, AwaitWords
  <2>4. /\ tracked' \subseteq Cell /\ \A x \in tracked' : st'[x] = "rejected"
        /\ \A x \in Cell : st'[x] = "free" => rx'[x] = NoRx
    BY <2>1 DEF WordsOK, RejectedOnly
  <2>. QED
    BY <1>1, <2>1, <2>3, <2>4, WordsAfter
<1>4. CASE BodyAwaitValue
  <2>1. /\ frames' = [frames EXCEPT ![run.f].at = "queued"] /\ run' = Idle /\ run.k = "body"
        /\ UNCHANGED <<st, list, rx, handles, open, tracked>>
    BY <1>4 DEF BodyAwaitValue
  <2>2. \A f \in Frame : RowOK(frames'[f])
    <3>1. frames \in [Frame -> Row]
      BY <1>1 DEF Types
    <3>2. run.f \in Frame => frames'[run.f].at = "queued"
      BY <2>1, <3>1 DEF Row
    <3>3. \A f \in Frame : f # run.f => frames'[f] = frames[f]
      BY <2>1, <3>1
    <3>. QED
      BY <1>1, <3>2, <3>3 DEF RowOK
  <2>. QED
    BY <1>1, <2>1, <2>2, KeptWords
<1>. QED
  BY <1>2, <1>3, <1>4

\* A settlement and what it wakes, by code that is done; one frame may be cleared.
LEMMA SettledWords ==
  ASSUME PlaceInv, WordsOK, NEW q, NEW c \in Cell, NEW o, NEW given,
         Settle(q, c, o, <<>>, given), \A f \in Frame : RowOK(frames'[f]),
         run' = Idle, open' \subseteq handles',
         \A x \in Cell : rx'[x] = rx[x] \/ rx'[x] = NoRx
  PROVE  WordsOK'
<1>1. Types /\ \A x \in Cell : st[x] = "free" => rx[x] = NoRx
  BY DEF PlaceInv, WordsOK
<1>2. /\ RecordsOn(list')
      /\ tracked' \subseteq Cell /\ \A x \in tracked' : st'[x] = "rejected"
      /\ \A x \in Cell : st'[x] = "free" <=> st[x] = "free"
  BY <1>1, SettleWords
<1>3. \A x \in Cell : st'[x] = "free" => rx'[x] = NoRx
  BY <1>1, <1>2
<1>4. run'.k # "handler"
  BY DEF Idle
<1>. QED
  BY <1>2, <1>3, <1>4, WordsAfter

\* One that wakes the frames of its list.
LEMMA WokenWords ==
  ASSUME Types, WordsOK, NEW q, NEW c \in Cell, NEW o, NEW given,
         Settle(q, c, o, <<>>, given)
  PROVE  /\ frames' = Woken(c) => \A f \in Frame : RowOK(frames'[f])
         /\ \A g : frames' = [Woken(c) EXCEPT ![g] = NoFrame]
                     => \A f \in Frame : RowOK(frames'[f])
<1>1. \A f \in Frame : RowOK(Woken(c)[f])
  BY SettleWords
<1>2. DOMAIN Woken(c) = Frame
  BY DEF Woken
<1>. QED
  BY <1>1, <1>2, ClearWords

\* A pending promise a sole waiter of which goes on.
LEMMA SoleWords ==
  ASSUME PlaceInv, WordsOK, NEW d \in Cell, st[d] = "pending",
         st' = [st EXCEPT ![d] = "fulfilled"], list' = [list EXCEPT ![d] = <<>>],
         UNCHANGED <<rx, handles, open, tracked>>,
         run'.k # "handler", \A f \in Frame : RowOK(frames'[f])
  PROVE  WordsOK'
<1>1. /\ st \in [Cell -> State] /\ list \in [Cell -> Seq(Link)] /\ RecordsOn(list)
      /\ tracked \subseteq Cell /\ \A x \in tracked : st[x] = "rejected"
      /\ \A x \in Cell : st[x] = "free" => rx[x] = NoRx /\ open \subseteq handles
  BY DEF PlaceInv, Types, WordsOK, RejectedOnly
<1>2. RecordsOn(list')
  BY <1>1, RecordsCut
<1>3. tracked' \subseteq Cell /\ \A x \in tracked' : st'[x] = "rejected"
  <2>1. d \notin tracked
    BY <1>1
  <2>. QED
    BY <1>1, <2>1
<1>4. \A x \in Cell : st'[x] = "free" => rx'[x] = NoRx
  BY <1>1
<1>5. open' \subseteq handles'
  BY DEF WordsOK
<1>. QED
  BY <1>2, <1>3, <1>4, <1>5, WordsAfter

\* A frame is queued in place.
LEMMA QueuedWords ==
  ASSUME Types, WordsOK, NEW g, NEW d,
         frames' = [frames EXCEPT ![g] = [@ EXCEPT !.at = "queued", !.src = d]]
  PROVE  \A f \in Frame : RowOK(frames'[f])
<1>1. frames \in [Frame -> Row] /\ \A f \in Frame : RowOK(frames[f])
  BY DEF Types, WordsOK
<1>2. ASSUME NEW f \in Frame
      PROVE  RowOK(frames'[f])
  <2>1. CASE f # g
    <3>1. frames'[f] = frames[f]
      BY <1>1, <2>1
    <3>. QED
      BY <1>1, <3>1
  <2>2. CASE f = g
    <3>1. frames'[f] = [frames[f] EXCEPT !.at = "queued", !.src = d]
      BY <1>1, <2>2
    <3>. DEFINE row == frames[f]
    <3>2. row \in Row /\ frames'[f] = [row EXCEPT !.at = "queued", !.src = d]
      BY <1>1, <3>1
    <3>. HIDE DEF row
    <3>3. [row EXCEPT !.at = "queued", !.src = d].at = "queued"
      BY <3>2 DEF Row
    <3>4. frames'[f].at = "queued"
      BY <3>2, <3>3
    <3>. QED
      BY <3>4 DEF RowOK
  <2>. QED
    BY <2>1, <2>2
<1>. QED
  BY <1>2

\* A handler returns.
LEMMA HandlerEndWords ==
  ASSUME PlaceInv, WordsOK, HandlerEnd
  PROVE  WordsOK'
<1>1. /\ run.d \in Cell /\ handles \subseteq Cell /\ open \subseteq handles /\ Types
      /\ UNCHANGED <<handles, open>> /\ \A f \in Frame : RowOK(frames[f])
  BY DEF HandlerEnd, PlaceInv, Types, RunOK, WordsOK
<1>2. Idle.k # "handler"
  BY DEF Idle
<1>3. CASE IntoChain(run.d, run.src)
  <2>1. /\ st[run.d] = "pending" /\ st' = [st EXCEPT ![run.d] = "fulfilled"]
        /\ list' = [list EXCEPT ![run.d] = <<>>] /\ UNCHANGED <<rx, tracked>>
        /\ IntoReaction(run.d, run.src) \/ IntoFrame(run.d, run.src)
    BY <1>3 DEF IntoChain, Chains
  <2>2. run'.k # "handler"
    BY <1>2, <2>1 DEF IntoReaction, IntoFrame, Chain
  <2>3. \A f \in Frame : RowOK(frames'[f])
    <3>1. CASE IntoReaction(run.d, run.src)
      BY <1>1, <3>1 DEF IntoReaction
    <3>2. CASE IntoFrame(run.d, run.src)
      <4>1. \E g : frames' = [frames EXCEPT ![g] = [@ EXCEPT !.at = "queued", !.src = run.d]]
        BY <3>2 DEF IntoFrame
      <4>. QED
        BY <1>1, <4>1, QueuedWords
    <3>. QED
      BY <2>1, <3>1, <3>2
  <2>. QED
    BY <1>1, <2>1, <2>2, <2>3, SoleWords
<1>4. ASSUME NEW o, NEW given, General(run.d, o, given)
      PROVE  WordsOK'
  <2>1. /\ Settle(queue, run.d, o, <<>>, given) /\ frames' = Woken(run.d) /\ run' = Idle
        /\ UNCHANGED rx
    BY <1>4 DEF General
  <2>2. \A f \in Frame : RowOK(frames'[f])
    BY <1>1, <2>1, WokenWords
  <2>. QED
    BY <1>1, <2>1, <2>2, SettledWords
<1>5. ASSUME NEW c \in handles, NEW given, Adopt(run.d, c, given)
      PROVE  WordsOK'
  BY <1>1, <1>2, <1>5, KeptWords DEF Adopt
<1>. QED
  BY <1>3, <1>4, <1>5 DEF HandlerEnd

\* A finally returns.
LEMMA FinallyEndWords ==
  ASSUME PlaceInv, WordsOK, FinallyEnd
  PROVE  WordsOK'
<1>1. /\ run.d \in Cell /\ run.src \in Cell /\ handles \subseteq Cell /\ open \subseteq handles
      /\ Types /\ UNCHANGED <<handles, open>> /\ \A f \in Frame : RowOK(frames[f])
  BY DEF FinallyEnd, PlaceInv, Types, RunOK, WordsOK
<1>2. Idle.k # "handler"
  BY DEF Idle
<1>3. ASSUME NEW o, NEW given, General(run.d, o, given)
      PROVE  WordsOK'
  <2>1. /\ Settle(queue, run.d, o, <<>>, given) /\ frames' = Woken(run.d) /\ run' = Idle
        /\ UNCHANGED rx
    BY <1>3 DEF General
  <2>2. \A f \in Frame : RowOK(frames'[f])
    BY <1>1, <2>1, WokenWords
  <2>. QED
    BY <1>1, <2>1, <2>2, SettledWords
<1>4. ASSUME NEW c \in handles, AttachThen(queue, c, WaitRecord(c, run.d, run.src)),
             run' = Idle, UNCHANGED <<st, rx, frames, tracked>>
      PROVE  WordsOK'
  <2>1. c \in Cell
    BY <1>1
  <2>2. /\ WaitRecord(c, run.d, run.src) \in Records
        /\ WaitRecord(c, run.d, run.src).c = c
    BY <1>1, <2>1, MadeOK DEF WaitRecord
  <2>3. RecordsOn(list')
    BY <1>1, <1>4, <2>1, <2>2, AttachWords
  <2>4. /\ tracked' \subseteq Cell /\ \A x \in tracked' : st'[x] = "rejected"
        /\ \A x \in Cell : st'[x] = "free" => rx'[x] = NoRx
    BY <1>4 DEF WordsOK, RejectedOnly
  <2>. QED
    BY <1>1, <1>2, <1>4, <2>3, <2>4, WordsAfter
<1>. QED
  BY <1>3, <1>4 DEF FinallyEnd

\* A body returns.
LEMMA BodyEndWords ==
  ASSUME PlaceInv, WordsOK, BodyEnd
  PROVE  WordsOK'
<1>. DEFINE r == frames[run.f].result
<1>1. /\ run.f \in Frame /\ handles \subseteq Cell /\ open \subseteq handles /\ Types
      /\ UNCHANGED <<handles, open>> /\ run.k = "body"
      /\ \A f \in Frame : RowOK(frames[f])
  BY DEF BodyEnd, PlaceInv, Types, RunOK, WordsOK
<1>2. r \in Cell
  BY <1>1 DEF PlaceInv, FramesPlaced, At, Runs
<1>3. Idle.k # "handler"
  BY DEF Idle
<1>4. CASE Chains(r) /\ WakeSole(run.f, r)
  <2>1. /\ st[r] = "pending" /\ st' = [st EXCEPT ![r] = "fulfilled"]
        /\ list' = [list EXCEPT ![r] = <<>>] /\ UNCHANGED <<rx, tracked>> /\ run' = Idle
        /\ frames' = [Woken(r) EXCEPT ![run.f] = NoFrame]
    BY <1>4 DEF WakeSole, Chains
  <2>2. \A f \in Frame : RowOK(Woken(r)[f])
    <3>1. \/ \E d \in Cell : list[r][1] = Inline(d)
          \/ \E f \in Frame : list[r][1] = Parked(f)
      BY <1>1, <1>2, <1>4, SoleLink
    <3>3. ASSUME NEW f \in Frame
          PROVE  \/ Woken(r)[f] = frames[f]
                 \/ Woken(r)[f] = [frames[f] EXCEPT !.at = "queued", !.src = r]
      BY DEF Woken
    <3>4. ASSUME NEW f \in Frame, Woken(r)[f] = [frames[f] EXCEPT !.at = "queued", !.src = r]
          PROVE  RowOK(Woken(r)[f])
      <4>1. Woken(r)[f].at = "queued"
        BY <1>1, <3>4 DEF Types, Row
      <4>. QED
        BY <4>1 DEF RowOK
    <3>. QED
      BY <1>1, <3>3, <3>4
  <2>3. \A f \in Frame : RowOK(frames'[f])
    <3>1. DOMAIN Woken(r) = Frame
      BY DEF Woken
    <3>. QED
      BY <2>1, <2>2, <3>1, ClearWords
  <2>. QED
    BY <1>1, <1>2, <1>3, <2>1, <2>3, SoleWords
<1>5. ASSUME NEW o, EndFrame(run.f, r, o)
      PROVE  WordsOK'
  <2>1. /\ Settle(queue, r, o, <<>>, <<r>>) /\ run' = Idle /\ UNCHANGED rx
        /\ frames' = [Woken(r) EXCEPT ![run.f] = NoFrame]
    BY <1>5 DEF EndFrame
  <2>2. \A f \in Frame : RowOK(frames'[f])
    BY <1>1, <1>2, <2>1, WokenWords
  <2>. QED
    BY <1>1, <1>2, <2>1, <2>2, SettledWords
<1>6. ASSUME frames' = [frames EXCEPT ![run.f] = NoFrame], run' = Idle,
             UNCHANGED <<st, list, rx, tracked>>
      PROVE  WordsOK'
  <2>1. \A f \in Frame : RowOK(frames'[f])
    BY <1>1, <1>6, ClearWords DEF Types
  <2>. QED
    BY <1>1, <1>3, <1>6, <2>1, KeptWords
<1>. QED
  BY <1>4, <1>5, <1>6 DEF BodyEnd

\* The reaction of d runs, and names its source until then.
LEMMA ReactWords ==
  ASSUME PlaceInv, WordsOK, NEW q, NEW d \in Cell, rx[d].src \in Cell, React(q, d),
         UNCHANGED <<handles, open>>
  PROVE  WordsOK'
<1>1. /\ Types /\ open' \subseteq handles' /\ RecordsOn(list)
      /\ \A f \in Frame : RowOK(frames[f])
      /\ \A x \in Cell : st[x] = "free" => rx[x] = NoRx
      /\ rx' = [rx EXCEPT ![d] = NoRx]
  BY DEF PlaceInv, WordsOK, React, Call, Forward
<1>2. \A x \in Cell : rx'[x] = rx[x] \/ rx'[x] = NoRx
  BY <1>1 DEF Types
<1>3. CASE Call(q, d)
  <2>1. /\ UNCHANGED <<st, list, frames, tracked>> /\ run'.src \in Cell
    BY <1>3 DEF Call
  <2>2. tracked' \subseteq Cell /\ \A x \in tracked' : st'[x] = "rejected"
    BY <2>1 DEF WordsOK, RejectedOnly
  <2>3. \A x \in Cell : st'[x] = "free" => rx'[x] = NoRx
    BY <1>1, <1>2, <2>1
  <2>. QED
    BY <1>1, <2>1, <2>2, <2>3, WordsAfter
<1>4. CASE Forward(q, d)
  <2>1. /\ Settle(q, d, st[rx[d].src], <<>>, <<rx[d].src, d>>)
        /\ frames' = Woken(d) /\ run' = Idle
    BY <1>4 DEF Forward
  <2>2. \A f \in Frame : RowOK(frames'[f])
    BY <1>1, <2>1, WokenWords
  <2>. QED
    BY <1>1, <1>2, <2>1, <2>2, SettledWords
<1>. QED
  BY <1>3, <1>4 DEF React

\* The job of a reaction, and the one that runs on in another's job.
LEMMA RunReactWords ==
  ASSUME PlaceInv, WordsOK, ReactionsPlaced, RunReact \/ RunNext
  PROVE  WordsOK'
<1>1. CASE RunReact
  <2>1. /\ queue # <<>> /\ queue \in Seq(JobSet) /\ Head(queue).k = "react"
        /\ React(Tail(queue), Head(queue).d) /\ UNCHANGED <<handles, open>>
    BY <1>1 DEF RunReact, Ready, Job, PlaceInv, Types
  <2>2. Head(queue) \in JobSet /\ (Head(queue).k = "react" => Has(queue, Head(queue)))
    BY <2>1, TailHas
  <2>3. PICK d \in Cell : Head(queue) = ReactJob(d) /\ Head(queue).d = d
    BY <2>1, <2>2, JobKinds
  <2>4. rx[d].src \in Cell
    BY <2>1, <2>2, <2>3 DEF ReactionsPlaced, ReactAt, Due
  <2>. QED
    BY <2>1, <2>3, <2>4, ReactWords
<1>2. CASE RunNext
  <2>1. run.k = "next" /\ run.d \in Cell /\ React(queue, run.d) /\ UNCHANGED <<handles, open>>
    BY <1>2 DEF RunNext, PlaceInv, Types, RunOK
  <2>2. rx[run.d].src \in Cell
    BY <2>1 DEF ReactionsPlaced, ReactAt, Due, Nexts
  <2>. QED
    BY <2>1, <2>2, ReactWords
<1>. QED
  BY <1>1, <1>2

\* The landing of a frame.
LEMMA LandWords ==
  ASSUME PlaceInv, WordsOK, RunResume \/ RunFrame
  PROVE  WordsOK'
<1>1. PICK f, q : Land(f, q) /\ UNCHANGED <<handles, open>>
  BY DEF RunResume, RunFrame
<1>2. /\ frames' = [frames EXCEPT ![f] = [@ EXCEPT !.at = "running", !.src = NULL]]
      /\ run'.k # "handler" /\ UNCHANGED <<st, list, rx, tracked>>
  BY <1>1 DEF Land
<1>3. /\ frames \in [Frame -> Row] /\ \A g \in Frame : RowOK(frames[g])
      /\ open \subseteq handles
  BY DEF PlaceInv, Types, WordsOK
<1>4. ASSUME NEW g \in Frame
      PROVE  RowOK(frames'[g])
  <2>1. CASE g # f
    <3>1. frames'[g] = frames[g]
      BY <1>2, <1>3, <2>1
    <3>. QED
      BY <1>3, <3>1
  <2>2. CASE g = f
    <3>1. frames'[g] = [frames[g] EXCEPT !.at = "running", !.src = NULL]
      BY <1>2, <1>3, <2>2
    <3>2. frames'[g].at = "running" /\ frames'[g].src = NULL
      BY <1>3, <3>1 DEF Row
    <3>. QED
      BY <3>2 DEF RowOK
  <2>. QED
    BY <2>1, <2>2
<1>. QED
  BY <1>1, <1>2, <1>3, <1>4, KeptWords

\* The dispatchers of jobs that are no reaction's.
LEMMA DispatchWords ==
  ASSUME PlaceInv, WordsOK, RunAttach \/ RunAdopt \/ RunWait \/ RunRecord
  PROVE  WordsOK'
<1>1. /\ Ready /\ Job.k \in {"attach", "adopt", "both", "finally", "wait"}
      /\ UNCHANGED <<rx, handles, open>> /\ open \subseteq handles /\ Types
      /\ \A f \in Frame : RowOK(frames[f]) /\ RecordsOn(list)
      /\ run = Idle
  BY DEF RunAttach, RunAdopt, RunWait, RunRecord, PlaceInv, WordsOK, Ready
<1>2. Job.c \in Cell /\ Job.d \in Cell
  <2>1. queue # <<>> /\ queue \in Seq(JobSet)
    BY <1>1 DEF Ready, Types
  <2>2. Job \in JobSet
    BY <2>1, TailHas DEF Job
  <2>. QED
    BY <1>1, <2>2, JobKinds
<1>3. CASE RunAttach
  <2>1. /\ AttachThen(Tail(queue), Job.c, Record("adopt", Job.c, Job.d))
        /\ UNCHANGED <<st, rx, frames, run, handles, open, tracked>>
    BY <1>3 DEF RunAttach
  <2>2. /\ Record("adopt", Job.c, Job.d) \in Records
        /\ Record("adopt", Job.c, Job.d).c = Job.c
    BY <1>2, MadeOK DEF Record
  <2>3. RecordsOn(list')
    BY <1>1, <1>2, <2>1, <2>2, AttachWords
  <2>4. /\ tracked' \subseteq Cell /\ \A x \in tracked' : st'[x] = "rejected"
        /\ \A x \in Cell : st'[x] = "free" => rx'[x] = NoRx
    BY <2>1 DEF WordsOK, RejectedOnly
  <2>5. run'.k # "handler"
    BY <1>1, <2>1 DEF Idle
  <2>. QED
    BY <1>1, <2>1, <2>3, <2>4, <2>5, WordsAfter
<1>4. CASE RunAdopt \/ RunWait
  <2>1. PICK o, given : Settle(Tail(queue), Job.d, o, <<>>, given)
    BY <1>4 DEF RunAdopt, RunWait
  <2>2. frames' = Woken(Job.d) /\ run' = Idle
    BY <1>1, <1>4 DEF RunAdopt, RunWait
  <2>3. \A f \in Frame : RowOK(frames'[f])
    BY <1>1, <1>2, <2>1, <2>2, WokenWords
  <2>. QED
    BY <1>1, <1>2, <2>1, <2>2, <2>3, SettledWords
<1>5. CASE RunRecord
  BY <1>1, <1>2, <1>5, KeptWords DEF RunRecord
<1>. QED
  BY <1>3, <1>4, <1>5

\* The teardown of a cell no rejection list has.
LEMMA FreeWords ==
  ASSUME PlaceInv, WordsOK, NEW c \in Cell, c \notin tracked, FreeCell(c)
  PROVE  WordsOK'
<1>1. /\ st' = [st EXCEPT ![c] = "free"] /\ list' = [list EXCEPT ![c] = <<>>]
      /\ UNCHANGED <<run, handles, open, tracked>>
      /\ \A e \in Cell : \/ rx'[e] = rx[e] \/ rx'[e] = [rx[e] EXCEPT !.src = NULL]
                         \/ e = c /\ rx'[e] = NoRx
      /\ rx'[c] = NoRx
      /\ \A f \in Frame : frames'[f] = NoFrame \/ frames'[f] = frames[f]
  BY DEF FreeCell
<1>2. /\ st \in [Cell -> State] /\ list \in [Cell -> Seq(Link)] /\ RecordsOn(list)
      /\ tracked \subseteq Cell /\ \A x \in tracked : st[x] = "rejected"
      /\ \A x \in Cell : st[x] = "free" => rx[x] = NoRx
      /\ open \subseteq handles /\ \A f \in Frame : RowOK(frames[f])
      /\ run.k = "handler" => run.src \in Cell
  BY DEF PlaceInv, Types, WordsOK, RejectedOnly
<1>3. RecordsOn(list')
  BY <1>1, <1>2, RecordsCut
<1>4. tracked' \subseteq Cell /\ \A x \in tracked' : st'[x] = "rejected"
  BY <1>1, <1>2
<1>5. ASSUME NEW x \in Cell, st'[x] = "free"
      PROVE  rx'[x] = NoRx
  <2>1. CASE x = c
    BY <1>1, <2>1
  <2>2. CASE x # c
    <3>1. rx[x] = NoRx
      BY <1>1, <1>2, <1>5, <2>2
    <3>2. [NoRx EXCEPT !.src = NULL] = NoRx
      BY DEF NoRx
    <3>. QED
      BY <1>1, <2>2, <3>1, <3>2
  <2>. QED
    BY <2>1, <2>2
<1>6. \A f \in Frame : RowOK(frames'[f])
  BY <1>1, <1>2, ClearWords
<1>. QED
  BY <1>1, <1>2, <1>3, <1>4, <1>5, <1>6, WordsAfter

\* Every step keeps the words.
LEMMA StepWords ==
  ASSUME PlaceInv, WordsOK, ReactionsPlaced, [Next]_vars, \A c \in dead : c \notin tracked
  PROVE  WordsOK'
<1>1. ASSUME NEW c \in Cell, NEW s \in {"pending", "fulfilled", "rejected"}, New(c, s)
      PROVE  WordsOK'
  BY <1>1, NewWords
<1>2. ASSUME NEW c \in Cell, NEW o, Resolve(c, o)
      PROVE  WordsOK'
  <2>1. /\ Settle(queue, c, o, <<>>, <<>>) /\ frames' = Woken(c) /\ open' = open \ {c}
        /\ UNCHANGED <<rx, run, handles>>
    BY <1>2 DEF Resolve
  <2>2. Types /\ open' \subseteq handles'
    BY <2>1 DEF PlaceInv, WordsOK
  <2>3. \A f \in Frame : RowOK(frames'[f])
    BY <2>1, <2>2, WokenWords
  <2>4. /\ RecordsOn(list')
        /\ tracked' \subseteq Cell /\ \A x \in tracked' : st'[x] = "rejected"
        /\ \A x \in Cell : st'[x] = "free" <=> st[x] = "free"
    BY <2>1, <2>2, SettleWords
  <2>5. /\ \A x \in Cell : st'[x] = "free" => rx'[x] = NoRx
        /\ run'.k = "handler" => run'.src \in Cell
    BY <2>1, <2>4 DEF WordsOK
  <2>. QED
    BY <2>2, <2>3, <2>4, <2>5, WordsAfter
<1>3. ASSUME NEW c \in Cell, FreeCell(c)
      PROVE  WordsOK'
  BY <1>3, FreeWords DEF FreeCell
<1>4. ASSUME NEW s \in Cell, NEW d \in Cell, NEW kind, Then(s, d, kind)
      PROVE  WordsOK'
  BY <1>4, ThenWords
<1>5. ASSUME NEW s \in Cell, NEW d \in Cell, ThenNone(s, d) \/ ThenTwo(s, d) \/ Finally(s, d)
      PROVE  WordsOK'
  BY <1>5, DeriveWords DEF ThenNone, ThenTwo, Finally
<1>6. ASSUME \/ \E c \in Cell : Drop(c)
             \/ MainEnd \/ Quiet \/ UNCHANGED vars
      PROVE  WordsOK'
  <2>1. /\ UNCHANGED <<st, list, rx, frames, tracked>> /\ open' \subseteq handles'
        /\ UNCHANGED run \/ run' = Idle
    BY <1>6 DEF Drop, MainEnd, Quiet, vars, WordsOK
  <2>2. /\ \A f \in Frame : RowOK(frames'[f])
        /\ run'.k = "handler" => run'.src \in Cell
    BY <2>1 DEF WordsOK, Idle
  <2>. QED
    BY <2>1, <2>2, KeptWords
<1>7. ASSUME \/ \E f \in Frame, r, c \in Cell : CallAsync(f, r, c)
             \/ \E c \in Cell : BodyAwait(c)
             \/ BodyAwaitValue
      PROVE  WordsOK'
  BY <1>7, CallWords
<1>8. CASE HandlerEnd \/ FinallyEnd \/ BodyEnd
  BY <1>8, HandlerEndWords, FinallyEndWords, BodyEndWords
<1>9. CASE RunReact \/ RunResume \/ RunNext \/ RunFrame \/ RunAttach \/ RunAdopt
           \/ RunRecord \/ RunWait
  BY <1>9, RunReactWords, LandWords, DispatchWords
<1>. QED
  BY <1>1, <1>2, <1>3, <1>4, <1>5, <1>6, <1>7, <1>8, <1>9 DEF Next

-----------------------------------------------------------------------------
(* The counts.                                                             *)

\* What the running code holds.
LEMMA RunningIs ==
  ASSUME NEW x, NEW r, NEW w
  PROVE  /\ r.k \notin {"handler", "next"} => Running(x, r, w) = 0
         /\ r.k = "handler" => Running(x, r, w) = One(r.d = x) + One(r.src = x)
         /\ r.k = "next" => Running(x, r, w) = One(r.d = x) + One(w[r.d].src = x)
  BY DEF Running, One

\* What is owed after a step is a natural number in every part.
LEMMA AfterNat ==
  ASSUME Types', NEW x \in Cell
  PROVE  /\ OwingAfter(x) = One(x \in handles') + One(x \in tracked') + Lists(x, list')
                            + Jobs(x, queue', rx') + Calls(x, frames') + Running(x, run', rx')
         /\ One(x \in handles') \in Nat /\ One(x \in tracked') \in Nat
         /\ Lists(x, list') \in Nat /\ Jobs(x, queue', rx') \in Nat /\ Calls(x, frames') \in Nat
         /\ Running(x, run', rx') \in Nat
<1>1. list' \in [Cell -> Seq(Link)] /\ queue' \in Seq(JobSet)
  BY DEF Types
<1>2. One(x \in handles') \in Nat /\ One(x \in tracked') \in Nat
  BY OneNat
<1>3. /\ Lists(x, list') \in Nat /\ Jobs(x, queue', rx') \in Nat /\ Calls(x, frames') \in Nat
      /\ Running(x, run', rx') \in Nat
  BY <1>1, OwedNat
<1>. QED
  BY <1>2, <1>3 DEF OwingAfter, Owed

\* A set gains an element it had not.
LEMMA OneJoins ==
  ASSUME NEW S, NEW c, c \notin S, NEW x
  PROVE  One(x \in S \cup {c}) = One(x \in S) + One(c = x)
  BY DEF One

\* Or loses one it had.
LEMMA OneLeaves ==
  ASSUME NEW S, NEW c, c \in S, NEW x
  PROVE  One(x \in S) = One(x \in S \ {c}) + One(c = x)
  BY DEF One

\* Times c once the queue, the lists and the frames are settled (Settle), and what
\* the step does besides comes out even with what it gives up.
LEMMA SettledCounts ==
  ASSUME PlaceInv, Inv, WordsOK, Counted, Types', dead = {}, NEW q \in Seq(JobSet), NEW c \in Cell,
         NEW o, NEW given \in Seq(Cell), Settle(q, c, o, <<>>, given),
         Sourced(c, rx'),
         \A x \in Cell :
            One(x \in handles') + Running(x, run', rx') + Jobs(x, q, rx') + Times(x, given)
              + Calls(x, frames')
            = One(x \in handles) + Running(x, run, rx) + Jobs(x, queue, rx) + Calls(x, Woken(c))
  PROVE  Counted'
<1>1. /\ Types /\ FramesPlaced /\ NoneStranded /\ tracked \subseteq Cell
      /\ \A y \in tracked : st[y] = "rejected"
      /\ list \in [Cell -> Seq(Link)] /\ queue \in Seq(JobSet)
  BY DEF PlaceInv, Inv, WordsOK, RejectedOnly, Types
<1>. DEFINE w == rx'
<1>2. Sourced(c, w)
  OBVIOUS
<1>. HIDE DEF w
<1>3. PICK tk \in Seq(Cell), gv \in Seq(Cell) :
         /\ Stakes(tk, gv)
         /\ \A x \in Cell :
               /\ Held(x, tracked', list', queue', w, Woken(c)) + Times(x, gv)
                    = Held(x, tracked, list, q, w, frames) + Times(x, tk) + Times(x, given)
               /\ Times(x, tk) > 0 => x = c /\ st[c] = "pending"
  BY <1>1, <1>2, SettleOwed
<1>4. \A x \in Cell : st'[x] = "free" <=> st[x] = "free"
  BY <1>1, SettleWords
<1>5. ASSUME NEW x \in Cell
      PROVE  OwingAfter(x) + Times(x, gv) = Owing(x) + Times(x, tk)
  <2>. DEFINE h1 == One(x \in handles')
              t1 == One(x \in tracked')
              l1 == Lists(x, list')
              j1 == Jobs(x, queue', rx')
              c1 == Calls(x, frames')
              r1 == Running(x, run', rx')
              h == One(x \in handles)
              t == One(x \in tracked)
              l == Lists(x, list)
              j == Jobs(x, queue, rx)
              f == Calls(x, frames)
              r == Running(x, run, rx)
              jq == Jobs(x, q, rx')
              wk == Calls(x, Woken(c))
              g == Times(x, given)
              a == Times(x, gv)
              b == Times(x, tk)
  <2>1. /\ OwingAfter(x) = h1 + t1 + l1 + j1 + c1 + r1
        /\ h1 \in Nat /\ t1 \in Nat /\ l1 \in Nat /\ j1 \in Nat /\ c1 \in Nat /\ r1 \in Nat
    BY AfterNat
  <2>2. /\ h \in Nat /\ t \in Nat /\ l \in Nat /\ j \in Nat /\ f \in Nat /\ r \in Nat
    BY <1>1, OwingNat
  <2>3. Owing(x) = h + t + l + j + f + r
    BY DEF Owing, Owed
  <2>4. jq \in Nat
    BY <1>1, OwedNat
  <2>5. wk \in Nat
    BY <1>1, OwedNat
  <2>6. g \in Nat /\ a \in Nat /\ b \in Nat
    BY TimesCount
  <2>7. h1 + r1 + jq + g + c1 = h + r + j + wk
    OBVIOUS
  <2>8. (t1 + l1 + j1 + wk) + a = (t + l + jq + f) + b + g
    BY <1>3 DEF Held, w
  <2>. HIDE DEF h1, t1, l1, j1, c1, r1, h, t, l, j, f, r, jq, wk, g, a, b
  <2>9. (h1 + t1 + l1 + j1 + c1 + r1) + a = (h + t + l + j + f + r) + b
    BY <2>1, <2>2, <2>4, <2>5, <2>6, <2>7, <2>8
  <2>10. OwingAfter(x) + a = Owing(x) + b
    BY <2>1, <2>3, <2>9
  <2>. QED
    BY <2>10 DEF a, b
<1>6. \A x \in Cell : ~(st[x] = "free" /\ Times(x, tk) > 0)
  BY <1>3
<1>. QED
  BY <1>3, <1>4, <1>5, <1>6, StakesCounted

\* Resolve and reject of a promise the program may still settle.
LEMMA ResolveCounts ==
  ASSUME PlaceInv, Inv, CountInv, Types', NEW c \in Cell, NEW o, Resolve(c, o)
  PROVE  Counted'
<1>1. /\ dead = {} /\ Settle(queue, c, o, <<>>, <<>>) /\ frames' = Woken(c)
      /\ UNCHANGED <<rx, run, handles>> /\ queue \in Seq(JobSet)
  BY DEF Resolve, User, PlaceInv, Types
<1>2. Sourced(c, rx')
  BY <1>1 DEF Sourced, CountInv, ReactionsPlaced, ReactAt
<1>3. \A x \in Cell : <<>> \in Seq(Cell) /\ Times(x, <<>>) = 0
  BY TimesNone
<1>. DEFINE none == <<>>
<1>4. none \in Seq(Cell) /\ \A x \in Cell : Times(x, none) = 0
  BY <1>3
<1>5. Settle(queue, c, o, <<>>, none)
  BY <1>1
<1>. HIDE DEF none
<1>6. ASSUME NEW x \in Cell
      PROVE  One(x \in handles') + Running(x, run', rx') + Jobs(x, queue, rx') + Times(x, none)
               + Calls(x, frames')
             = One(x \in handles) + Running(x, run, rx) + Jobs(x, queue, rx) + Calls(x, Woken(c))
  <2>1. /\ One(x \in handles) \in Nat /\ Running(x, run, rx) \in Nat /\ Jobs(x, queue, rx) \in Nat
    BY OwingNat DEF PlaceInv
  <2>. QED
    BY <1>1, <1>4, <2>1
<1>. QED
  BY <1>1, <1>2, <1>4, <1>5, <1>6, SettledCounts DEF CountInv

\* A handler's promise is settled, and the dispatcher's references go.
LEMMA GeneralCounts ==
  ASSUME PlaceInv, Inv, CountInv, Types', dead = {}, run.k = "handler", NEW o,
         General(run.d, o, <<run.src, run.d>>), UNCHANGED handles
  PROVE  Counted'
<1>. DEFINE d == run.d
            s == run.src
            given == <<s, d>>
<1>1. d \in Cell /\ s \in Cell /\ queue \in Seq(JobSet)
  BY DEF PlaceInv, Types, RunOK, CountInv, WordsOK
<1>2. /\ Settle(queue, d, o, <<>>, given) /\ frames' = Woken(d) /\ run' = Idle
      /\ UNCHANGED <<rx, handles>>
  BY DEF General
<1>3. Sourced(d, rx')
  BY <1>1, <1>2 DEF Sourced, CountInv, ReactionsPlaced, ReactAt
<1>4. given \in Seq(Cell) /\ \A x \in Cell : Times(x, given) = One(s = x) + One(d = x)
  BY <1>1, TimesTwo
<1>5. \A x \in Cell : Running(x, run, rx) = One(d = x) + One(s = x)
  BY RunningIs
<1>6. \A x \in Cell : Running(x, run', rx') = 0
  <2>1. run'.k \notin {"handler", "next"}
    BY <1>2 DEF Idle
  <2>. QED
    BY <2>1, RunningIs
<1>. HIDE DEF d, s, given
<1>7. ASSUME NEW x \in Cell
      PROVE  One(x \in handles') + Running(x, run', rx') + Jobs(x, queue, rx') + Times(x, given)
               + Calls(x, frames')
             = One(x \in handles) + Running(x, run, rx) + Jobs(x, queue, rx) + Calls(x, Woken(d))
  <2>1. /\ One(x \in handles) \in Nat /\ Running(x, run, rx) \in Nat /\ Jobs(x, queue, rx) \in Nat
    BY OwingNat DEF PlaceInv
  <2>2. One(d = x) \in Nat /\ One(s = x) \in Nat
    BY OneNat
  <2>3. Calls(x, Woken(d)) \in Nat
    BY <1>1, OwedNat DEF PlaceInv, Types
  <2>. QED
    BY <1>2, <1>4, <1>5, <1>6, <2>1, <2>2, <2>3
<1>. QED
  BY <1>1, <1>2, <1>3, <1>4, <1>7, SettledCounts DEF CountInv

\* What a frame holds while it is not queued, and what a cleared one does.
LEMMA RowHolds ==
  ASSUME NEW x \in Cell
  PROVE  /\ \A row \in Row : row.at # "queued" => RowW(x, row) = One(row.result = x)
         /\ \A row \in Row : row.src = NULL => RowW(x, row) = One(row.result = x)
         /\ RowW(x, NoFrame) = 0
<1>1. NULL # x
  BY CellAssumption
<1>2. NoFrame \in Row /\ NoFrame.at # "queued" /\ NoFrame.result = NULL
  BY DEF NoFrame, Row, Word
<1>3. ASSUME NEW row \in Row, row.at # "queued" \/ row.src = NULL
      PROVE  RowW(x, row) = One(row.result = x)
  <2>1. RowW(x, row) = One(row.at = "queued" /\ row.src = x) + One(row.result = x)
    BY RowIs
  <2>2. One(row.at = "queued" /\ row.src = x) = 0
    BY <1>1, <1>3 DEF One
  <2>3. One(row.result = x) \in Nat
    BY OneNat
  <2>. QED
    BY <2>1, <2>2, <2>3
<1>4. RowW(x, NoFrame) = 0
  BY <1>1, <1>2, <1>3 DEF One
<1>. QED
  BY <1>3, <1>4

\* The frame of a body that returns is cleared.
LEMMA RetireCalls ==
  ASSUME PlaceInv, run.k = "body", NEW r \in Cell, r = frames[run.f].result, NEW x \in Cell,
         NEW fr \in [Frame -> Row], fr[run.f] = frames[run.f],
         NEW words \in [Frame -> Row], words[run.f] = NoFrame,
         \A g \in Frame \ {run.f} : words[g] = fr[g]
  PROVE  Calls(x, fr) = Calls(x, words) + One(r = x)
<1>. DEFINE f == run.f
<1>1. f \in Frame /\ frames[f] \in Row /\ frames[f].at = "running" /\ NoFrame \in Row
  <2>1. f \in Frame
    BY DEF PlaceInv, Types, RunOK
  <2>. QED
    BY <2>1, ClearWords DEF PlaceInv, Types, FramesPlaced, At, Runs
<1>2. /\ words \in [Frame -> Row] /\ words[f] = NoFrame
      /\ \A g \in Frame \ {f} : words[g] = fr[g]
  OBVIOUS
<1>3. fr[f] = frames[f]
  OBVIOUS
<1>. HIDE DEF f
<1>20. RowsBut(fr, words, f)
  BY <1>1, <1>2 DEF RowsBut
<1>4. Calls(x, words) = Calls(x, fr) - RowW(x, fr[f]) + RowW(x, words[f])
  BY <1>20, CallsAt
<1>5. RowW(x, words[f]) = 0
  BY <1>2, RowHolds
<1>6. RowW(x, fr[f]) = One(frames[f].result = x)
  BY <1>1, <1>3, RowHolds
<1>7. Calls(x, fr) \in Nat /\ One(r = x) \in Nat
  <2>1. Calls(x, fr) \in Nat
    BY OwedNat DEF PlaceInv, Types
  <2>. QED
    BY <2>1, OneNat
<1>8. frames[f].result = r
  BY DEF f
<1>. QED
  BY <1>4, <1>5, <1>6, <1>7, <1>8

\* The list of a body's result does not wake the body's own frame.
LEMMA BodyAwake ==
  ASSUME PlaceInv, run.k = "body", NEW c \in Cell
  PROVE  /\ run.f \in Frame /\ frames[run.f].result \in Cell
         /\ Woken(c) \in [Frame -> Row] /\ Woken(c)[run.f] = frames[run.f]
<1>1. run.f \in Frame /\ Types
  BY DEF PlaceInv, Types, RunOK
<1>2. /\ frames[run.f].at = "running" /\ frames[run.f].result \in Cell
      /\ ~Has(list[c], Parked(run.f))
  BY <1>1 DEF PlaceInv, FramesPlaced, At, Runs
<1>3. Woken(c)[run.f] = frames[run.f]
  BY <1>1, <1>2 DEF Woken, Has
<1>4. Woken(c) \in [Frame -> Row]
  <2>1. ASSUME NEW f \in Frame
        PROVE  [frames[f] EXCEPT !.at = "queued", !.src = c] \in Row /\ frames[f] \in Row
    BY <1>1, ZenonT(40) DEF Types, Row, Word
  <2>. QED
    BY <2>1 DEF Woken
<1>. QED
  BY <1>1, <1>2, <1>3, <1>4

\* The result of a body is settled, and the frame's reference on it goes.
LEMMA EndFrameCounts ==
  ASSUME PlaceInv, Inv, CountInv, Types', dead = {}, run.k = "body", NEW o, NEW r,
         r = frames[run.f].result, EndFrame(run.f, r, o), UNCHANGED handles
  PROVE  Counted'
<1>. DEFINE given == <<r>>
<1>1. r \in Cell /\ queue \in Seq(JobSet)
  BY BodyAwake DEF PlaceInv, Types, RunOK, FramesPlaced, At, Runs
<1>2. /\ Settle(queue, r, o, <<>>, given) /\ frames' = [Woken(r) EXCEPT ![run.f] = NoFrame]
      /\ run' = Idle /\ UNCHANGED <<rx, handles>>
  BY DEF EndFrame
<1>3. Sourced(r, rx')
  BY <1>1, <1>2 DEF Sourced, CountInv, ReactionsPlaced, ReactAt
<1>4. given \in Seq(Cell) /\ \A x \in Cell : Times(x, given) = One(r = x)
  BY <1>1, TimesOne
<1>5. \A x \in Cell : Running(x, run, rx) = 0
  BY RunningIs
<1>6. \A x \in Cell : Running(x, run', rx') = 0
  <2>1. run'.k \notin {"handler", "next"}
    BY <1>2 DEF Idle
  <2>. QED
    BY <2>1, RunningIs
<1>. HIDE DEF given
<1>7. ASSUME NEW x \in Cell
      PROVE  One(x \in handles') + Running(x, run', rx') + Jobs(x, queue, rx') + Times(x, given)
               + Calls(x, frames')
             = One(x \in handles) + Running(x, run, rx) + Jobs(x, queue, rx) + Calls(x, Woken(r))
  <2>1. /\ One(x \in handles) \in Nat /\ Running(x, run, rx) \in Nat /\ Jobs(x, queue, rx) \in Nat
    BY OwingNat DEF PlaceInv
  <2>2. One(r = x) \in Nat
    BY OneNat
  <2>3. Calls(x, frames') \in Nat
    BY AfterNat
  <2>4. Calls(x, Woken(r)) = Calls(x, frames') + One(r = x)
    <3>1. Woken(r) \in [Frame -> Row] /\ Woken(r)[run.f] = frames[run.f]
      BY <1>1, BodyAwake
    <3>. DEFINE fr == Woken(r)
    <3>2. fr \in [Frame -> Row] /\ fr[run.f] = frames[run.f]
      BY <3>1
    <3>. DEFINE words == frames'
    <3>3. /\ words \in [Frame -> Row] /\ words[run.f] = NoFrame
          /\ \A g \in Frame \ {run.f} : words[g] = fr[g]
      BY <1>2, <3>1, ClearWords, BodyAwake
    <3>. HIDE DEF fr, words
    <3>4. Calls(x, fr) = Calls(x, words) + One(r = x)
      BY <1>1, <3>2, <3>3, RetireCalls
    <3>. QED
      BY <3>4 DEF fr, words
  <2>. QED
    BY <1>2, <1>4, <1>5, <1>6, <2>1, <2>2, <2>3, <2>4
<1>. QED
  BY <1>1, <1>2, <1>3, <1>4, <1>7, SettledCounts, ZenonT(40) DEF CountInv

\* The reaction of d runs: its job's references are the dispatcher's, or go.
LEMMA ReactCounts ==
  ASSUME PlaceInv, Inv, CountInv, Types', dead = {}, NEW q \in Seq(JobSet), NEW d \in Cell,
         NEW s \in Cell, s = rx[d].src, React(q, d), UNCHANGED handles,
         ~Has(q, ReactJob(d)), \A p \in Cell : ~Has(list[p], Inline(d)),
         \A x \in Cell : Jobs(x, queue, rx) + Running(x, run, rx)
                         = Jobs(x, q, rx) + One(d = x) + One(s = x)
  PROVE  Counted'
<1>1. /\ Types /\ rx' = [rx EXCEPT ![d] = NoRx] /\ (\A e \in Cell : e # d => rx'[e] = rx[e])
  BY DEF PlaceInv, Types, React, Call, Forward
<1>2. ASSUME NEW x \in Cell
      PROVE  Jobs(x, q, rx') = Jobs(x, q, rx)
  <2>1. \A e \in Cell : Has(q, ReactJob(e)) => rx'[e].src = rx[e].src
    BY <1>1
  <2>. QED
    BY <2>1, JobsWords
<1>3. ASSUME NEW x \in Cell
      PROVE  /\ One(x \in handles) \in Nat /\ One(x \in tracked) \in Nat /\ Lists(x, list) \in Nat
             /\ Jobs(x, queue, rx) \in Nat /\ Calls(x, frames) \in Nat
             /\ Running(x, run, rx) \in Nat /\ Jobs(x, q, rx) \in Nat
             /\ One(d = x) \in Nat /\ One(s = x) \in Nat
  BY <1>1, OwingNat, OwedNat, OneNat DEF Types
<1>4. CASE Call(q, d)
  <2>1. /\ run' = [k |-> "handler", d |-> d, src |-> s, of |-> "inline"] /\ queue' = q
        /\ UNCHANGED <<st, rc, list, frames, tracked, dead>>
    BY <1>4 DEF Call
  <2>2. run'.k = "handler" /\ run'.d = d /\ run'.src = s
    BY <2>1
  <2>3. ASSUME NEW x \in Cell
        PROVE  OwingAfter(x) = Owing(x)
    <3>1. Running(x, run', rx') = One(d = x) + One(s = x)
      BY <2>2, RunningIs
    <3>. DEFINE h == One(x \in handles)
                t == One(x \in tracked)
                l == Lists(x, list)
                f == Calls(x, frames)
                j == Jobs(x, queue, rx)
                r == Running(x, run, rx)
                k == Jobs(x, q, rx)
                a == One(d = x)
                b == One(s = x)
    <3>2. OwingAfter(x) = One(x \in handles') + One(x \in tracked') + Lists(x, list')
                          + Jobs(x, queue', rx') + Calls(x, frames') + Running(x, run', rx')
      BY AfterNat
    <3>3. One(x \in handles') = h /\ One(x \in tracked') = t
      BY <2>1
    <3>4. Lists(x, list') = l /\ Calls(x, frames') = f /\ Jobs(x, queue', rx') = k
      BY <1>2, <2>1
    <3>5. Owing(x) = h + t + l + j + f + r
      BY DEF Owing, Owed
    <3>. DEFINE o == Owing(x)
                o1 == OwingAfter(x)
    <3>6. j + r = k + a + b
      OBVIOUS
    <3>7. /\ h \in Nat /\ t \in Nat /\ l \in Nat /\ j \in Nat /\ f \in Nat /\ r \in Nat
          /\ k \in Nat /\ a \in Nat /\ b \in Nat
      BY <1>3
    <3>8. Running(x, run', rx') = a + b
      BY <3>1
    <3>9. o1 = h + t + l + k + f + (a + b)
      BY <3>2, <3>3, <3>4, <3>8
    <3>10. o = h + t + l + j + f + r
      BY <3>5
    <3>. HIDE DEF h, t, l, f, j, r, k, a, b, o, o1
    <3>11. o1 = o
      BY <3>6, <3>7, <3>9, <3>10
    <3>. QED
      BY <3>11 DEF o, o1
  <2>. QED
    BY <2>1, <2>3, KeptCounted DEF CountInv
<1>5. CASE Forward(q, d)
  <2>. DEFINE given == <<s, d>>
  <2>1. /\ Settle(q, d, st[s], <<>>, given) /\ frames' = Woken(d) /\ run' = Idle
    BY <1>5 DEF Forward
  <2>2. Sourced(d, rx')
    <3>1. ASSUME NEW e \in Cell, Has(list[d], Inline(e))
          PROVE  rx'[e].src = d
      <4>1. e # d
        BY <3>1
      <4>2. rx[e].src = d
        BY <3>1 DEF CountInv, ReactionsPlaced, ReactAt
      <4>. QED
        BY <1>1, <4>1, <4>2
    <3>. QED
      BY <3>1 DEF Sourced
  <2>3. given \in Seq(Cell) /\ \A x \in Cell : Times(x, given) = One(s = x) + One(d = x)
    BY TimesTwo
  <2>4. \A x \in Cell : Running(x, run', rx') = 0
    <3>1. run'.k \notin {"handler", "next"}
      BY <2>1 DEF Idle
    <3>. QED
      BY <3>1, RunningIs
  <2>. HIDE DEF given
  <2>5. ASSUME NEW x \in Cell
        PROVE  One(x \in handles') + Running(x, run', rx') + Jobs(x, q, rx') + Times(x, given)
                 + Calls(x, frames')
               = One(x \in handles) + Running(x, run, rx) + Jobs(x, queue, rx) + Calls(x, Woken(d))
    <3>. DEFINE h == One(x \in handles)
                j == Jobs(x, queue, rx)
                r == Running(x, run, rx)
                k == Jobs(x, q, rx)
                a == One(d = x)
                b == One(s = x)
                c == Calls(x, Woken(d))
    <3>1. j + r = k + a + b
      OBVIOUS
    <3>2. c \in Nat
      BY <1>1, OwedNat DEF Types
    <3>3. /\ h \in Nat /\ j \in Nat /\ r \in Nat /\ k \in Nat /\ a \in Nat /\ b \in Nat
      BY <1>3
    <3>4. One(x \in handles') = h /\ Calls(x, frames') = c
      BY <2>1
    <3>5. Jobs(x, q, rx') = k
      BY <1>2
    <3>6. Running(x, run', rx') = 0 /\ Times(x, given) = b + a
      BY <2>3, <2>4
    <3>. HIDE DEF h, j, r, k, a, b, c
    <3>7. h + 0 + k + (b + a) + c = h + r + j + c
      BY <3>1, <3>2, <3>3
    <3>8. One(x \in handles') + Running(x, run', rx') + Jobs(x, q, rx') + Times(x, given)
            + Calls(x, frames') = h + r + j + c
      BY <3>4, <3>5, <3>6, <3>7
    <3>. QED
      BY <3>8 DEF h, r, j, c
  <2>. QED
    BY <2>1, <2>2, <2>3, <2>5, SettledCounts DEF CountInv
<1>. QED
  BY <1>4, <1>5 DEF React

\* The job of a reaction.
LEMMA RunReactCounts ==
  ASSUME PlaceInv, Inv, CountInv, Types', RunReact
  PROVE  Counted'
<1>1. /\ run = Idle /\ dead = {} /\ queue # <<>> /\ queue \in Seq(JobSet)
      /\ Head(queue).k = "react" /\ React(Tail(queue), Head(queue).d) /\ UNCHANGED handles
  BY DEF RunReact, Ready, Job, PlaceInv, Types
<1>2. Head(queue) \in JobSet /\ Tail(queue) \in Seq(JobSet)
  BY <1>1, TailHas
<1>3. PICK d \in Cell : Head(queue) = ReactJob(d) /\ Head(queue).d = d
  BY <1>1, <1>2, JobKinds
<1>4. /\ Has(queue, ReactJob(d)) /\ ~Has(Tail(queue), ReactJob(d))
  <2>1. Once(queue, ReactJob(d))
    BY DEF CountInv, ReactionsPlaced, ReactAt
  <2>. QED
    BY <1>1, <1>3, <2>1, TailHas
<1>5. rx[d].src \in Cell /\ \A p \in Cell : ~Has(list[p], Inline(d))
  BY <1>4 DEF CountInv, ReactionsPlaced, ReactAt, Due
<1>. DEFINE s == rx[d].src
<1>6. ASSUME NEW x \in Cell
      PROVE  Jobs(x, queue, rx) + Running(x, run, rx)
             = Jobs(x, Tail(queue), rx) + One(d = x) + One(s = x)
  <2>1. Jobs(x, queue, rx) = Jobs(x, Tail(queue), rx) + JobW(x, Head(queue), rx)
    BY <1>1, JobsLose
  <2>2. JobW(x, Head(queue), rx) = One(d = x) + One(rx[d].src = x)
    <3>1. JobW(x, ReactJob(d), rx) = One(d = x) + One(rx[d].src = x)
      BY InlineW
    <3>. QED
      BY <1>3, <3>1
  <2>3. Running(x, run, rx) = 0
    BY <1>1, RunningIs DEF Idle
  <2>4. /\ Jobs(x, Tail(queue), rx) \in Nat /\ One(d = x) \in Nat /\ One(rx[d].src = x) \in Nat
    BY <1>2, OwedNat, OneNat DEF PlaceInv, Types
  <2>. QED
    BY <2>1, <2>2, <2>3, <2>4
<1>. DEFINE q == Tail(queue)
<1>7. /\ q \in Seq(JobSet) /\ React(q, d) /\ s \in Cell /\ s = rx[d].src /\ ~Has(q, ReactJob(d))
  BY <1>1, <1>2, <1>3, <1>4, <1>5
<1>8. \A x \in Cell : Jobs(x, queue, rx) + Running(x, run, rx)
                     = Jobs(x, q, rx) + One(d = x) + One(s = x)
  BY <1>6
<1>. HIDE DEF q, s
<1>. QED
  BY <1>1, <1>5, <1>7, <1>8, ReactCounts

\* The reaction that runs on in another's job.
LEMMA RunNextCounts ==
  ASSUME PlaceInv, Inv, CountInv, Types', RunNext
  PROVE  Counted'
<1>. DEFINE d == run.d
            s == rx[d].src
<1>1. /\ dead = {} /\ run.k = "next" /\ d \in Cell /\ React(queue, d) /\ UNCHANGED handles
      /\ queue \in Seq(JobSet)
  BY DEF RunNext, PlaceInv, Types, RunOK
<1>2. Due(d, queue, run) /\ Nexts(run, d)
  BY <1>1 DEF Due, Nexts
<1>3. /\ s \in Cell /\ ~Has(queue, ReactJob(d)) /\ \A p \in Cell : ~Has(list[p], Inline(d))
  BY <1>1, <1>2 DEF CountInv, ReactionsPlaced, ReactAt
<1>4. ASSUME NEW x \in Cell
      PROVE  Jobs(x, queue, rx) + Running(x, run, rx)
             = Jobs(x, queue, rx) + One(d = x) + One(s = x)
  <2>1. Running(x, run, rx) = One(d = x) + One(s = x)
    BY <1>1, RunningIs
  <2>2. Jobs(x, queue, rx) \in Nat /\ One(d = x) \in Nat /\ One(s = x) \in Nat
    BY OwingNat, OneNat DEF PlaceInv
  <2>. HIDE DEF d, s
  <2>. QED
    BY <2>1, <2>2
<1>. QED
  BY <1>1, <1>3, <1>4, ReactCounts

\* A job is taken: what it held.
LEMMA TakenCounts ==
  ASSUME PlaceInv, Ready, NEW x \in Cell
  PROVE  /\ Job \in JobSet /\ Tail(queue) \in Seq(JobSet) /\ dead = {}
         /\ Jobs(x, queue, rx) = Jobs(x, Tail(queue), rx) + JobW(x, Job, rx)
         /\ Jobs(x, Tail(queue), rx) \in Nat /\ Running(x, run, rx) = 0
         /\ (Job.k \in {"attach", "adopt", "both", "finally"}
               => JobW(x, Job, rx) = One(Job.c = x) + One(Job.d = x))
         /\ (Job.k = "wait" => JobW(x, Job, rx) = One(Job.c = x) + One(Job.d = x) + One(Job.s = x))
<1>1. queue # <<>> /\ queue \in Seq(JobSet) /\ run = Idle /\ dead = {}
  BY DEF Ready, PlaceInv, Types
<1>2. Head(queue) \in JobSet /\ Tail(queue) \in Seq(JobSet)
  BY <1>1, TailHas
<1>3. Jobs(x, queue, rx) = Jobs(x, Tail(queue), rx) + JobW(x, Head(queue), rx)
  BY <1>1, JobsLose
<1>4. Jobs(x, Tail(queue), rx) \in Nat
  BY <1>2, OwedNat DEF PlaceInv, Types
<1>5. Running(x, run, rx) = 0
  BY <1>1, RunningIs DEF Idle
<1>. DEFINE e == Head(queue)
<1>6. e \in JobSet
  BY <1>2
<1>. HIDE DEF e
<1>7. e.k = "attach" => JobW(x, e, rx) = One(e.c = x) + One(e.d = x)
  <2>1. SUFFICES ASSUME e.k = "attach"
                 PROVE  JobW(x, e, rx) = One(e.c = x) + One(e.d = x)
    OBVIOUS
  <2>2. e = AttachJob(e.c, e.d) /\ e.c \in Cell /\ e.d \in Cell
    BY <1>6, <2>1 DEF JobSet, ReactJob, ResumeJob, AttachJob, Records, Record, WaitRecord
  <2>3. JobW(x, AttachJob(e.c, e.d), rx) = One(e.c = x) + One(e.d = x)
    BY <2>2, RecordW
  <2>. QED
    BY <2>2, <2>3
<1>8. e.k \in {"adopt", "both", "finally"} => JobW(x, e, rx) = One(e.c = x) + One(e.d = x)
  <2>1. SUFFICES ASSUME e.k \in {"adopt", "both", "finally"}
                 PROVE  JobW(x, e, rx) = One(e.c = x) + One(e.d = x)
    OBVIOUS
  <2>2. e = Record(e.k, e.c, e.d) /\ e.c \in Cell /\ e.d \in Cell
    BY <1>6, <2>1 DEF JobSet, ReactJob, ResumeJob, AttachJob, Records, Record, WaitRecord
  <2>3. ASSUME NEW kind \in {"adopt", "both", "finally"}, e = Record(kind, e.c, e.d)
        PROVE  JobW(x, e, rx) = One(e.c = x) + One(e.d = x)
    <3>. DEFINE c == e.c
                d == e.d
    <3>1. c \in Cell /\ d \in Cell
      BY <2>2
    <3>. HIDE DEF c, d
    <3>2. JobW(x, Record(kind, c, d), rx) = One(c = x) + One(d = x)
      BY <3>1, RecordW
    <3>. QED
      BY <2>3, <3>2 DEF c, d
  <2>. QED
    BY <2>1, <2>2, <2>3
<1>9. e.k = "wait" => JobW(x, e, rx) = One(e.c = x) + One(e.d = x) + One(e.s = x)
  <2>1. SUFFICES ASSUME e.k = "wait"
                 PROVE  JobW(x, e, rx) = One(e.c = x) + One(e.d = x) + One(e.s = x)
    OBVIOUS
  <2>2. e = WaitRecord(e.c, e.d, e.s) /\ e.c \in Cell /\ e.d \in Cell /\ e.s \in Cell
    BY <1>6, <2>1 DEF JobSet, ReactJob, ResumeJob, AttachJob, Records, Record, WaitRecord
  <2>3. JobW(x, WaitRecord(e.c, e.d, e.s), rx) = One(e.c = x) + One(e.d = x) + One(e.s = x)
    BY <2>2, WaitW
  <2>. QED
    BY <2>2, <2>3
<1>10. Job = e
  BY DEF Job, e
<1>. QED
  BY <1>1, <1>2, <1>3, <1>4, <1>5, <1>6, <1>7, <1>8, <1>9, <1>10 DEF e

\* A job that settles d and gives up what it held.
LEMMA PassedOnCounts ==
  ASSUME PlaceInv, Inv, CountInv, Types', Ready, NEW d \in Cell, NEW o, NEW given \in Seq(Cell),
         Settle(Tail(queue), d, o, <<>>, given), frames' = Woken(d),
         UNCHANGED <<rx, run, handles>>,
         \A x \in Cell : Times(x, given) = JobW(x, Job, rx)
  PROVE  Counted'
<1>. DEFINE q == Tail(queue)
<1>1. ASSUME NEW x \in Cell
      PROVE  /\ q \in Seq(JobSet) /\ dead = {} /\ Jobs(x, q, rx) \in Nat
             /\ Jobs(x, queue, rx) = Jobs(x, q, rx) + JobW(x, Job, rx)
  BY TakenCounts
<1>2. q \in Seq(JobSet) /\ dead = {}
  BY <1>1
<1>3. Settle(q, d, o, <<>>, given)
  OBVIOUS
<1>. HIDE DEF q
<1>4. Sourced(d, rx')
  BY DEF Sourced, CountInv, ReactionsPlaced, ReactAt
<1>5. ASSUME NEW x \in Cell
      PROVE  One(x \in handles') + Running(x, run', rx') + Jobs(x, q, rx') + Times(x, given)
               + Calls(x, frames')
             = One(x \in handles) + Running(x, run, rx) + Jobs(x, queue, rx) + Calls(x, Woken(d))
  <2>. DEFINE h == One(x \in handles)
              r == Running(x, run, rx)
              j == Jobs(x, queue, rx)
              k == Jobs(x, q, rx)
              g == Times(x, given)
              c == Calls(x, Woken(d))
  <2>1. h \in Nat /\ r \in Nat /\ j \in Nat
    BY OwingNat DEF PlaceInv
  <2>2. k \in Nat /\ j = k + g
    BY <1>1
  <2>3. g \in Nat
    BY TimesCount
  <2>4. c \in Nat
    BY OwedNat DEF PlaceInv, Types
  <2>5. /\ One(x \in handles') = h /\ Running(x, run', rx') = r /\ Jobs(x, q, rx') = k
        /\ Calls(x, frames') = c
    OBVIOUS
  <2>. HIDE DEF h, r, j, k, g, c
  <2>6. h + r + k + g + c = h + r + j + c
    BY <2>1, <2>2, <2>3, <2>4
  <2>7. One(x \in handles') + Running(x, run', rx') + Jobs(x, q, rx') + g + Calls(x, frames')
        = h + r + j + c
    BY <2>5, <2>6
  <2>. QED
    BY <2>7 DEF h, r, j, g, c
<1>. QED
  BY <1>2, <1>3, <1>4, <1>5, SettledCounts DEF CountInv

\* adopt_dispatch and finally_wait_dispatch.
LEMMA AdoptedCounts ==
  ASSUME PlaceInv, Inv, CountInv, Types', RunAdopt \/ RunWait
  PROVE  Counted'
<1>1. Ready /\ frames' = Woken(Job.d) /\ UNCHANGED <<rx, run, handles>>
  BY DEF RunAdopt, RunWait
<1>2. Job \in JobSet
  <2>1. queue # <<>> /\ queue \in Seq(JobSet)
    BY <1>1 DEF Ready, PlaceInv, Types
  <2>. QED
    BY <2>1, TailHas DEF Job
<1>3. CASE RunAdopt
  <2>. DEFINE given == <<Job.c, Job.d>>
  <2>1. Job.k = "adopt" /\ Settle(Tail(queue), Job.d, st[Job.c], <<>>, given)
    BY <1>3 DEF RunAdopt
  <2>2. Job.c \in Cell /\ Job.d \in Cell
    BY <1>2, <2>1, JobKinds
  <2>3. given \in Seq(Cell) /\ \A x \in Cell : Times(x, given) = One(Job.c = x) + One(Job.d = x)
    BY <2>2, TimesTwo
  <2>. HIDE DEF given
  <2>4. \A x \in Cell : Times(x, given) = JobW(x, Job, rx)
    BY <1>1, <2>1, <2>3, TakenCounts
  <2>. QED
    BY <1>1, <2>1, <2>2, <2>3, <2>4, PassedOnCounts
<1>4. CASE RunWait
  <2>. DEFINE given == <<Job.s, Job.c, Job.d>>
  <2>1. Job.k = "wait" /\ Settle(Tail(queue), Job.d, Waited(Job), <<>>, given)
    BY <1>4 DEF RunWait
  <2>2. Job.c \in Cell /\ Job.d \in Cell /\ Job.s \in Cell
    BY <1>2, <2>1, JobKinds
  <2>3. given \in Seq(Cell)
        /\ \A x \in Cell : Times(x, given) = One(Job.s = x) + One(Job.c = x) + One(Job.d = x)
    BY <2>2, TimesThree
  <2>. HIDE DEF given
  <2>4. ASSUME NEW x \in Cell
        PROVE  Times(x, given) = JobW(x, Job, rx)
    <3>1. JobW(x, Job, rx) = One(Job.c = x) + One(Job.d = x) + One(Job.s = x)
      BY <1>1, <2>1, TakenCounts
    <3>2. One(Job.c = x) \in Nat /\ One(Job.d = x) \in Nat /\ One(Job.s = x) \in Nat
      BY OneNat
    <3>. QED
      BY <2>3, <3>1, <3>2
  <2>. QED
    BY <1>1, <2>1, <2>2, <2>3, <2>4, PassedOnCounts
<1>. QED
  BY <1>3, <1>4

\* What lists, jobs, frames and the running code owe, before a step and after it.
Placed(x) == Lists(x, list) + Jobs(x, queue, rx) + Calls(x, frames) + Running(x, run, rx)
PlacedAfter(x) ==
    Lists(x, list') + Jobs(x, queue', rx') + Calls(x, frames') + Running(x, run', rx')

\* The rest is the program's and the rejection list's.
LEMMA PlacedOwing ==
  ASSUME Types, Types', NEW x \in Cell
  PROVE  /\ Owing(x) = One(x \in handles) + One(x \in tracked) + Placed(x)
         /\ OwingAfter(x) = One(x \in handles') + One(x \in tracked') + PlacedAfter(x)
         /\ Placed(x) \in Nat /\ PlacedAfter(x) \in Nat
         /\ One(x \in handles) \in Nat /\ One(x \in tracked) \in Nat
         /\ One(x \in handles') \in Nat /\ One(x \in tracked') \in Nat
<1>1. /\ Lists(x, list) \in Nat /\ Jobs(x, queue, rx) \in Nat /\ Calls(x, frames) \in Nat
      /\ Running(x, run, rx) \in Nat
      /\ One(x \in handles) \in Nat /\ One(x \in tracked) \in Nat
  BY OwingNat
<1>2. Owing(x) = One(x \in handles) + One(x \in tracked) + Lists(x, list) + Jobs(x, queue, rx)
                 + Calls(x, frames) + Running(x, run, rx)
  BY DEF Owing, Owed
<1>3. /\ Owing(x) = One(x \in handles) + One(x \in tracked) + Placed(x)
      /\ Placed(x) \in Nat
  BY <1>1, <1>2 DEF Placed
<1>4. /\ OwingAfter(x) = One(x \in handles') + One(x \in tracked') + PlacedAfter(x)
      /\ PlacedAfter(x) \in Nat
      /\ One(x \in handles') \in Nat /\ One(x \in tracked') \in Nat
  <2>. DEFINE h == One(x \in handles')
              t == One(x \in tracked')
              l == Lists(x, list')
              j == Jobs(x, queue', rx')
              c == Calls(x, frames')
              r == Running(x, run', rx')
  <2>1. /\ OwingAfter(x) = h + t + l + j + c + r
        /\ h \in Nat /\ t \in Nat /\ l \in Nat /\ j \in Nat /\ c \in Nat /\ r \in Nat
    BY AfterNat
  <2>2. PlacedAfter(x) = l + j + c + r
    BY DEF PlacedAfter
  <2>. HIDE DEF h, t, l, j, c, r
  <2>3. OwingAfter(x) = h + t + PlacedAfter(x) /\ PlacedAfter(x) \in Nat
    BY <2>1, <2>2
  <2>. QED
    BY <2>1, <2>3 DEF h, t
<1>. QED
  BY <1>1, <1>3, <1>4

\* A step that only moves references between places.
LEMMA MovedCounts ==
  ASSUME Types, Types', Counted, UNCHANGED <<rc, dead, st, handles, tracked>>,
         \A x \in Cell : PlacedAfter(x) = Placed(x)
  PROVE  Counted'
<1>1. ASSUME NEW x \in Cell
      PROVE  OwingAfter(x) = Owing(x)
  <2>1. /\ Owing(x) = One(x \in handles) + One(x \in tracked) + Placed(x)
        /\ OwingAfter(x) = One(x \in handles') + One(x \in tracked') + PlacedAfter(x)
    BY PlacedOwing
  <2>2. One(x \in handles') = One(x \in handles) /\ One(x \in tracked') = One(x \in tracked)
    OBVIOUS
  <2>. QED
    BY <2>1, <2>2
<1>. QED
  BY <1>1, KeptCounted

\* Steps that leave the places alone, and the end of the program's own code.
LEMMA MainEndCounts ==
  ASSUME PlaceInv, CountInv, Types', MainEnd \/ Quiet \/ UNCHANGED vars
  PROVE  Counted'
<1>1. UNCHANGED <<st, rc, list, rx, frames, queue, handles, tracked, dead>>
  BY DEF MainEnd, Quiet, vars
<1>2. UNCHANGED run \/ (run.k \notin {"handler", "next"} /\ run'.k \notin {"handler", "next"})
  BY DEF MainEnd, Quiet, vars, Idle
<1>3. ASSUME NEW x \in Cell
      PROVE  PlacedAfter(x) = Placed(x)
  <2>1. Running(x, run', rx') = Running(x, run, rx)
    <3>1. CASE UNCHANGED run
      BY <1>1, <3>1
    <3>2. CASE run.k \notin {"handler", "next"} /\ run'.k \notin {"handler", "next"}
      BY <3>2, RunningIs
    <3>. QED
      BY <1>2, <3>1, <3>2
  <2>. QED
    BY <1>1, <2>1 DEF Placed, PlacedAfter
<1>. QED
  BY <1>1, <1>3, MovedCounts DEF PlaceInv, CountInv

\* then2_dispatch and finally_dispatch: the record's references are the dispatcher's.
LEMMA RunRecordCounts ==
  ASSUME PlaceInv, CountInv, Types', RunRecord
  PROVE  Counted'
<1>. DEFINE c == Job.c
            d == Job.d
<1>1. /\ Ready /\ Job.k \in {"both", "finally"} /\ queue' = Tail(queue)
      /\ run'.k = "handler" /\ run'.d = d /\ run'.src = c
      /\ UNCHANGED <<st, rc, list, rx, frames, handles, tracked, dead>>
  BY DEF RunRecord
<1>2. ASSUME NEW x \in Cell
      PROVE  PlacedAfter(x) = Placed(x)
  <2>1. /\ Jobs(x, queue, rx) = Jobs(x, Tail(queue), rx) + JobW(x, Job, rx)
        /\ Jobs(x, Tail(queue), rx) \in Nat /\ Running(x, run, rx) = 0
        /\ JobW(x, Job, rx) = One(c = x) + One(d = x)
    BY <1>1, TakenCounts
  <2>2. Running(x, run', rx') = One(d = x) + One(c = x)
    BY <1>1, RunningIs
  <2>3. One(c = x) \in Nat /\ One(d = x) \in Nat
    BY OneNat
  <2>4. Lists(x, list) \in Nat /\ Calls(x, frames) \in Nat
    BY OwingNat DEF PlaceInv
  <2>5. /\ Lists(x, list') = Lists(x, list) /\ Calls(x, frames') = Calls(x, frames)
        /\ Jobs(x, queue', rx') = Jobs(x, Tail(queue), rx)
    BY <1>1
  <2>. HIDE DEF c, d
  <2>. QED
    BY <2>1, <2>2, <2>3, <2>4, <2>5 DEF Placed, PlacedAfter
<1>. QED
  BY <1>1, <1>2, MovedCounts DEF PlaceInv, CountInv

\* attach_then: the record is a link of the list or a job.
LEMMA AttachedHolds ==
  ASSUME Types, NEW q \in Seq(JobSet), NEW c \in Cell, NEW record \in Records,
         AttachThen(q, c, record), NEW x, NEW w, NEW n \in Nat,
         LinkW(x, record) = n, JobW(x, record, w) = n
  PROVE  Lists(x, list') + Jobs(x, queue', w) = Lists(x, list) + Jobs(x, q, w) + n
<1>1. record \in Link /\ record \in JobSet /\ list \in [Cell -> Seq(Link)]
  BY MadeOK DEF Types
<1>2. Lists(x, list) \in Nat /\ Jobs(x, q, w) \in Nat
  BY <1>1, OwedNat
<1>3. CASE st[c] = "pending"
  <2>1. list' = [list EXCEPT ![c] = <<record>> \o @] /\ queue' = q
    BY <1>3 DEF AttachThen
  <2>2. /\ list' \in [Cell -> Seq(Link)] /\ list'[c] = <<record>> \o list[c]
        /\ \A p \in Cell \ {c} : list'[p] = list[p]
    <3>1. list[c] \in Seq(Link)
      BY <1>1
    <3>2. <<record>> \o list[c] \in Seq(Link)
      BY <1>1, <3>1, ConsHas
    <3>. QED
      BY <1>1, <2>1, <3>2
  <2>. DEFINE m == list'
  <2>3. /\ m \in [Cell -> Seq(Link)] /\ m[c] = <<record>> \o list[c]
        /\ \A p \in Cell \ {c} : m[p] = list[p]
    BY <2>2
  <2>. HIDE DEF m
  <2>4. PushedOn(list, m, c, record)
    BY <1>1, <2>3 DEF PushedOn, SameBut
  <2>7. Lists(x, m) = Lists(x, list) + LinkW(x, record)
    BY <1>1, <2>4, ListsGrow
  <2>. QED
    BY <1>2, <2>1, <2>7 DEF m
<1>4. CASE st[c] # "pending"
  <2>1. list' = list /\ queue' = Append(q, record)
    BY <1>4 DEF AttachThen
  <2>2. Jobs(x, Append(q, record), w) = Jobs(x, q, w) + JobW(x, record, w)
    BY <1>1, JobsGrow
  <2>. QED
    BY <1>2, <2>1, <2>2
<1>. QED
  BY <1>3, <1>4

\* adopt_attach_job: the job's references are the record's.
LEMMA RunAttachCounts ==
  ASSUME PlaceInv, CountInv, Types', RunAttach
  PROVE  Counted'
<1>. DEFINE c == Job.c
            d == Job.d
            record == Record("adopt", c, d)
            q == Tail(queue)
            w == rx'
<1>1. /\ Ready /\ Job.k = "attach" /\ AttachThen(q, c, record)
      /\ UNCHANGED <<st, rc, rx, frames, run, handles, tracked, dead>> /\ Types
  BY DEF RunAttach, PlaceInv
<1>2. queue # <<>> /\ queue \in Seq(JobSet)
  BY <1>1 DEF Ready, Types
<1>3. Job \in JobSet /\ q \in Seq(JobSet)
  BY <1>2, TailHas DEF Job
<1>4. c \in Cell /\ d \in Cell /\ record \in Records
  BY <1>1, <1>3, JobKinds, MadeOK
<1>. HIDE DEF q
<1>5. ASSUME NEW x \in Cell
      PROVE  PlacedAfter(x) = Placed(x)
  <2>. DEFINE n == One(c = x) + One(d = x)
  <2>1. n \in Nat
    BY OneNat
  <2>2. /\ Jobs(x, queue, rx) = Jobs(x, q, rx) + JobW(x, Job, rx)
        /\ Jobs(x, q, rx) \in Nat /\ JobW(x, Job, rx) = n
    BY <1>1, TakenCounts DEF q
  <2>3. LinkW(x, record) = n /\ JobW(x, record, w) = n
    <3>. HIDE DEF c, d, w
    <3>. QED
      BY <1>4, RecordW, SMTT(30)
  <2>. HIDE DEF n, record, w, c, d
  <2>4. Lists(x, list') + Jobs(x, queue', w) = Lists(x, list) + Jobs(x, q, w) + n
    BY <1>1, <1>3, <1>4, <2>1, <2>3, AttachedHolds
  <2>5. Jobs(x, q, w) = Jobs(x, q, rx)
    BY <1>1 DEF w
  <2>6. /\ Lists(x, list) \in Nat /\ Calls(x, frames) \in Nat /\ Running(x, run, rx) \in Nat
        /\ Jobs(x, queue, rx) \in Nat
    BY <1>1, OwingNat
  <2>7. /\ Lists(x, list') \in Nat /\ Jobs(x, queue', rx') \in Nat
    BY AfterNat
  <2>8. Calls(x, frames') = Calls(x, frames) /\ Running(x, run', rx') = Running(x, run, rx)
    BY <1>1
  <2>9. Lists(x, list') + Jobs(x, queue', rx') = Lists(x, list) + Jobs(x, queue, rx)
    BY <2>1, <2>2, <2>4, <2>5, <2>6, <2>7 DEF w
  <2>. QED
    BY <2>6, <2>7, <2>8, <2>9 DEF Placed, PlacedAfter
<1>. QED
  BY <1>1, <1>5, MovedCounts DEF CountInv

\* Whoever is owed something is in use.
LEMMA OwnedLive ==
  ASSUME Types, Counted, NEW x \in Cell, x \in handles \/ Placed(x) > 0
  PROVE  st[x] # "free"
<1>1. /\ Owing(x) = One(x \in handles) + One(x \in tracked) + Placed(x)
      /\ Placed(x) \in Nat /\ One(x \in handles) \in Nat /\ One(x \in tracked) \in Nat
  <2>1. /\ Lists(x, list) \in Nat /\ Jobs(x, queue, rx) \in Nat /\ Calls(x, frames) \in Nat
        /\ Running(x, run, rx) \in Nat
        /\ One(x \in handles) \in Nat /\ One(x \in tracked) \in Nat
    BY OwingNat
  <2>2. Owing(x) = One(x \in handles) + One(x \in tracked) + Lists(x, list) + Jobs(x, queue, rx)
                   + Calls(x, frames) + Running(x, run, rx)
    BY DEF Owing, Owed
  <2>. QED
    BY <2>1, <2>2 DEF Placed
<1>2. x \in handles => One(x \in handles) = 1
  BY DEF One
<1>3. Owing(x) > 0
  BY <1>1, <1>2
<1>4. rc[x] = Owing(x) /\ (st[x] = "free" => rc[x] = 0)
  BY DEF Counted
<1>. QED
  BY <1>3, <1>4

\* A step that takes a fresh cell d for the program, and its references.
LEMMA FreshCounts ==
  ASSUME PlaceInv, Counted, Types', dead = {}, NEW d \in Cell, st[d] = "free",
         st' = [st EXCEPT ![d] = "pending"], handles' = handles \cup {d}, UNCHANGED tracked,
         NEW tk \in Seq(Cell), NEW none \in Seq(Cell), \A x \in Cell : Times(x, none) = 0,
         Stakes(tk, none), Times(d, tk) > 0,
         \A x \in Cell : Times(x, tk) > 0 => x = d \/ x \in handles,
         \A x \in Cell : PlacedAfter(x) + One(d = x) = Placed(x) + Times(x, tk)
  PROVE  Counted'
<1>1. Types /\ st \in [Cell -> State] /\ d \notin handles
  BY PoolUnowned DEF PlaceInv, Types, Unowned
<1>2. ASSUME NEW x \in Cell
      PROVE  OwingAfter(x) + Times(x, none) = Owing(x) + Times(x, tk)
  <2>. DEFINE h == One(x \in handles)
              t == One(x \in tracked)
              a == One(d = x)
              b == Times(x, tk)
  <2>1. /\ Owing(x) = h + t + Placed(x)
        /\ OwingAfter(x) = One(x \in handles') + One(x \in tracked') + PlacedAfter(x)
        /\ Placed(x) \in Nat /\ PlacedAfter(x) \in Nat /\ h \in Nat /\ t \in Nat
    BY <1>1, PlacedOwing
  <2>2. a \in Nat /\ b \in Nat /\ Times(x, none) = 0
    BY OneNat, TimesCount
  <2>3. One(x \in handles') = h + a
    <3>1. handles' = handles \cup {d}
      OBVIOUS
    <3>. QED
      BY <1>1, <3>1, OneJoins
  <2>4. One(x \in tracked') = t
    OBVIOUS
  <2>5. PlacedAfter(x) + a = Placed(x) + b
    OBVIOUS
  <2>. DEFINE p == Placed(x)
              p1 == PlacedAfter(x)
              o == Owing(x)
              o1 == OwingAfter(x)
  <2>6. /\ o = h + t + p /\ o1 = (h + a) + t + p1 /\ p1 + a = p + b
        /\ p \in Nat /\ p1 \in Nat /\ h \in Nat /\ t \in Nat /\ a \in Nat /\ b \in Nat
    BY <2>1, <2>2, <2>3, <2>4, <2>5
  <2>. HIDE DEF h, t, a, b, p, p1, o, o1
  <2>7. o1 + 0 = o + b
    BY <2>6
  <2>. QED
    BY <2>2, <2>7 DEF b, o, o1
<1>3. \A x \in Cell : st[x] # "free" => st'[x] # "free"
  BY <1>1
<1>4. ASSUME NEW x \in Cell, st[x] = "free", Times(x, tk) > 0
      PROVE  st'[x] # "free"
  <2>1. x \notin handles
    BY <1>1, <1>4, OwnedLive
  <2>2. x = d
    BY <1>4, <2>1
  <2>. QED
    BY <1>1, <2>2
<1>5. ASSUME NEW x \in Cell, st[x] = "free", st'[x] # "free"
      PROVE  Times(x, tk) > 0 /\ Times(x, none) = 0
  <2>1. x = d
    BY <1>1, <1>5
  <2>. QED
    BY <2>1
<1>. QED
  BY <1>2, <1>3, <1>4, <1>5, StakesCounted

\* A step that takes references on cells in use and gives up others.
LEMMA TradedCounts ==
  ASSUME Types, Counted, Types', dead = {}, UNCHANGED <<handles, tracked>>,
         \A x \in Cell : st'[x] = "free" <=> st[x] = "free",
         NEW tk \in Seq(Cell), NEW gv \in Seq(Cell), Stakes(tk, gv),
         \A x \in Cell : Times(x, tk) > 0 => x \in handles \/ Placed(x) > 0,
         \A x \in Cell : PlacedAfter(x) + Times(x, gv) = Placed(x) + Times(x, tk)
  PROVE  Counted'
<1>1. ASSUME NEW x \in Cell
      PROVE  OwingAfter(x) + Times(x, gv) = Owing(x) + Times(x, tk)
  <2>. DEFINE h == One(x \in handles)
              t == One(x \in tracked)
              a == Times(x, gv)
              b == Times(x, tk)
  <2>1. /\ Owing(x) = h + t + Placed(x)
        /\ OwingAfter(x) = One(x \in handles') + One(x \in tracked') + PlacedAfter(x)
        /\ Placed(x) \in Nat /\ PlacedAfter(x) \in Nat /\ h \in Nat /\ t \in Nat
    BY PlacedOwing
  <2>2. a \in Nat /\ b \in Nat
    BY TimesCount
  <2>3. One(x \in handles') = h /\ One(x \in tracked') = t
    OBVIOUS
  <2>4. PlacedAfter(x) + a = Placed(x) + b
    OBVIOUS
  <2>. DEFINE p == Placed(x)
              p1 == PlacedAfter(x)
              o == Owing(x)
              o1 == OwingAfter(x)
  <2>5. /\ o = h + t + p /\ o1 = h + t + p1 /\ p1 + a = p + b
        /\ p \in Nat /\ p1 \in Nat /\ h \in Nat /\ t \in Nat /\ a \in Nat /\ b \in Nat
    BY <2>1, <2>2, <2>3, <2>4
  <2>. HIDE DEF h, t, a, b, p, p1, o, o1
  <2>6. o1 + a = o + b
    BY <2>5
  <2>. QED
    BY <2>6 DEF a, b, o, o1
<1>2. \A x \in Cell : st[x] # "free" => st'[x] # "free"
  OBVIOUS
<1>3. ASSUME NEW x \in Cell, st[x] = "free", Times(x, tk) > 0
      PROVE  FALSE
  BY <1>3, OwnedLive
<1>. QED
  BY <1>1, <1>2, <1>3, StakesCounted

\* A reaction in a record, on a cell the program holds.
LEMMA DeriveCounts ==
  ASSUME PlaceInv, CountInv, Types', NEW s \in Cell, NEW d \in Cell,
         NEW kind \in {"adopt", "both", "finally"}, Derive(s, d, kind)
  PROVE  Counted'
<1>. DEFINE record == Record(kind, s, d)
            tk == <<d, d, s>>
            none == <<>>
            w == rx'
<1>1. /\ dead = {} /\ s \in handles /\ st[d] = "free" /\ st' = [st EXCEPT ![d] = "pending"]
      /\ handles' = handles \cup {d} /\ AttachThen(queue, s, record) /\ Stakes(tk, none)
      /\ UNCHANGED <<rx, frames, run, tracked>> /\ Types /\ queue \in Seq(JobSet)
  BY DEF Derive, User, PlaceInv, Types
<1>2. record \in Records
  BY MadeOK
<1>3. none \in Seq(Cell) /\ \A x \in Cell : Times(x, none) = 0
  BY TimesNone
<1>4. tk \in Seq(Cell) /\ \A x \in Cell : Times(x, tk) = One(d = x) + One(d = x) + One(s = x)
  BY TimesThree
<1>. HIDE DEF tk, none
<1>5. ASSUME NEW x \in Cell
      PROVE  PlacedAfter(x) + One(d = x) = Placed(x) + Times(x, tk)
  <2>. DEFINE a == One(d = x)
              b == One(s = x)
              n == b + a
  <2>1. a \in Nat /\ b \in Nat /\ n \in Nat
    BY OneNat
  <2>2. LinkW(x, record) = n /\ JobW(x, record, w) = n
    <3>. HIDE DEF w
    <3>. QED
      BY RecordW
  <2>. HIDE DEF a, b, n, record, w
  <2>3. Lists(x, list') + Jobs(x, queue', w) = Lists(x, list) + Jobs(x, queue, w) + n
    BY <1>1, <1>2, <2>1, <2>2, AttachedHolds
  <2>4. Jobs(x, queue, w) = Jobs(x, queue, rx) /\ Jobs(x, queue', w) = Jobs(x, queue', rx')
    BY <1>1 DEF w
  <2>5. /\ Lists(x, list) \in Nat /\ Calls(x, frames) \in Nat /\ Running(x, run, rx) \in Nat
        /\ Jobs(x, queue, rx) \in Nat
    BY <1>1, OwingNat
  <2>6. /\ Lists(x, list') \in Nat /\ Jobs(x, queue', rx') \in Nat
    BY AfterNat
  <2>7. Calls(x, frames') = Calls(x, frames) /\ Running(x, run', rx') = Running(x, run, rx)
    BY <1>1
  <2>8. PlacedAfter(x) = Placed(x) + n
    BY <2>1, <2>3, <2>4, <2>5, <2>6, <2>7 DEF Placed, PlacedAfter
  <2>9. Placed(x) \in Nat
    BY <2>5 DEF Placed
  <2>10. Times(x, tk) = a + a + b
    BY <1>4 DEF a, b
  <2>11. PlacedAfter(x) + a = Placed(x) + Times(x, tk)
    BY <2>1, <2>8, <2>9, <2>10 DEF n
  <2>. QED
    BY <2>11 DEF a
<1>6. Times(d, tk) > 0
  <2>1. One(d = d) = 1 /\ One(s = d) \in Nat
    BY DEF One
  <2>. QED
    BY <1>4, <2>1
<1>7. ASSUME NEW x \in Cell, Times(x, tk) > 0
      PROVE  x = d \/ x \in handles
  <2>1. CASE x = s
    BY <1>1, <2>1
  <2>2. CASE x # s /\ x # d
    <3>1. One(d = x) = 0 /\ One(s = x) = 0
      BY <2>2 DEF One
    <3>. QED
      BY <1>4, <1>7, <3>1
  <2>. QED
    BY <2>1, <2>2
<1>. QED
  BY <1>1, <1>3, <1>4, <1>5, <1>6, <1>7, FreshCounts, ZenonT(40) DEF CountInv

\* then() and catch(): a link, or a job that holds the source besides.
LEMMA ThenCounts ==
  ASSUME PlaceInv, CountInv, Types', NEW s \in Cell, NEW d \in Cell, NEW kind, Then(s, d, kind)
  PROVE  Counted'
<1>. DEFINE none == <<>>
            w == rx'
<1>1. /\ dead = {} /\ s \in handles /\ st[d] = "free" /\ st' = [st EXCEPT ![d] = "pending"]
      /\ handles' = handles \cup {d} /\ Attach(s, d, kind) /\ run.k # "next"
      /\ UNCHANGED <<frames, run, tracked>>
      /\ Types /\ queue \in Seq(JobSet) /\ list \in [Cell -> Seq(Link)]
  BY DEF Then, User, PlaceInv, Types
<1>2. rx' = [rx EXCEPT ![d] = [kind |-> kind, src |-> s]]
  BY <1>1 DEF Attach
<1>3. w[d].src = s /\ (\A e \in Cell : e # d => w[e] = rx[e])
  BY <1>1, <1>2 DEF Types
<1>4. none \in Seq(Cell) /\ \A x \in Cell : Times(x, none) = 0
  BY TimesNone
<1>5. ~Has(queue, ReactJob(d))
  BY <1>1, PoolUnowned DEF CountInv, Unowned, Due
<1>. HIDE DEF w
<1>6. ASSUME NEW x \in Cell
      PROVE  /\ Jobs(x, queue, w) = Jobs(x, queue, rx)
             /\ Running(x, run', w) = Running(x, run, rx)
             /\ Calls(x, frames') = Calls(x, frames)
             /\ Lists(x, list) \in Nat /\ Calls(x, frames) \in Nat /\ Running(x, run, rx) \in Nat
             /\ Jobs(x, queue, rx) \in Nat
             /\ One(d = x) \in Nat /\ One(s = x) \in Nat
  <2>1. \A e \in Cell : Has(queue, ReactJob(e)) => w[e].src = rx[e].src
    BY <1>3, <1>5
  <2>2. Jobs(x, queue, w) = Jobs(x, queue, rx)
    BY <1>1, <2>1, JobsWords
  <2>3. Running(x, run', w) = Running(x, run, rx)
    BY <1>1, RunningIs, SMTT(30)
  <2>. QED
    BY <1>1, <2>2, <2>3, OwingNat, OneNat
<1>7. CASE st[s] = "pending"
  <2>. DEFINE tk == <<d, d>>
  <2>1. list' = [list EXCEPT ![s] = <<Inline(d)>> \o @] /\ queue' = queue /\ Stakes(tk, none)
    BY <1>1, <1>7 DEF Attach
  <2>2. tk \in Seq(Cell) /\ \A x \in Cell : Times(x, tk) = One(d = x) + One(d = x)
    BY TimesTwo
  <2>. HIDE DEF tk, none
  <2>. DEFINE m == list'
  <2>3. /\ m \in [Cell -> Seq(Link)] /\ m[s] = <<Inline(d)>> \o list[s]
        /\ \A p \in Cell \ {s} : m[p] = list[p]
    BY <1>1, <2>1 DEF Types
  <2>. HIDE DEF m
  <2>4. ASSUME NEW x \in Cell
        PROVE  PlacedAfter(x) + One(d = x) = Placed(x) + Times(x, tk)
    <3>. DEFINE link == Inline(d)
                a == One(d = x)
    <3>1. link \in Link /\ m[s] = <<link>> \o list[s]
      BY <2>3, MadeOK
    <3>2. LinkW(x, link) = a
      BY InlineW
    <3>. HIDE DEF link
    <3>0. PushedOn(list, m, s, link)
      BY <1>1, <2>3, <3>1 DEF PushedOn, SameBut, Types
    <3>3. Lists(x, m) = Lists(x, list) + LinkW(x, link)
      BY <3>0, <3>1, ListsGrow
    <3>. DEFINE l == Lists(x, list)
                j == Jobs(x, queue, rx)
                c == Calls(x, frames)
                r == Running(x, run, rx)
    <3>4. PlacedAfter(x) = (l + a) + j + c + r
      BY <1>6, <2>1, <3>2, <3>3 DEF PlacedAfter, m, w
    <3>5. Placed(x) = l + j + c + r
      BY DEF Placed
    <3>6. l \in Nat /\ j \in Nat /\ c \in Nat /\ r \in Nat /\ a \in Nat /\ Times(x, tk) = a + a
      BY <1>6, <2>2
    <3>. HIDE DEF l, j, c, r, a
    <3>7. PlacedAfter(x) + a = Placed(x) + Times(x, tk)
      BY <3>4, <3>5, <3>6
    <3>. QED
      BY <3>7 DEF a
  <2>5. Times(d, tk) > 0
    <3>1. One(d = d) = 1
      BY DEF One
    <3>. QED
      BY <2>2, <3>1
  <2>6. ASSUME NEW x \in Cell, Times(x, tk) > 0
        PROVE  x = d
    BY <2>2, <2>6 DEF One
  <2>. QED
    BY <1>1, <1>4, <2>1, <2>2, <2>4, <2>5, <2>6, FreshCounts, ZenonT(40) DEF CountInv
<1>8. CASE st[s] # "pending"
  <2>. DEFINE tk == <<d, d, s>>
  <2>1. list' = list /\ queue' = Append(queue, ReactJob(d)) /\ Stakes(tk, none)
    BY <1>1, <1>8 DEF Attach
  <2>2. tk \in Seq(Cell) /\ \A x \in Cell : Times(x, tk) = One(d = x) + One(d = x) + One(s = x)
    BY TimesThree
  <2>. HIDE DEF tk, none
  <2>4. ASSUME NEW x \in Cell
        PROVE  PlacedAfter(x) + One(d = x) = Placed(x) + Times(x, tk)
    <3>. DEFINE e == ReactJob(d)
                a == One(d = x)
                b == One(s = x)
    <3>1. e \in JobSet
      BY MadeOK
    <3>2. JobW(x, e, w) = a + One(w[d].src = x)
      BY InlineW
    <3>. HIDE DEF e
    <3>3. Jobs(x, Append(queue, e), w) = Jobs(x, queue, w) + JobW(x, e, w)
      BY <1>1, <3>1, JobsGrow
    <3>. DEFINE l == Lists(x, list)
                j == Jobs(x, queue, rx)
                c == Calls(x, frames)
                r == Running(x, run, rx)
    <3>8. One(w[d].src = x) = b
      BY <1>3
    <3>9. Jobs(x, queue', w) = j + (a + b)
      BY <1>6, <2>1, <3>2, <3>3, <3>8 DEF e
    <3>4. PlacedAfter(x) = l + (j + (a + b)) + c + r
      BY <1>6, <2>1, <3>9 DEF PlacedAfter, w
    <3>5. Placed(x) = l + j + c + r
      BY DEF Placed
    <3>6. /\ l \in Nat /\ j \in Nat /\ c \in Nat /\ r \in Nat /\ a \in Nat /\ b \in Nat
          /\ Times(x, tk) = a + a + b
      BY <1>6, <2>2
    <3>. HIDE DEF l, j, c, r, a, b
    <3>7. PlacedAfter(x) + a = Placed(x) + Times(x, tk)
      BY <3>4, <3>5, <3>6
    <3>. QED
      BY <3>7 DEF a
  <2>5. Times(d, tk) > 0
    <3>1. One(d = d) = 1 /\ One(s = d) \in Nat
      BY DEF One
    <3>. QED
      BY <2>2, <3>1
  <2>6. ASSUME NEW x \in Cell, Times(x, tk) > 0
        PROVE  x = d \/ x \in handles
    <3>1. CASE x = s
      BY <1>1, <3>1
    <3>2. CASE x # s /\ x # d
      <4>1. One(d = x) = 0 /\ One(s = x) = 0
        BY <3>2 DEF One
      <4>. QED
        BY <2>2, <2>6, <4>1
    <3>. QED
      BY <3>1, <3>2
  <2>. QED
    BY <1>1, <1>4, <2>1, <2>2, <2>4, <2>5, <2>6, FreshCounts, ZenonT(40) DEF CountInv
<1>. QED
  BY <1>7, <1>8

\* A set that loses some of its elements, and gains another.
LEMMA OneSwaps ==
  ASSUME NEW S, NEW D \in SUBSET S, NEW c, c \notin S, NEW x
  PROVE  One(x \in (S \ D) \cup {c}) + One(x \in D) = One(x \in S) + One(c = x)
<1>. DEFINE R == S \ D
<1>0. c \notin R
  OBVIOUS
<1>. HIDE DEF R
<1>4. One(x \in R \cup {c}) = One(x \in R) + One(c = x)
  BY <1>0, OneJoins
<1>1. One(x \in (S \ D) \cup {c}) = One(x \in S \ D) + One(c = x)
  BY <1>4 DEF R
<1>2. CASE x \in D
  <2>1. One(x \in S \ D) = 0 /\ One(x \in D) = 1 /\ One(x \in S) = 1
    BY <1>2 DEF One
  <2>2. One(c = x) \in Nat
    BY OneNat
  <2>. QED
    BY <1>1, <2>1, <2>2
<1>3. CASE x \notin D
  <2>1. One(x \in S \ D) = One(x \in S) /\ One(x \in D) = 0
    BY <1>3 DEF One
  <2>2. One(c = x) \in Nat /\ One(x \in S) \in Nat
    BY OneNat
  <2>. QED
    BY <1>1, <2>1, <2>2
<1>. QED
  BY <1>2, <1>3

\* alloc_pending, alloc_fulfilled: the reference the caller gets.
LEMMA NewKeptCounts ==
  ASSUME PlaceInv, CountInv, Types', NEW c \in Cell, NEW s \in {"pending", "fulfilled"}, New(c, s)
  PROVE  Counted'
<1>. DEFINE tk == <<c>>
            none == <<>>
<1>1. /\ dead = {} /\ st[c] = "free" /\ st' = [st EXCEPT ![c] = s] /\ handles' = handles \cup {c}
      /\ Stakes(tk, none) /\ UNCHANGED <<list, rx, frames, queue, run, tracked>> /\ Types
  BY DEF New, User, PlaceInv
<1>2. tk \in Seq(Cell) /\ \A x \in Cell : Times(x, tk) = One(c = x)
  BY TimesOne
<1>3. none \in Seq(Cell) /\ \A x \in Cell : Times(x, none) = 0
  BY TimesNone
<1>. HIDE DEF tk, none
<1>4. c \notin handles
  BY <1>1, PoolUnowned DEF CountInv, Unowned
<1>5. st'[c] # "free" /\ \A x \in Cell : x # c => st'[x] = st[x]
  BY <1>1 DEF Types
<1>6. ASSUME NEW x \in Cell
      PROVE  OwingAfter(x) + Times(x, none) = Owing(x) + Times(x, tk)
  <2>. DEFINE h == One(x \in handles)
              h1 == One(x \in handles')
              t == One(x \in tracked)
              a == One(c = x)
              p == Placed(x)
              p1 == PlacedAfter(x)
              o == Owing(x)
              o1 == OwingAfter(x)
  <2>1. /\ o = h + t + p /\ o1 = h1 + One(x \in tracked') + p1 /\ p \in Nat
        /\ h \in Nat /\ t \in Nat /\ a \in Nat
    BY <1>1, PlacedOwing, OneNat
  <2>2. One(x \in tracked') = t /\ p1 = p
    BY <1>1 DEF Placed, PlacedAfter
  <2>3. One(x \in handles \cup {c}) = h + a
    BY <1>4, OneJoins
  <2>4. h1 = h + a
    BY <1>1, <2>3
  <2>. HIDE DEF h, h1, t, a, p, p1, o, o1
  <2>5. o1 + 0 = o + a
    BY <2>1, <2>2, <2>4
  <2>. QED
    BY <1>2, <1>3, <2>5 DEF o, o1, a
<1>7. ASSUME NEW x \in Cell, x = c
      PROVE  Times(x, tk) > 0
  <2>1. One(c = x) = 1
    BY <1>7 DEF One
  <2>. QED
    BY <1>2, <2>1
<1>8. \A x \in Cell : st[x] # "free" => st'[x] # "free"
  BY <1>5
<1>9. ASSUME NEW x \in Cell, st[x] = "free", Times(x, tk) > 0
      PROVE  st'[x] # "free"
  <2>1. CASE x # c
    <3>1. One(c = x) = 0
      BY <2>1 DEF One
    <3>. QED
      BY <1>2, <1>9, <3>1
  <2>. QED
    BY <1>5, <2>1
<1>10. ASSUME NEW x \in Cell, st[x] = "free", st'[x] # "free"
       PROVE  Times(x, tk) > 0 /\ Times(x, none) = 0
  BY <1>3, <1>5, <1>7, <1>10
<1>. QED
  BY <1>1, <1>2, <1>3, <1>6, <1>8, <1>9, <1>10, StakesCounted DEF CountInv

\* alloc_rejected: the caller's, the list's, and those of the entries that go.
LEMMA NewRejectedCounts ==
  ASSUME PlaceInv, CountInv, Types', NEW c \in Cell, New(c, "rejected")
  PROVE  Counted'
<1>1. PICK dropped \in {{}, Observed} : Track(c, dropped) /\ Stakes(<<c, c>>, AsSeq(dropped))
  BY DEF New
<1>. DEFINE tk == <<c, c>>
            gv == AsSeq(dropped)
<1>2. /\ dead = {} /\ st[c] = "free" /\ st' = [st EXCEPT ![c] = "rejected"]
      /\ handles' = handles \cup {c} /\ Stakes(tk, gv)
      /\ UNCHANGED <<list, rx, frames, queue, run>> /\ Types
  BY <1>1 DEF New, User, PlaceInv
<1>3. dropped \in SUBSET tracked /\ dropped \in SUBSET Cell
  BY DEF Observed, CountInv, WordsOK, RejectedOnly
<1>4. tracked' = (tracked \ dropped) \cup {c}
  BY <1>1 DEF Track
<1>5. tk \in Seq(Cell) /\ \A x \in Cell : Times(x, tk) = One(c = x) + One(c = x)
  BY TimesTwo
<1>6. gv \in Seq(Cell) /\ \A x \in Cell : Times(x, gv) = One(x \in dropped)
  BY <1>3, TimesSet
<1>. HIDE DEF tk, gv
<1>7. c \notin handles /\ c \notin tracked
  BY <1>2, PoolUnowned DEF CountInv, Unowned
<1>8. st'[c] # "free" /\ \A x \in Cell : x # c => st'[x] = st[x]
  BY <1>2 DEF Types
<1>9. ASSUME NEW x \in Cell
      PROVE  OwingAfter(x) + Times(x, gv) = Owing(x) + Times(x, tk)
  <2>. DEFINE h == One(x \in handles)
              h1 == One(x \in handles')
              t == One(x \in tracked)
              t1 == One(x \in tracked')
              a == One(c = x)
              e == One(x \in dropped)
              p == Placed(x)
              p1 == PlacedAfter(x)
              o == Owing(x)
              o1 == OwingAfter(x)
  <2>1. /\ o = h + t + p /\ o1 = h1 + t1 + p1 /\ p \in Nat
        /\ h \in Nat /\ t \in Nat /\ a \in Nat /\ t1 \in Nat /\ e \in Nat
    BY <1>2, PlacedOwing, OneNat
  <2>2. p1 = p
    BY <1>2 DEF Placed, PlacedAfter
  <2>3. One(x \in handles \cup {c}) = h + a
    BY <1>7, OneJoins
  <2>4. h1 = h + a
    BY <1>2, <2>3
  <2>5. One(x \in (tracked \ dropped) \cup {c}) + e = t + a
    BY <1>3, <1>7, OneSwaps
  <2>6. t1 + e = t + a
    BY <1>4, <2>5
  <2>. HIDE DEF h, h1, t, t1, a, e, p, p1, o, o1
  <2>7. o1 + e = o + (a + a)
    BY <2>1, <2>2, <2>4, <2>6
  <2>. QED
    BY <1>5, <1>6, <2>7 DEF o, o1, a, e
<1>10. ASSUME NEW x \in Cell, x = c
       PROVE  Times(x, tk) > 0 /\ Times(x, gv) = 0
  <2>1. One(c = x) = 1 /\ One(x \in dropped) = 0
    BY <1>3, <1>7, <1>10 DEF One
  <2>. QED
    BY <1>5, <1>6, <2>1
<1>11. \A x \in Cell : st[x] # "free" => st'[x] # "free"
  BY <1>8
<1>12. ASSUME NEW x \in Cell, st[x] = "free", Times(x, tk) > 0
       PROVE  st'[x] # "free"
  <2>1. CASE x # c
    <3>1. One(c = x) = 0
      BY <2>1 DEF One
    <3>. QED
      BY <1>5, <1>12, <3>1
  <2>. QED
    BY <1>8, <2>1
<1>13. ASSUME NEW x \in Cell, st[x] = "free", st'[x] # "free"
       PROVE  Times(x, tk) > 0 /\ Times(x, gv) = 0
  BY <1>8, <1>10, <1>13
<1>. QED
  BY <1>2, <1>5, <1>6, <1>9, <1>11, <1>12, <1>13, StakesCounted DEF CountInv

\* The program gives up the reference it has.
LEMMA DropCounts ==
  ASSUME PlaceInv, CountInv, Types', NEW c \in Cell, Drop(c)
  PROVE  Counted'
<1>. DEFINE none == <<>>
            gv == <<c>>
<1>1. /\ dead = {} /\ c \in handles /\ handles' = handles \ {c} /\ Stakes(none, gv)
      /\ UNCHANGED <<st, list, rx, frames, queue, run, tracked>> /\ Types
  BY DEF Drop, User, PlaceInv
<1>2. gv \in Seq(Cell) /\ \A x \in Cell : Times(x, gv) = One(c = x)
  BY TimesOne
<1>3. none \in Seq(Cell) /\ \A x \in Cell : Times(x, none) = 0
  BY TimesNone
<1>. HIDE DEF gv, none
<1>4. ASSUME NEW x \in Cell
      PROVE  OwingAfter(x) + Times(x, gv) = Owing(x) + Times(x, none)
  <2>. DEFINE h == One(x \in handles)
              h1 == One(x \in handles')
              t == One(x \in tracked)
              a == One(c = x)
              p == Placed(x)
              p1 == PlacedAfter(x)
              o == Owing(x)
              o1 == OwingAfter(x)
  <2>1. /\ o = h + t + p /\ o1 = h1 + One(x \in tracked') + p1 /\ p \in Nat
        /\ h1 \in Nat /\ t \in Nat /\ a \in Nat
    BY <1>1, PlacedOwing, OneNat
  <2>2. One(x \in tracked') = t /\ p1 = p
    BY <1>1 DEF Placed, PlacedAfter
  <2>3. h = One(x \in handles \ {c}) + a
    BY <1>1, OneLeaves
  <2>4. h = h1 + a
    BY <1>1, <2>3
  <2>. HIDE DEF h, h1, t, a, p, p1, o, o1
  <2>5. o1 + a = o + 0
    BY <2>1, <2>2, <2>4
  <2>. QED
    BY <1>2, <1>3, <2>5 DEF o, o1, a
<1>5. /\ \A x \in Cell : st[x] # "free" => st'[x] # "free"
      /\ \A x \in Cell : st[x] = "free" /\ Times(x, none) > 0 => st'[x] # "free"
      /\ \A x \in Cell : st[x] = "free" /\ st'[x] # "free"
                           => Times(x, none) > 0 /\ Times(x, gv) = 0
  BY <1>1, <1>3
<1>. QED
  BY <1>1, <1>2, <1>3, <1>4, <1>5, StakesCounted DEF CountInv

\* The body of f suspends with the words new, an entry for it heading the list of c.
ParksAt(f, c, new) ==
  /\ new \in Row /\ new.at = "parked"
  /\ frames' = [frames EXCEPT ![f] = new]
  /\ list' = [list EXCEPT ![c] = <<Parked(f)>> \o @]

\* A body parked on a pending promise: the list's entry is no reference.
LEMMA AwaitParks ==
  ASSUME Types, NEW f \in Frame, NEW c \in Cell, NEW new, ParksAt(f, c, new),
         frames[f].at # "queued", NEW x \in Cell
  PROVE  /\ Lists(x, list') = Lists(x, list)
         /\ Calls(x, frames') + One(frames[f].result = x)
              = Calls(x, frames) + One(new.result = x)
<1>. DEFINE m == list'
            link == Parked(f)
            words == frames'
<1>1. /\ list \in [Cell -> Seq(Link)] /\ frames \in [Frame -> Row]
      /\ Lists(x, list) \in Nat /\ Calls(x, frames) \in Nat
  BY OwingNat DEF Types
<1>2. link \in Link
  BY MadeOK
<1>4. words \in [Frame -> Row] /\ words[f] = new /\ \A g \in Frame \ {f} : words[g] = frames[g]
  BY <1>1 DEF ParksAt
<1>5. link = Parked(f)
  OBVIOUS
<1>. HIDE DEF link
<1>6. <<link>> \o list[c] \in Seq(Link)
  BY <1>1, <1>2, ConsHas
<1>7. /\ m \in [Cell -> Seq(Link)] /\ m[c] = <<link>> \o list[c]
      /\ \A p \in Cell \ {c} : m[p] = list[p]
  BY <1>1, <1>5, <1>6 DEF ParksAt
<1>. HIDE DEF m, words
<1>20. PushedOn(list, m, c, link)
  BY <1>1, <1>7 DEF PushedOn, SameBut
<1>8. Lists(x, m) = Lists(x, list) + LinkW(x, link)
  BY <1>2, <1>20, ListsGrow
<1>9. LinkW(x, link) = 0
  BY <1>5, FrameW
<1>10. Lists(x, m) = Lists(x, list)
  BY <1>1, <1>8, <1>9
<1>21. RowsBut(frames, words, f)
  BY <1>1, <1>4 DEF RowsBut
<1>11. Calls(x, words) = Calls(x, frames) - RowW(x, frames[f]) + RowW(x, words[f])
  BY <1>21, CallsAt
<1>12. frames[f] \in Row
  BY <1>1
<1>22. new \in Row /\ new.at # "queued"
  BY DEF ParksAt
<1>13. RowW(x, frames[f]) = One(frames[f].result = x) /\ RowW(x, new) = One(new.result = x)
  BY <1>12, <1>22, RowHolds
<1>. DEFINE a == One(frames[f].result = x)
            b == One(new.result = x)
            k == Calls(x, frames)
            k1 == Calls(x, words)
<1>14. k1 = k - a + b
  BY <1>4, <1>11, <1>13
<1>15. k \in Nat /\ a \in Nat /\ b \in Nat
  BY <1>1, OneNat
<1>. HIDE DEF a, b, k, k1
<1>16. k1 + a = k + b
  BY <1>14, <1>15
<1>. QED
  BY <1>10, <1>16 DEF a, b, k, k1, m, words

\* A body whose resumption is queued holds the settled promise it awaits.
LEMMA AwaitQueues ==
  ASSUME Types, NEW f \in Frame, NEW new \in Row, new.at = "queued",
         frames[f].at # "queued", NEW x \in Cell,
         frames' = [frames EXCEPT ![f] = new]
  PROVE  Calls(x, frames') + One(frames[f].result = x)
           = Calls(x, frames) + One(new.result = x) + One(new.src = x)
<1>. DEFINE words == frames'
<1>1. frames \in [Frame -> Row] /\ Calls(x, frames) \in Nat
  BY OwingNat DEF Types
<1>2. words \in [Frame -> Row] /\ words[f] = new /\ \A g \in Frame \ {f} : words[g] = frames[g]
  BY <1>1
<1>. HIDE DEF words
<1>20. RowsBut(frames, words, f)
  BY <1>1, <1>2 DEF RowsBut
<1>3. Calls(x, words) = Calls(x, frames) - RowW(x, frames[f]) + RowW(x, words[f])
  BY <1>20, CallsAt
<1>4. frames[f] \in Row
  BY <1>1
<1>5. RowW(x, frames[f]) = One(frames[f].result = x)
  BY <1>4, RowHolds
<1>6. RowW(x, new) = One(new.at = "queued" /\ new.src = x) + One(new.result = x)
  BY RowIs
<1>7. One(new.at = "queued" /\ new.src = x) = One(new.src = x)
  BY DEF One
<1>. DEFINE a == One(frames[f].result = x)
            b == One(new.result = x)
            e == One(new.src = x)
            k == Calls(x, frames)
            k1 == Calls(x, words)
<1>8. k1 = k - a + (e + b)
  BY <1>2, <1>3, <1>5, <1>6, <1>7
<1>9. k \in Nat /\ a \in Nat /\ b \in Nat /\ e \in Nat
  BY <1>1, OneNat
<1>. HIDE DEF a, b, e, k, k1
<1>10. k1 + a = k + b + e
  BY <1>8, <1>9
<1>. QED
  BY <1>10 DEF a, b, e, k, k1, words

\* Its job holds nothing.
LEMMA ResumesHold ==
  ASSUME Types, NEW f \in Frame, NEW x \in Cell, NEW w
  PROVE  Jobs(x, Append(queue, ResumeJob(f)), w) = Jobs(x, queue, w)
<1>. DEFINE job == ResumeJob(f)
<1>1. queue \in Seq(JobSet) /\ list \in [Cell -> Seq(Link)]
  BY DEF Types
<1>2. Jobs(x, queue, w) \in Nat
  BY <1>1, OwedNat
<1>3. job \in JobSet /\ JobW(x, job, w) = 0
  BY MadeOK, FrameW
<1>. HIDE DEF job
<1>4. Jobs(x, Append(queue, job), w) = Jobs(x, queue, w) + JobW(x, job, w)
  BY <1>1, <1>3, JobsGrow
<1>5. Jobs(x, Append(queue, job), w) = Jobs(x, queue, w)
  BY <1>2, <1>3, <1>4
<1>. QED
  BY <1>5 DEF job

\* __torajs_frame_await_promise: what it takes is what the frame's words name.
LEMMA AwaitHolds ==
  ASSUME Types, NEW f \in Frame, NEW c \in Cell, NEW row \in Row,
         frames[f].at # "queued", NEW taken \in Seq(Cell), FrameAwait(f, c, row, taken)
  PROVE  \E tk \in Seq(Cell) :
            /\ Stakes(tk, <<>>)
            /\ \A x \in Cell :
                  /\ Lists(x, list') + Jobs(x, queue', rx) + Calls(x, frames')
                       + One(frames[f].result = x) + Times(x, taken)
                     = Lists(x, list) + Jobs(x, queue, rx) + Calls(x, frames)
                       + One(row.result = x) + Times(x, tk)
                  /\ Times(x, tk) > 0 => x = c \/ Times(x, taken) > 0
                  /\ Times(x, taken) > 0 => Times(x, tk) > 0
<1>1. CASE st[c] = "pending"
  <2>. DEFINE new == [row EXCEPT !.at = "parked", !.src = c]
  <2>0. new \in Row /\ new.at = "parked" /\ new.result = row.result
    BY DEF Row, Word
  <2>1. /\ frames' = [frames EXCEPT ![f] = new]
        /\ list' = [list EXCEPT ![c] = <<Parked(f)>> \o @]
        /\ Stakes(taken, <<>>) /\ queue' = queue
    BY <1>1 DEF FrameAwait
  <2>20. ParksAt(f, c, new)
    BY <2>0, <2>1 DEF ParksAt
  <2>. HIDE DEF new
  <2>2. ASSUME NEW x \in Cell
        PROVE  Lists(x, list') + Jobs(x, queue', rx) + Calls(x, frames')
                 + One(frames[f].result = x) + Times(x, taken)
               = Lists(x, list) + Jobs(x, queue, rx) + Calls(x, frames)
                 + One(row.result = x) + Times(x, taken)
    <3>. DEFINE l == Lists(x, list)
                l1 == Lists(x, list')
                j == Jobs(x, queue, rx)
                j1 == Jobs(x, queue', rx)
                k == Calls(x, frames)
                k1 == Calls(x, frames')
                a == One(frames[f].result = x)
                b == One(row.result = x)
                n == Times(x, taken)
    <3>0. /\ Lists(x, list') = Lists(x, list)
          /\ Calls(x, frames') + One(frames[f].result = x)
               = Calls(x, frames) + One(new.result = x)
      BY <2>20, AwaitParks
    <3>1. l1 = l /\ k1 + a = k + b
      BY <2>0, <3>0
    <3>2. j1 = j
      BY <2>1
    <3>3. l \in Nat /\ j \in Nat /\ k \in Nat /\ a \in Nat /\ b \in Nat
      BY OwingNat, OneNat
    <3>4. n \in Nat
      BY TimesCount
    <3>5. k1 \in Nat
      BY OwedNat DEF Types
    <3>. HIDE DEF l, l1, j, j1, k, k1, a, b, n
    <3>6. l1 + j1 + k1 + a + n = l + j + k + b + n
      BY <3>1, <3>2, <3>3, <3>4, <3>5
    <3>. QED
      BY <3>6 DEF l, l1, j, j1, k, k1, a, b, n
  <2>. QED
    BY <2>1, <2>2
<1>2. CASE st[c] # "pending"
  <2>. DEFINE more == <<c>>
              tk == taken \o more
  <2>. DEFINE new == [row EXCEPT !.at = "queued", !.src = c]
  <2>0. new \in Row /\ new.at = "queued" /\ new.src = c /\ new.result = row.result
    BY DEF Row, Word
  <2>1. /\ frames' = [frames EXCEPT ![f] = new]
        /\ queue' = Append(queue, ResumeJob(f))
        /\ Stakes(tk, <<>>) /\ list' = list
    BY <1>2 DEF FrameAwait
  <2>. HIDE DEF new
  <2>2. more \in Seq(Cell) /\ \A x \in Cell : Times(x, more) = One(c = x)
    BY TimesOne
  <2>. HIDE DEF more
  <2>3. tk \in Seq(Cell) /\ \A x \in Cell : Times(x, tk) = Times(x, taken) + Times(x, more)
    BY <2>2, TimesConcat
  <2>. HIDE DEF tk
  <2>4. ASSUME NEW x \in Cell
        PROVE  /\ Lists(x, list') + Jobs(x, queue', rx) + Calls(x, frames')
                    + One(frames[f].result = x) + Times(x, taken)
                  = Lists(x, list) + Jobs(x, queue, rx) + Calls(x, frames)
                    + One(row.result = x) + Times(x, tk)
               /\ Times(x, taken) > 0 => Times(x, tk) > 0
               /\ x # c => Times(x, tk) = Times(x, taken)
    <3>0. Calls(x, frames') + One(frames[f].result = x)
            = Calls(x, frames) + One(new.result = x) + One(new.src = x)
      BY <2>0, <2>1, AwaitQueues, ZenonT(40)
    <3>00. Jobs(x, Append(queue, ResumeJob(f)), rx) = Jobs(x, queue, rx)
      BY ResumesHold
    <3>. DEFINE l == Lists(x, list)
                l1 == Lists(x, list')
                j == Jobs(x, queue, rx)
                j1 == Jobs(x, queue', rx)
                k == Calls(x, frames)
                k1 == Calls(x, frames')
                a == One(frames[f].result = x)
                b == One(row.result = x)
                e == One(c = x)
                n == Times(x, taken)
                n1 == Times(x, tk)
    <3>1. j1 = j /\ k1 + a = k + b + e
      BY <2>0, <2>1, <3>0, <3>00
    <3>2. l1 = l
      BY <2>1
    <3>3. l \in Nat /\ j \in Nat /\ k \in Nat /\ a \in Nat /\ b \in Nat /\ e \in Nat
      BY OwingNat, OneNat
    <3>4. n \in Nat
      BY TimesCount
    <3>5. k1 \in Nat
      BY OwedNat DEF Types
    <3>6. n1 = n + e
      BY <2>2, <2>3
    <3>7. x # c => e = 0
      BY DEF One
    <3>. HIDE DEF l, l1, j, j1, k, k1, a, b, n, e, n1
    <3>8. l1 + j1 + k1 + a + n = l + j + k + b + n1
      BY <3>1, <3>2, <3>3, <3>4, <3>5, <3>6
    <3>9. (n > 0 => n1 > 0) /\ (x # c => n1 = n)
      BY <3>3, <3>4, <3>6, <3>7
    <3>. QED
      BY <3>8, <3>9 DEF l, l1, j, j1, k, k1, a, b, n, n1
  <2>5. ASSUME NEW x \in Cell, Times(x, tk) > 0
        PROVE  x = c \/ Times(x, taken) > 0
    BY <2>4, <2>5
  <2>. QED
    BY <2>1, <2>3, <2>4, <2>5
<1>. QED
  BY <1>1, <1>2

\* A call of an async function: its result is new, and the frame holds it.
LEMMA CallCounts ==
  ASSUME PlaceInv, CountInv, Types', NEW f \in Frame, NEW r \in Cell, NEW c \in Cell,
         CallAsync(f, r, c)
  PROVE  Counted'
<1>. DEFINE row == [NoFrame EXCEPT !.result = r]
            taken == <<r, r>>
            none == <<>>
<1>1. /\ dead = {} /\ c \in handles /\ st[r] = "free" /\ st' = [st EXCEPT ![r] = "pending"]
      /\ handles' = handles \cup {r} /\ FrameAwait(f, c, row, taken)
      /\ frames[f].at = "none" /\ UNCHANGED <<rx, run, tracked>> /\ Types
  BY DEF CallAsync, User, PlaceInv
<1>2. row \in Row /\ row.result = r
  BY ClearWords DEF NoFrame
<1>3. taken \in Seq(Cell) /\ \A x \in Cell : Times(x, taken) = One(r = x) + One(r = x)
  BY TimesTwo
<1>4. none \in Seq(Cell) /\ \A x \in Cell : Times(x, none) = 0
  BY TimesNone
<1>5. frames[f].at # "queued" /\ frames[f].result = NULL
  BY <1>1 DEF CountInv, WordsOK, RowOK
<1>6. \A x \in Cell : One(frames[f].result = x) = 0 /\ One(row.result = x) = One(r = x)
  BY <1>2, <1>5, CellAssumption DEF One
<1>. HIDE DEF row, taken
<1>7. PICK tk \in Seq(Cell) :
         /\ Stakes(tk, <<>>)
         /\ \A x \in Cell :
               /\ Lists(x, list') + Jobs(x, queue', rx) + Calls(x, frames')
                    + One(frames[f].result = x) + Times(x, taken)
                  = Lists(x, list) + Jobs(x, queue, rx) + Calls(x, frames)
                    + One(row.result = x) + Times(x, tk)
               /\ Times(x, tk) > 0 => x = c \/ Times(x, taken) > 0
               /\ Times(x, taken) > 0 => Times(x, tk) > 0
  BY <1>1, <1>2, <1>3, <1>5, AwaitHolds
<1>8. Stakes(tk, none)
  BY <1>7
<1>. HIDE DEF none
<1>9. ASSUME NEW x \in Cell
      PROVE  PlacedAfter(x) + One(r = x) = Placed(x) + Times(x, tk)
  <2>. DEFINE l == Lists(x, list)
              l1 == Lists(x, list')
              j == Jobs(x, queue, rx)
              j1 == Jobs(x, queue', rx)
              k == Calls(x, frames)
              k1 == Calls(x, frames')
              u == Running(x, run, rx)
              a == One(r = x)
              n == Times(x, tk)
              p == Placed(x)
              p1 == PlacedAfter(x)
  <2>1. l1 + j1 + k1 + 0 + (a + a) = l + j + k + a + n
    BY <1>3, <1>6, <1>7
  <2>2. p = l + j + k + u /\ p1 = l1 + j1 + k1 + u
    BY <1>1 DEF Placed, PlacedAfter
  <2>3. l \in Nat /\ j \in Nat /\ k \in Nat /\ u \in Nat /\ a \in Nat
    BY <1>1, OwingNat, OneNat
  <2>4. n \in Nat
    BY TimesCount
  <2>5. l1 \in Nat /\ k1 \in Nat
    BY AfterNat
  <2>6. Jobs(x, queue', rx') \in Nat
    BY AfterNat
  <2>7. j1 \in Nat
    BY <1>1, <2>6
  <2>. HIDE DEF l, l1, j, j1, k, k1, u, a, n, p, p1
  <2>8. p1 + a = p + n
    BY <2>1, <2>2, <2>3, <2>4, <2>5, <2>7
  <2>. QED
    BY <2>8 DEF a, n, p, p1
<1>10. Times(r, tk) > 0
  <2>1. One(r = r) = 1
    BY DEF One
  <2>2. Times(r, taken) > 0
    BY <1>3, <2>1
  <2>. QED
    BY <1>7, <2>2
<1>11. ASSUME NEW x \in Cell, Times(x, tk) > 0
       PROVE  x = r \/ x \in handles
  <2>1. CASE x # r
    <3>1. One(r = x) = 0
      BY <2>1 DEF One
    <3>2. Times(x, taken) = 0
      BY <1>3, <3>1
    <3>3. x = c
      BY <1>7, <1>11, <3>2
    <3>. QED
      BY <1>1, <3>3
  <2>. QED
    BY <2>1
<1>. QED
  BY <1>1, <1>4, <1>8, <1>9, <1>10, <1>11, FreshCounts DEF CountInv

\* A body that awaits again.
LEMMA BodyAwaitCounts ==
  ASSUME PlaceInv, CountInv, Types', NEW c \in Cell, BodyAwait(c)
  PROVE  Counted'
<1>. DEFINE f == run.f
            row == frames[f]
            none == <<>>
<1>1. /\ dead = {} /\ c \in handles /\ run.k = "body" /\ FrameAwait(f, c, row, none)
      /\ run' = Idle /\ UNCHANGED <<st, rx, handles, tracked>> /\ Types
  BY DEF BodyAwait, User, PlaceInv
<1>2. f \in Frame /\ frames \in [Frame -> Row]
  BY <1>1 DEF Types, RunOK
<1>3. row \in Row
  BY <1>2
<1>4. row.at = "running"
  BY <1>1, <1>2 DEF PlaceInv, FramesPlaced, At, Runs
<1>5. frames[f].at # "queued"
  BY <1>4
<1>6. none \in Seq(Cell) /\ \A x \in Cell : Times(x, none) = 0
  BY TimesNone
<1>. DEFINE more == none
<1>7. /\ more \in Seq(Cell) /\ FrameAwait(f, c, row, more) /\ frames[f] = row
      /\ \A x \in Cell : Times(x, more) = 0
  BY <1>1, <1>6
<1>. HIDE DEF more, f, row
<1>8. PICK tk \in Seq(Cell) :
         /\ Stakes(tk, <<>>)
         /\ \A x \in Cell :
               /\ Lists(x, list') + Jobs(x, queue', rx) + Calls(x, frames')
                    + One(frames[f].result = x) + Times(x, more)
                  = Lists(x, list) + Jobs(x, queue, rx) + Calls(x, frames)
                    + One(row.result = x) + Times(x, tk)
               /\ Times(x, tk) > 0 => x = c \/ Times(x, more) > 0
               /\ Times(x, more) > 0 => Times(x, tk) > 0
  BY <1>1, <1>2, <1>3, <1>5, <1>7, AwaitHolds
<1>9. Stakes(tk, none)
  BY <1>8
<1>. HIDE DEF none
<1>10. ASSUME NEW x \in Cell
       PROVE  PlacedAfter(x) + Times(x, none) = Placed(x) + Times(x, tk)
  <2>. DEFINE l == Lists(x, list)
              l1 == Lists(x, list')
              j == Jobs(x, queue, rx)
              j1 == Jobs(x, queue', rx)
              k == Calls(x, frames)
              k1 == Calls(x, frames')
              a == One(row.result = x)
              n == Times(x, tk)
              p == Placed(x)
              p1 == PlacedAfter(x)
  <2>1. l1 + j1 + k1 + a + 0 = l + j + k + a + n
    BY <1>7, <1>8
  <2>2. Running(x, run, rx) = 0 /\ Running(x, run', rx') = 0
    <3>1. Running(x, run, rx) = 0
      BY <1>1, RunningIs
    <3>2. Idle.k = "idle"
      BY DEF Idle
    <3>3. Running(x, Idle, rx') = 0
      BY <3>2, RunningIs
    <3>. QED
      BY <1>1, <3>1, <3>3
  <2>3. p = l + j + k + 0 /\ p1 = l1 + j1 + k1 + 0
    BY <1>1, <2>2 DEF Placed, PlacedAfter
  <2>4. l \in Nat /\ j \in Nat /\ k \in Nat /\ a \in Nat
    BY <1>1, OwingNat, OneNat
  <2>5. n \in Nat
    BY TimesCount
  <2>6. l1 \in Nat /\ k1 \in Nat
    BY AfterNat
  <2>7. Jobs(x, queue', rx') \in Nat
    BY AfterNat
  <2>8. j1 \in Nat
    BY <1>1, <2>7
  <2>. HIDE DEF l, l1, j, j1, k, k1, a, n, p, p1
  <2>9. p1 + 0 = p + n
    BY <2>1, <2>3, <2>4, <2>5, <2>6, <2>8
  <2>. QED
    BY <1>6, <2>9 DEF n, p, p1
<1>11. ASSUME NEW x \in Cell, Times(x, tk) > 0
       PROVE  x \in handles \/ Placed(x) > 0
  <2>1. x = c
    BY <1>7, <1>8, <1>11
  <2>. QED
    BY <1>1, <2>1
<1>. QED
  BY <1>1, <1>6, <1>9, <1>10, <1>11, TradedCounts DEF CountInv

\* A body that awaits a value: its own job, that holds nothing.
LEMMA BodyAwaitValueCounts ==
  ASSUME PlaceInv, CountInv, Types', BodyAwaitValue
  PROVE  Counted'
<1>. DEFINE f == run.f
            new == [frames[f] EXCEPT !.at = "queued"]
            words == frames'
<1>1. /\ run.k = "body" /\ frames' = [frames EXCEPT ![f] = new]
      /\ queue' = Append(queue, ResumeJob(f)) /\ run' = Idle
      /\ UNCHANGED <<st, rc, list, rx, handles, tracked, dead>> /\ Types
  BY DEF BodyAwaitValue, PlaceInv
<1>2. f \in Frame /\ frames \in [Frame -> Row] /\ frames[f] \in Row
  BY <1>1 DEF Types, RunOK
<1>3. frames[f].at = "running"
  BY <1>1, <1>2 DEF PlaceInv, FramesPlaced, At, Runs
<1>4. frames[f].src = NULL
  BY <1>2, <1>3 DEF CountInv, WordsOK, RowOK
<1>5. new \in Row /\ new.src = NULL /\ new.result = frames[f].result
  BY <1>2, <1>4 DEF Row
<1>. HIDE DEF f, new
<1>6. words \in [Frame -> Row] /\ words[f] = new /\ \A g \in Frame \ {f} : words[g] = frames[g]
  BY <1>1, <1>2, <1>5
<1>. HIDE DEF words
<1>20. RowsBut(frames, words, f)
  BY <1>2, <1>6 DEF RowsBut
<1>7. ASSUME NEW x \in Cell
      PROVE  PlacedAfter(x) = Placed(x)
  <2>1. Calls(x, words) = Calls(x, frames) - RowW(x, frames[f]) + RowW(x, words[f])
    BY <1>20, CallsAt
  <2>2. RowW(x, frames[f]) = One(frames[f].result = x) /\ RowW(x, new) = One(new.result = x)
    BY <1>2, <1>4, <1>5, RowHolds
  <2>3. Calls(x, frames) \in Nat /\ One(frames[f].result = x) \in Nat
    BY <1>1, OwingNat, OneNat
  <2>4. Calls(x, frames') = Calls(x, frames)
    BY <1>5, <1>6, <2>1, <2>2, <2>3 DEF words
  <2>5. Jobs(x, Append(queue, ResumeJob(f)), rx) = Jobs(x, queue, rx)
    BY <1>1, <1>2, ResumesHold
  <2>6. Running(x, run, rx) = 0
    BY <1>1, RunningIs
  <2>7. Idle.k = "idle"
    BY DEF Idle
  <2>8. Running(x, Idle, rx) = 0
    BY <2>7, RunningIs
  <2>. QED
    BY <1>1, <2>4, <2>5, <2>6, <2>8 DEF Placed, PlacedAfter
<1>. QED
  BY <1>1, <1>7, MovedCounts DEF CountInv

\* The job of adopt_into holds the returned promise and the one to settle.
LEMMA AttachHolds ==
  ASSUME Types, NEW c \in Cell, NEW d \in Cell, NEW x \in Cell, NEW w
  PROVE  Jobs(x, Append(queue, AttachJob(c, d)), w)
           = Jobs(x, queue, w) + (One(c = x) + One(d = x))
<1>. DEFINE job == AttachJob(c, d)
<1>1. queue \in Seq(JobSet)
  BY DEF Types
<1>2. job \in JobSet
  BY MadeOK
<1>3. JobW(x, job, w) = One(c = x) + One(d = x)
  <2>. DEFINE kind == "both"
  <2>1. kind \in {"adopt", "both", "finally"}
    OBVIOUS
  <2>. HIDE DEF kind
  <2>. QED
    BY <2>1, RecordW
<1>. HIDE DEF job
<1>4. Jobs(x, Append(queue, job), w) = Jobs(x, queue, w) + JobW(x, job, w)
  BY <1>1, <1>2, JobsGrow
<1>. QED
  BY <1>3, <1>4 DEF job

\* Whoever has taken a reference on cells it holds besides.
LEMMA TakenHeld ==
  ASSUME NEW S, NEW a \in Cell, NEW b \in Cell, a \in S, b \in S,
         NEW tk \in Seq(Cell), \A x \in Cell : Times(x, tk) = One(a = x) + One(b = x),
         NEW x \in Cell, Times(x, tk) > 0
  PROVE  x \in S
<1>1. CASE x # a /\ x # b
  <2>1. One(a = x) = 0 /\ One(b = x) = 0
    BY <1>1 DEF One
  <2>. QED
    BY <2>1
<1>. QED
  BY <1>1

\* adopt_into in a handler's job.
LEMMA AdoptCounts ==
  ASSUME PlaceInv, CountInv, Types', dead = {}, run.k = "handler", NEW c \in handles,
         Adopt(run.d, c, <<run.src, run.d>>), UNCHANGED handles
  PROVE  Counted'
<1>. DEFINE d == run.d
            src == run.src
            tk == <<c, d>>
            gv == <<src, d>>
            job == AttachJob(c, d)
<1>1. /\ queue' = Append(queue, job) /\ Stakes(tk, gv) /\ run' = Idle
      /\ UNCHANGED <<st, list, rx, frames, tracked, handles>> /\ Types
      /\ d \in Cell /\ src \in Cell /\ c \in Cell
  BY DEF Adopt, PlaceInv, Types, RunOK, CountInv, WordsOK
<1>2. \A x \in Cell : Running(x, run, rx) = One(d = x) + One(src = x)
  BY RunningIs
<1>. HIDE DEF d, src
<1>3. tk \in Seq(Cell) /\ \A x \in Cell : Times(x, tk) = One(c = x) + One(d = x)
  BY <1>1, TimesTwo
<1>4. gv \in Seq(Cell) /\ \A x \in Cell : Times(x, gv) = One(src = x) + One(d = x)
  BY <1>1, TimesTwo
<1>. HIDE DEF tk, gv
<1>5. ASSUME NEW x \in Cell
      PROVE  /\ PlacedAfter(x) + Times(x, gv) = Placed(x) + Times(x, tk)
             /\ x = d => Placed(x) > 0
  <2>. DEFINE l == Lists(x, list)
              j == Jobs(x, queue, rx)
              k == Calls(x, frames)
              a == One(c = x)
              b == One(d = x)
              e == One(src = x)
              p == Placed(x)
              p1 == PlacedAfter(x)
  <2>1. Idle.k = "idle"
    BY DEF Idle
  <2>2. Running(x, Idle, rx) = 0
    BY <2>1, RunningIs
  <2>3. Jobs(x, Append(queue, AttachJob(c, d)), rx) = j + (a + b)
    BY <1>1, AttachHolds
  <2>4. p = l + j + k + (b + e) /\ p1 = l + (j + (a + b)) + k + 0
    BY <1>1, <1>2, <2>2, <2>3 DEF Placed, PlacedAfter
  <2>5. l \in Nat /\ j \in Nat /\ k \in Nat /\ a \in Nat /\ b \in Nat /\ e \in Nat
    BY <1>1, OwingNat, OneNat
  <2>6. x = d => b = 1
    BY DEF One
  <2>. HIDE DEF l, j, k, a, b, e, p, p1
  <2>7. p1 + (e + b) = p + (a + b) /\ (x = d => p > 0)
    BY <2>4, <2>5, <2>6
  <2>. QED
    BY <1>3, <1>4, <2>7 DEF a, b, e, p, p1
<1>6. ASSUME NEW x \in Cell, Times(x, tk) > 0
      PROVE  x \in handles \/ Placed(x) > 0
  <2>. DEFINE S == {c, d}
  <2>1. c \in S /\ d \in S
    OBVIOUS
  <2>. HIDE DEF S
  <2>2. x \in S
    BY <1>1, <1>3, <1>6, <2>1, TakenHeld
  <2>3. x = c \/ x = d
    BY <2>2 DEF S
  <2>. QED
    BY <1>5, <2>3
<1>. QED
  BY <1>1, <1>3, <1>4, <1>5, <1>6, TradedCounts DEF CountInv

\* The promise a finally handler returns: the source's settlement waits for it.
LEMMA FinallyWaitCounts ==
  ASSUME PlaceInv, CountInv, Types', dead = {}, run.k = "handler", NEW c \in handles,
         AttachThen(queue, c, WaitRecord(c, run.d, run.src)), Stakes(<<c>>, <<>>), run' = Idle,
         UNCHANGED <<st, rx, frames, tracked, handles>>
  PROVE  Counted'
<1>. DEFINE d == run.d
            src == run.src
            tk == <<c>>
            none == <<>>
            record == WaitRecord(c, d, src)
<1>1. /\ AttachThen(queue, c, record) /\ Stakes(tk, none) /\ Types
      /\ queue \in Seq(JobSet) /\ d \in Cell /\ src \in Cell /\ c \in Cell
  BY DEF PlaceInv, Types, RunOK, CountInv, WordsOK
<1>2. \A x \in Cell : Running(x, run, rx) = One(d = x) + One(src = x)
  BY RunningIs
<1>. HIDE DEF d, src
<1>3. tk \in Seq(Cell) /\ \A x \in Cell : Times(x, tk) = One(c = x)
  BY <1>1, TimesOne
<1>4. none \in Seq(Cell) /\ \A x \in Cell : Times(x, none) = 0
  BY TimesNone
<1>5. record \in Records
  BY <1>1, MadeOK
<1>6. \A x \in Cell : /\ LinkW(x, record) = One(c = x) + One(d = x) + One(src = x)
                      /\ JobW(x, record, rx) = One(c = x) + One(d = x) + One(src = x)
  BY <1>1, WaitW
<1>. HIDE DEF tk, none, record
<1>7. ASSUME NEW x \in Cell
      PROVE  PlacedAfter(x) + Times(x, none) = Placed(x) + Times(x, tk)
  <2>. DEFINE l == Lists(x, list)
              l1 == Lists(x, list')
              j == Jobs(x, queue, rx)
              j1 == Jobs(x, queue', rx)
              k == Calls(x, frames)
              a == One(c = x)
              b == One(d = x)
              e == One(src = x)
              n == a + b + e
              p == Placed(x)
              p1 == PlacedAfter(x)
  <2>1. Idle.k = "idle"
    BY DEF Idle
  <2>2. Running(x, Idle, rx) = 0
    BY <2>1, RunningIs
  <2>3. l \in Nat /\ j \in Nat /\ k \in Nat /\ a \in Nat /\ b \in Nat /\ e \in Nat
    BY <1>1, OwingNat, OneNat
  <2>4. n \in Nat /\ LinkW(x, record) = n /\ JobW(x, record, rx) = n
    BY <1>6, <2>3
  <2>. HIDE DEF n
  <2>5. l1 + j1 = l + j + n
    BY <1>1, <1>5, <2>4, AttachedHolds
  <2>6. p = l + j + k + (b + e) /\ p1 = l1 + j1 + k + 0
    BY <1>2, <2>2 DEF Placed, PlacedAfter
  <2>7. l1 \in Nat
    BY AfterNat
  <2>8. Jobs(x, queue', rx') \in Nat
    BY AfterNat
  <2>9. j1 \in Nat
    BY <2>8
  <2>10. n = a + b + e
    BY DEF n
  <2>. HIDE DEF l, l1, j, j1, k, a, b, e, p, p1
  <2>11. p1 + 0 = p + a
    BY <2>3, <2>5, <2>6, <2>7, <2>9, <2>10
  <2>. QED
    BY <1>3, <1>4, <2>11 DEF a, p, p1
<1>8. ASSUME NEW x \in Cell, Times(x, tk) > 0
      PROVE  x \in handles \/ Placed(x) > 0
  <2>1. CASE x # c
    <3>1. One(c = x) = 0
      BY <2>1 DEF One
    <3>. QED
      BY <1>3, <1>8, <3>1
  <2>. QED
    BY <2>1
<1>. QED
  BY <1>1, <1>3, <1>4, <1>7, <1>8, TradedCounts DEF CountInv

\* The promise an async body returns, with its frame's reference on the result.
LEMMA BodyAdoptCounts ==
  ASSUME PlaceInv, CountInv, Types', dead = {}, run.k = "body", NEW c \in handles,
         NEW r, r = frames[run.f].result, queue' = Append(queue, AttachJob(c, r)),
         Stakes(<<c, r>>, <<r>>), frames' = [frames EXCEPT ![run.f] = NoFrame], run' = Idle,
         UNCHANGED <<st, list, rx, tracked, handles>>
  PROVE  Counted'
<1>. DEFINE f == run.f
            tk == <<c, r>>
            gv == <<r>>
            words == frames'
<1>1. /\ Stakes(tk, gv) /\ Types /\ c \in Cell /\ r \in Cell /\ frames \in [Frame -> Row]
      /\ f \in Frame
  <2>1. c \in Cell
    BY DEF PlaceInv, Types
  <2>2. run.f \in Frame /\ r \in Cell
    BY <2>1, BodyAwake
  <2>. QED
    BY <2>1, <2>2 DEF PlaceInv, Types
<1>2. words \in [Frame -> Row] /\ words[f] = NoFrame /\ \A g \in Frame \ {f} : words[g] = frames[g]
  BY <1>1, ClearWords
<1>3. tk \in Seq(Cell) /\ \A x \in Cell : Times(x, tk) = One(c = x) + One(r = x)
  BY <1>1, TimesTwo
<1>4. gv \in Seq(Cell) /\ \A x \in Cell : Times(x, gv) = One(r = x)
  BY <1>1, TimesOne
<1>. HIDE DEF tk, gv, words
<1>5. ASSUME NEW x \in Cell
      PROVE  /\ PlacedAfter(x) + Times(x, gv) = Placed(x) + Times(x, tk)
             /\ x = r => Placed(x) > 0
  <2>. DEFINE l == Lists(x, list)
              j == Jobs(x, queue, rx)
              k == Calls(x, frames)
              k1 == Calls(x, words)
              a == One(c = x)
              b == One(r = x)
              p == Placed(x)
              p1 == PlacedAfter(x)
  <2>1. Idle.k = "idle"
    BY DEF Idle
  <2>2. Running(x, Idle, rx) = 0
    BY <2>1, RunningIs
  <2>3. Running(x, run, rx) = 0
    BY RunningIs
  <2>4. Jobs(x, Append(queue, AttachJob(c, r)), rx) = j + (a + b)
    BY <1>1, AttachHolds
  <2>5. frames[f] = frames[run.f]
    OBVIOUS
  <2>6. k = k1 + b
    BY <1>1, <1>2, RetireCalls
  <2>7. p = l + j + k + 0 /\ p1 = l + (j + (a + b)) + k1 + 0
    BY <2>2, <2>3, <2>4 DEF Placed, PlacedAfter, words
  <2>8. l \in Nat /\ j \in Nat /\ k \in Nat /\ a \in Nat /\ b \in Nat
    BY <1>1, OwingNat, OneNat
  <2>9. Calls(x, frames') \in Nat
    BY AfterNat
  <2>10. k1 \in Nat
    BY <2>9 DEF words
  <2>11. x = r => b = 1
    BY DEF One
  <2>. HIDE DEF l, j, k, k1, a, b, p, p1
  <2>12. p1 + b = p + (a + b) /\ (x = r => p > 0)
    BY <2>6, <2>7, <2>8, <2>10, <2>11
  <2>. QED
    BY <1>3, <1>4, <2>12 DEF a, b, p, p1
<1>6. ASSUME NEW x \in Cell, Times(x, tk) > 0
      PROVE  x \in handles \/ Placed(x) > 0
  <2>1. x = c \/ x = r
    <3>1. CASE x # c /\ x # r
      <4>1. One(c = x) = 0 /\ One(r = x) = 0
        BY <3>1 DEF One
      <4>. QED
        BY <1>3, <1>6, <4>1
    <3>. QED
      BY <3>1
  <2>. QED
    BY <1>5, <2>1
<1>. QED
  BY <1>1, <1>3, <1>4, <1>5, <1>6, TradedCounts DEF CountInv

\* A list of one link that is emptied.
LEMMA SoleLists ==
  ASSUME Types, NEW d \in Cell, Chains(d), list' = [list EXCEPT ![d] = <<>>],
         NEW link, link = list[d][1], NEW x \in Cell
  PROVE  Lists(x, list') + LinkW(x, link) = Lists(x, list)
<1>. DEFINE m == list'
            own == list[d]
            none == <<>>
<1>1. list \in [Cell -> Seq(Link)] /\ own \in Seq(Link) /\ Len(own) = 1
  BY DEF Types, Chains, Sole
<1>2. own = <<link>>
  BY <1>1
<1>3. none \in Seq(Link)
  OBVIOUS
<1>. HIDE DEF none
<1>4. m \in [Cell -> Seq(Link)] /\ m[d] = none /\ \A p \in Cell \ {d} : m[p] = list[p]
  BY <1>1, <1>3 DEF none
<1>5. none = <<>>
  BY DEF none
<1>. HIDE DEF m, own
<1>20. Emptied(list, m, d)
  BY <1>1, <1>4, <1>5 DEF Emptied, SameBut
<1>6. Lists(x, m) = Lists(x, list) - ListW(x, list[d]) /\ ListW(x, list[d]) \in Nat
  BY <1>20, ListsLose
<1>7. list[d] = <<link>>
  BY <1>2 DEF own
<1>8. ListW(x, <<link>>) = LinkW(x, link)
  <2>1. /\ CountIn(<<link>>, LinkD(x)) = One(link \in LinkD(x))
        /\ CountIn(<<link>>, LinkC(x)) = One(link \in LinkC(x))
        /\ CountIn(<<link>>, LinkS(x)) = One(link \in LinkS(x))
    BY CountOne
  <2>. QED
    BY <2>1 DEF ListW, LinkW
<1>. DEFINE l == Lists(x, list)
            l1 == Lists(x, m)
            n == LinkW(x, link)
<1>9. l1 = l - n /\ n \in Nat
  BY <1>6, <1>7, <1>8
<1>10. l \in Nat
  BY OwingNat
<1>. HIDE DEF l, l1, n
<1>11. l1 + n = l
  BY <1>9, <1>10
<1>. QED
  BY <1>11 DEF l, l1, n, m

\* The one waiter is a reaction: its job takes a reference on the source.
LEMMA SoleReaction ==
  ASSUME PlaceInv, ReactionsPlaced, NEW d \in Cell, Chains(d),
         NEW n \in Cell, list[d][1] = Inline(n), NEW x \in Cell
  PROVE  /\ rx[n].src = d
         /\ Jobs(x, Append(queue, ReactJob(n)), rx)
              = Jobs(x, queue, rx) + JobW(x, ReactJob(n), rx)
<1>1. Types /\ queue \in Seq(JobSet)
  BY DEF PlaceInv, Types
<1>2. Has(list[d], Inline(n))
  BY <1>1, SoleLink
<1>3. rx[n].src = d
  BY <1>2 DEF ReactionsPlaced, ReactAt
<1>. DEFINE job == ReactJob(n)
<1>4. job \in JobSet
  BY MadeOK
<1>. HIDE DEF job
<1>5. Jobs(x, Append(queue, job), rx) = Jobs(x, queue, rx) + JobW(x, job, rx)
  BY <1>1, <1>4, JobsGrow
<1>. QED
  BY <1>3, <1>5 DEF job

\* The list of d, of the one frame g, is emptied; words differ from the frames' in that
\* g is queued by that settlement.
QueuedBy(words, g, d) ==
  /\ g \in Frame /\ list[d][1] = Parked(g) /\ list' = [list EXCEPT ![d] = <<>>]
  /\ RowsBut(frames, words, g)
  /\ words[g].at = "queued" /\ words[g].src = d /\ words[g].result = frames[g].result

\* The one waiter is a frame: its words take one.
LEMMA SoleFrame ==
  ASSUME PlaceInv, NEW d \in Cell, Chains(d), NEW g, NEW words, QueuedBy(words, g, d),
         NEW x \in Cell
  PROVE  /\ Lists(x, list') = Lists(x, list)
         /\ Calls(x, words) = Calls(x, frames) + One(words[g].src = x)
<1>1. Types /\ frames \in [Frame -> Row] /\ words \in [Frame -> Row]
  BY DEF PlaceInv, Types, QueuedBy, RowsBut
<1>20. g \in Frame /\ list[d][1] = Parked(g) /\ list' = [list EXCEPT ![d] = <<>>]
  BY DEF QueuedBy
<1>2. Has(list[d], Parked(g))
  BY <1>1, <1>20, SoleLink
<1>3. frames[g].at = "parked" /\ frames[g] \in Row
  BY <1>1, <1>2, <1>20 DEF PlaceInv, FramesPlaced, At
<1>. DEFINE link == Parked(g)
            new == words[g]
<1>4. LinkW(x, link) = 0
  BY <1>20, FrameW
<1>5. link = list[d][1]
  BY <1>20
<1>. HIDE DEF link
<1>6. Lists(x, list') + LinkW(x, link) = Lists(x, list)
  BY <1>1, <1>5, <1>20, SoleLists
<1>7. Lists(x, list') \in Nat
  <2>1. list' \in [Cell -> Seq(Link)]
    BY <1>1, <1>20 DEF Types
  <2>. QED
    BY <1>1, <2>1, OwedNat DEF Types
<1>8. Lists(x, list') = Lists(x, list)
  BY <1>4, <1>6, <1>7
<1>9. new \in Row /\ new.at = "queued" /\ new.src = d /\ new.result = frames[g].result
  BY <1>1 DEF QueuedBy
<1>10. words[g] = new
  OBVIOUS
<1>. HIDE DEF new
<1>11. Calls(x, words) = Calls(x, frames) - RowW(x, frames[g]) + RowW(x, words[g])
  BY CallsAt DEF QueuedBy
<1>12. RowW(x, frames[g]) = One(frames[g].result = x)
  BY <1>3, RowHolds
<1>13. RowW(x, new) = One(new.at = "queued" /\ new.src = x) + One(new.result = x)
  BY <1>9, RowIs
<1>14. One(new.at = "queued" /\ new.src = x) = One(new.src = x)
  BY <1>9 DEF One
<1>. DEFINE a == One(frames[g].result = x)
            b == One(words[g].src = x)
            k == Calls(x, frames)
            k1 == Calls(x, words)
<1>15. k1 = k - a + (b + a)
  BY <1>9, <1>10, <1>11, <1>12, <1>13, <1>14
<1>16. k \in Nat /\ a \in Nat /\ b \in Nat
  BY <1>1, OwingNat, OneNat
<1>. HIDE DEF a, b, k, k1
<1>17. k1 = k + b
  BY <1>15, <1>16
<1>. QED
  BY <1>8, <1>17 DEF b, k, k1

\* settle_into_chain: the dispatcher's reference on the promise goes on.
LEMMA IntoChainCounts ==
  ASSUME PlaceInv, CountInv, Types', dead = {}, run.k = "handler",
         IntoChain(run.d, run.src), UNCHANGED handles
  PROVE  Counted'
<1>. DEFINE d == run.d
            src == run.src
            none == <<>>
            gv == <<src>>
<1>1. /\ Chains(d) /\ (IntoReaction(d, src) \/ IntoFrame(d, src))
      /\ st' = [st EXCEPT ![d] = "fulfilled"] /\ list' = [list EXCEPT ![d] = <<>>]
      /\ Stakes(none, gv) /\ UNCHANGED <<rx, tracked, handles>>
  BY DEF IntoChain
<1>2. Types /\ d \in Cell /\ src \in Cell
  BY DEF PlaceInv, Types, RunOK, CountInv, WordsOK
<1>21. d \in Cell /\ Chains(d)
  BY <1>1, <1>2
<1>3. \A x \in Cell : Running(x, run, rx) = One(d = x) + One(src = x)
  BY RunningIs
<1>4. none \in Seq(Cell) /\ \A x \in Cell : Times(x, none) = 0
  BY TimesNone
<1>5. gv \in Seq(Cell) /\ \A x \in Cell : Times(x, gv) = One(src = x)
  BY <1>2, TimesOne
<1>6. \A x \in Cell : st'[x] = "free" <=> st[x] = "free"
  BY <1>1, <1>2 DEF Chains, Types
<1>7. run.k # "next"
  OBVIOUS
<1>. HIDE DEF d, src, none, gv
<1>8. ASSUME NEW x \in Cell
      PROVE  PlacedAfter(x) + One(src = x) = Placed(x)
  <2>. DEFINE l == Lists(x, list)
              l1 == Lists(x, list')
              j == Jobs(x, queue, rx)
              j1 == Jobs(x, queue', rx)
              k == Calls(x, frames)
              k1 == Calls(x, frames')
              u1 == Running(x, run', rx)
              b == One(d = x)
              e == One(src = x)
              p == Placed(x)
              p1 == PlacedAfter(x)
  <2>1. p = l + j + k + (b + e) /\ p1 = l1 + j1 + k1 + u1
    BY <1>1, <1>3 DEF Placed, PlacedAfter
  <2>2. l \in Nat /\ j \in Nat /\ k \in Nat /\ b \in Nat /\ e \in Nat
    BY <1>2, OwingNat, OneNat
  <2>3. l1 \in Nat
    BY AfterNat
  <2>4. Idle.k = "idle"
    BY DEF Idle
  <2>5. Running(x, Idle, rx) = 0
    BY <2>4, RunningIs
  <2>6. CASE IntoReaction(d, src)
    <3>1. PICK n \in Cell : list[d][1] = Inline(n)
      <4>1. \/ \E n \in Cell : list[d][1] = Inline(n)
            \/ \E g \in Frame : list[d][1] = Parked(g)
        BY <1>1, <1>2, SoleLink
      <4>2. \A g \in Frame : Parked(g).k = "frame"
        BY DEF Parked
      <4>3. list[d][1].k = "inline"
        BY <2>6 DEF IntoReaction
      <4>. QED
        BY <4>1, <4>2, <4>3
    <3>. DEFINE a == One(n = x)
                job == ReactJob(n)
                next == [k |-> "next", d |-> n]
    <3>2. Inline(n).d = n
      BY DEF Inline
    <3>3. frames' = frames /\ Chain(next, job, queue)
      BY <2>6, <3>1, <3>2 DEF IntoReaction
    <3>0. ReactionsPlaced /\ Chains(d)
      BY <1>1 DEF CountInv
    <3>4. /\ rx[n].src = d
          /\ Jobs(x, Append(queue, ReactJob(n)), rx)
               = Jobs(x, queue, rx) + JobW(x, ReactJob(n), rx)
      BY <1>2, <3>0, <3>1, SoleReaction
    <3>. DEFINE link == Inline(n)
    <3>16. JobW(x, ReactJob(n), rx) = One(n = x) + One(rx[n].src = x)
      BY InlineW
    <3>17. LinkW(x, Inline(n)) = One(n = x)
      BY InlineW
    <3>13. /\ LinkW(x, link) = One(n = x)
           /\ JobW(x, ReactJob(n), rx) = One(n = x) + One(rx[n].src = x)
      BY <3>16, <3>17
    <3>14. link = list[d][1]
      BY <3>1
    <3>. HIDE DEF link
    <3>15. Lists(x, list') + LinkW(x, link) = Lists(x, list)
      BY <1>1, <1>2, <3>14, SoleLists
    <3>5. l1 + a = l
      BY <3>13, <3>15
    <3>6. Jobs(x, Append(queue, job), rx) = j + (a + b)
      BY <3>4, <3>13
    <3>7. Running(x, next, rx) = One(next.d = x) + One(rx[next.d].src = x)
      BY RunningIs
    <3>8. Running(x, next, rx) = a + b
      BY <3>4, <3>7
    <3>9. j1 + u1 = j + (a + b)
      <4>1. a \in Nat
        BY OneNat
      <4>. HIDE DEF next, job, a
      <4>2. CASE run' = next /\ queue' = queue
        <5>1. j1 = j /\ u1 = a + b
          BY <3>8, <4>2
        <5>. QED
          BY <5>1
      <4>3. CASE run' = Idle /\ queue' = Append(queue, job)
        <5>1. j1 = j + (a + b) /\ u1 = 0
          BY <2>5, <3>6, <4>3
        <5>. HIDE DEF j, j1, u1, b
        <5>. QED
          BY <2>2, <4>1, <5>1
      <4>. QED
        BY <3>3, <4>2, <4>3 DEF Chain
    <3>10. k1 = k
      BY <3>3
    <3>11. a \in Nat
      BY OneNat
    <3>12. j1 \in Nat /\ u1 \in Nat
      <4>1. Jobs(x, queue', rx') \in Nat /\ Running(x, run', rx') \in Nat
        BY AfterNat
      <4>. QED
        BY <1>1, <4>1
    <3>. HIDE DEF l, l1, j, j1, k, k1, u1, a, b, e, p, p1
    <3>. QED
      <4>1. p1 + e = p
        BY <2>1, <2>2, <2>3, <3>5, <3>9, <3>10, <3>11, <3>12
      <4>. QED
        BY <4>1 DEF p, p1, e
  <2>7. CASE IntoFrame(d, src)
    <3>1. PICK g \in Frame : list[d][1] = Parked(g)
      <4>1. \/ \E n \in Cell : list[d][1] = Inline(n)
            \/ \E g \in Frame : list[d][1] = Parked(g)
        BY <1>1, <1>2, SoleLink
      <4>2. \A n \in Cell : Inline(n).k = "inline"
        BY DEF Inline
      <4>3. list[d][1].k = "frame"
        BY <2>7 DEF IntoFrame
      <4>. QED
        BY <4>1, <4>2, <4>3
    <3>. DEFINE wake == [k |-> "wake", f |-> g]
                words == frames'
    <3>2. Parked(g).f = g
      BY DEF Parked
    <3>3. /\ frames' = [frames EXCEPT ![g] = [@ EXCEPT !.at = "queued", !.src = d]]
          /\ Chain(wake, ResumeJob(g), queue)
      BY <2>7, <3>1, <3>2 DEF IntoFrame
    <3>4. /\ words \in [Frame -> Row] /\ words[g].at = "queued" /\ words[g].src = d
          /\ words[g].result = frames[g].result
          /\ \A f \in Frame \ {g} : words[f] = frames[f]
      <4>1. frames \in [Frame -> Row] /\ frames[g] \in Row
        BY <1>2 DEF Types
      <4>2. words[g] = [frames[g] EXCEPT !.at = "queued", !.src = d]
        BY <3>3, <4>1
      <4>3. words[g] \in Row
        BY <1>2, <4>1, <4>2 DEF Row, Word
      <4>4. \A f \in Frame \ {g} : words[f] = frames[f]
        BY <3>3, <4>1
      <4>5. /\ words[g].at = "queued" /\ words[g].src = d
            /\ words[g].result = frames[g].result
        BY <4>1, <4>2 DEF Row
      <4>. QED
        BY <3>3, <4>1, <4>3, <4>4, <4>5
    <3>. HIDE DEF words
    <3>20. QueuedBy(words, g, d)
      BY <1>1, <1>2, <3>1, <3>4 DEF QueuedBy, RowsBut, Types
    <3>5. /\ Lists(x, list') = Lists(x, list)
          /\ Calls(x, words) = Calls(x, frames) + One(words[g].src = x)
      BY <1>21, <3>20, SoleFrame
    <3>6. l1 = l /\ k1 = k + b
      BY <3>4, <3>5 DEF words
    <3>7. Jobs(x, Append(queue, ResumeJob(g)), rx) = Jobs(x, queue, rx)
      BY <1>2, ResumesHold
    <3>8. Running(x, wake, rx) = 0
      BY RunningIs
    <3>9. j1 = j /\ u1 = 0
      BY <2>5, <3>3, <3>7, <3>8 DEF Chain
    <3>. HIDE DEF l, l1, j, j1, k, k1, u1, b, e, p, p1
    <3>. QED
      <4>1. p1 + e = p
        BY <2>1, <2>2, <3>6, <3>9
      <4>. QED
        BY <4>1 DEF p, p1, e
  <2>. QED
    BY <1>1, <2>6, <2>7
<1>9. ASSUME NEW x \in Cell
      PROVE  PlacedAfter(x) + Times(x, gv) = Placed(x) + Times(x, none)
  <2>1. Placed(x) \in Nat
    BY <1>2, PlacedOwing
  <2>. HIDE DEF Placed
  <2>. QED
    BY <1>4, <1>5, <1>8, <2>1
<1>10. \A x \in Cell : Times(x, none) > 0 => x \in handles \/ Placed(x) > 0
  BY <1>4
<1>. QED
  BY <1>1, <1>2, <1>4, <1>5, <1>6, <1>9, <1>10, TradedCounts DEF CountInv

\* wake_sole_waiter: the frame's reference on the result goes to the waiter.
LEMMA WakeSoleCounts ==
  ASSUME PlaceInv, CountInv, Types', run.k = "body", NEW r, r = frames[run.f].result, Chains(r),
         WakeSole(run.f, r), UNCHANGED handles
  PROVE  Counted'
<1>. DEFINE f == run.f
            woken == Woken(r)
            words == frames'
<1>1. /\ r \in Cell /\ f \in Frame /\ woken \in [Frame -> Row] /\ woken[f] = frames[f]
  <2>1. \A c \in Cell : /\ run.f \in Frame /\ frames[run.f].result \in Cell
                        /\ Woken(c) \in [Frame -> Row] /\ Woken(c)[run.f] = frames[run.f]
    BY BodyAwake
  <2>2. Chains(r) => st[r] = "pending"
    BY DEF Chains
  <2>3. Cell # {} => r \in Cell
    BY <2>1
  <2>4. r \in Cell
    BY <2>3 DEF PlaceInv, FramesPlaced, At, Runs, Types, RunOK
  <2>. QED
    BY <2>1, <2>4
<1>21. r \in Cell /\ Chains(r)
  BY <1>1
<1>2. /\ st' = [st EXCEPT ![r] = "fulfilled"] /\ list' = [list EXCEPT ![r] = <<>>]
      /\ queue' = Append(queue, JobOf(list[r][1]))
      /\ words = [woken EXCEPT ![f] = NoFrame] /\ run' = Idle
      /\ UNCHANGED <<rc, rx, tracked, dead, handles>> /\ Types
  BY DEF WakeSole, PlaceInv
<1>3. words \in [Frame -> Row] /\ words[f] = NoFrame /\ \A g \in Frame \ {f} : words[g] = woken[g]
  BY <1>1, <1>2, ClearWords
<1>4. \A x \in Cell : st'[x] = "free" <=> st[x] = "free"
  BY <1>1, <1>2 DEF Chains, Types
<1>. HIDE DEF woken, words
<1>5. ASSUME NEW x \in Cell
      PROVE  PlacedAfter(x) = Placed(x)
  <2>. DEFINE l == Lists(x, list)
              l1 == Lists(x, list')
              j == Jobs(x, queue, rx)
              j1 == Jobs(x, queue', rx)
              k == Calls(x, frames)
              k1 == Calls(x, words)
              k2 == Calls(x, woken)
              b == One(r = x)
              p == Placed(x)
              p1 == PlacedAfter(x)
  <2>1. Idle.k = "idle"
    BY DEF Idle
  <2>2. Running(x, Idle, rx) = 0
    BY <2>1, RunningIs
  <2>3. Running(x, run, rx) = 0
    BY RunningIs
  <2>4. p = l + j + k + 0 /\ p1 = l1 + j1 + k1 + 0
    BY <1>2, <2>2, <2>3 DEF Placed, PlacedAfter, words
  <2>5. l \in Nat /\ j \in Nat /\ k \in Nat /\ b \in Nat
    BY <1>2, OwingNat, OneNat
  <2>6. k2 = k1 + b
    BY <1>1, <1>3, RetireCalls
  <2>7. l1 \in Nat
    BY AfterNat
  <2>8. Calls(x, frames') \in Nat
    BY AfterNat
  <2>9. k1 \in Nat
    BY <2>8 DEF words
  <2>10. ASSUME NEW n \in Cell, list[r][1] = Inline(n)
         PROVE  PlacedAfter(x) = Placed(x)
    <3>1. list[r][1] = Inline(n)
      BY <2>10
    <3>. DEFINE a == One(n = x)
                link == Inline(n)
    <3>2. Woken(r) = frames
      BY <1>1, <1>2, <3>1, SoleWoken
    <3>3. k2 = k
      BY <3>2 DEF woken
    <3>4. ReactionsPlaced
      BY DEF CountInv
    <3>5. /\ rx[n].src = r
          /\ Jobs(x, Append(queue, ReactJob(n)), rx)
               = Jobs(x, queue, rx) + JobW(x, ReactJob(n), rx)
      BY <1>1, <3>1, <3>4, SoleReaction
    <3>14. JobW(x, ReactJob(n), rx) = One(n = x) + One(rx[n].src = x)
      BY InlineW
    <3>15. LinkW(x, Inline(n)) = One(n = x)
      BY InlineW
    <3>6. /\ LinkW(x, link) = One(n = x)
          /\ JobW(x, ReactJob(n), rx) = One(n = x) + One(rx[n].src = x)
      BY <3>14, <3>15
    <3>7. link = list[r][1]
      BY <3>1
    <3>8. JobOf(Inline(n)) = ReactJob(n)
      BY DEF JobOf, Inline
    <3>. HIDE DEF link
    <3>9. Lists(x, list') + LinkW(x, link) = Lists(x, list)
      BY <1>1, <1>2, <3>7, SoleLists
    <3>10. l1 + a = l
      BY <3>6, <3>9
    <3>11. queue' = Append(queue, ReactJob(n))
      BY <1>2, <3>1, <3>8
    <3>12. j1 = j + (a + b)
      BY <3>5, <3>6, <3>11
    <3>13. a \in Nat
      BY OneNat
    <3>. HIDE DEF l, l1, j, j1, k, k1, k2, a, b, p, p1
    <3>16. p1 = p
      BY <2>4, <2>5, <2>6, <2>7, <2>9, <3>3, <3>10, <3>12, <3>13
    <3>. QED
      BY <3>16 DEF p, p1
  <2>11. ASSUME NEW g \in Frame, list[r][1] = Parked(g)
         PROVE  PlacedAfter(x) = Placed(x)
    <3>1. list[r][1] = Parked(g)
      BY <2>11, SMTT(30)
    <3>2. woken = [frames EXCEPT ![g] = [@ EXCEPT !.at = "queued", !.src = r]]
      BY <1>1, <1>2, <3>1, SoleWoken DEF woken
    <3>3. /\ woken[g].at = "queued" /\ woken[g].src = r /\ woken[g].result = frames[g].result
          /\ \A h \in Frame \ {g} : woken[h] = frames[h]
      <4>1. frames \in [Frame -> Row] /\ frames[g] \in Row
        BY <1>2 DEF Types
      <4>2. woken[g] = [frames[g] EXCEPT !.at = "queued", !.src = r]
        BY <3>2, <4>1
      <4>3. \A h \in Frame \ {g} : woken[h] = frames[h]
        BY <3>2, <4>1
      <4>4. /\ woken[g].at = "queued" /\ woken[g].src = r
            /\ woken[g].result = frames[g].result
        BY <4>1, <4>2 DEF Row
      <4>. QED
        BY <4>3, <4>4
    <3>20. QueuedBy(woken, g, r)
      BY <1>1, <1>2, <3>1, <3>3 DEF QueuedBy, RowsBut, Types
    <3>4. /\ Lists(x, list') = Lists(x, list)
          /\ Calls(x, woken) = Calls(x, frames) + One(woken[g].src = x)
      BY <1>21, <3>20, SoleFrame
    <3>5. l1 = l /\ k2 = k + b
      BY <3>3, <3>4
    <3>6. Jobs(x, Append(queue, ResumeJob(g)), rx) = Jobs(x, queue, rx)
      BY <1>2, ResumesHold
    <3>7. JobOf(Parked(g)) = ResumeJob(g)
      BY DEF JobOf, Parked
    <3>8. j1 = j
      BY <1>2, <3>1, <3>6, <3>7
    <3>. HIDE DEF l, l1, j, j1, k, k1, k2, b, p, p1
    <3>9. p1 = p
      BY <2>4, <2>5, <2>6, <2>9, <3>5, <3>8
    <3>. QED
      BY <3>9 DEF p, p1
  <2>. QED
    BY <1>1, <1>2, <2>10, <2>11, SoleLink
<1>6. ASSUME NEW x \in Cell
      PROVE  OwingAfter(x) = Owing(x)
  <2>1. /\ Owing(x) = One(x \in handles) + One(x \in tracked) + Placed(x)
        /\ OwingAfter(x) = One(x \in handles') + One(x \in tracked') + PlacedAfter(x)
    BY <1>2, PlacedOwing
  <2>2. One(x \in handles') = One(x \in handles) /\ One(x \in tracked') = One(x \in tracked)
    BY <1>2
  <2>. QED
    BY <1>5, <2>1, <2>2
<1>. QED
  BY <1>2, <1>4, <1>6, KeptCounted DEF CountInv

\* The landing of a frame: its reference on what it awaited goes.
LEMMA LandCounts ==
  ASSUME PlaceInv, CountInv, Types', dead = {}, NEW f \in Frame, NEW q, Land(f, q),
         frames[f].at = "queued", UNCHANGED handles, run.k \notin {"handler", "next"},
         \A x \in Cell : Jobs(x, q, rx) = Jobs(x, queue, rx)
  PROVE  Counted'
<1>. DEFINE src == frames[f].src
            none == <<>>
            gv == IF src = NULL THEN <<>> ELSE <<src>>
            new == [frames[f] EXCEPT !.at = "running", !.src = NULL]
            words == frames'
<1>1. /\ frames' = [frames EXCEPT ![f] = new] /\ run' = [k |-> "body", f |-> f] /\ queue' = q
      /\ Stakes(none, gv) /\ UNCHANGED <<st, list, rx, tracked, handles>> /\ Types
  BY DEF Land, PlaceInv
<1>2. frames \in [Frame -> Row] /\ frames[f] \in Row
  BY <1>1 DEF Types
<1>3. new \in Row /\ new.src = NULL /\ new.result = frames[f].result
  BY <1>2 DEF Row, Word
<1>. HIDE DEF new
<1>4. words \in [Frame -> Row] /\ words[f] = new /\ \A g \in Frame \ {f} : words[g] = frames[g]
  BY <1>1, <1>2, <1>3
<1>. HIDE DEF words
<1>5. none \in Seq(Cell) /\ \A x \in Cell : Times(x, none) = 0
  BY TimesNone
<1>6. gv \in Seq(Cell) /\ \A x \in Cell : Times(x, gv) = One(src = x)
  <2>1. CASE src = NULL
    <3>1. \A x \in Cell : One(src = x) = 0
      BY <2>1, CellAssumption DEF One
    <3>. QED
      BY <1>5, <2>1, <3>1
  <2>2. CASE src # NULL
    <3>1. src \in Cell
      BY <1>2, <2>2 DEF Row, Word
    <3>. QED
      BY <2>2, <3>1, TimesOne
  <2>. QED
    BY <2>1, <2>2
<1>. HIDE DEF none, gv
<1>7. ASSUME NEW x \in Cell
      PROVE  PlacedAfter(x) + Times(x, gv) = Placed(x) + Times(x, none)
  <2>. DEFINE l == Lists(x, list)
              j == Jobs(x, queue, rx)
              k == Calls(x, frames)
              k1 == Calls(x, words)
              a == One(frames[f].result = x)
              b == One(src = x)
              p == Placed(x)
              p1 == PlacedAfter(x)
              body == [k |-> "body", f |-> f]
  <2>20. RowsBut(frames, words, f)
    BY <1>2, <1>4 DEF RowsBut
  <2>1. Calls(x, words) = Calls(x, frames) - RowW(x, frames[f]) + RowW(x, words[f])
    BY <2>20, CallsAt
  <2>2. RowW(x, new) = One(new.result = x)
    BY <1>3, RowHolds
  <2>3. RowW(x, frames[f]) = One(frames[f].at = "queued" /\ frames[f].src = x) + a
    BY <1>2, RowIs
  <2>4. One(frames[f].at = "queued" /\ frames[f].src = x) = b
    BY DEF One
  <2>5. k1 = k - (b + a) + a
    BY <1>3, <1>4, <2>1, <2>2, <2>3, <2>4
  <2>6. Running(x, body, rx) = 0 /\ Running(x, run, rx) = 0
    BY RunningIs
  <2>7. p = l + j + k + 0 /\ p1 = l + j + k1 + 0
    BY <1>1, <2>6 DEF Placed, PlacedAfter, words
  <2>8. l \in Nat /\ j \in Nat /\ k \in Nat /\ a \in Nat /\ b \in Nat
    BY <1>1, OwingNat, OneNat
  <2>. HIDE DEF l, j, k, k1, a, b, p, p1
  <2>9. p1 + b = p + 0
    BY <2>5, <2>7, <2>8
  <2>. QED
    BY <1>5, <1>6, <2>9 DEF p, p1, b
<1>8. \A x \in Cell : Times(x, none) > 0 => x \in handles \/ Placed(x) > 0
  BY <1>5
<1>. QED
  BY <1>1, <1>5, <1>6, <1>7, <1>8, TradedCounts DEF CountInv

\* The resumption's own job, or the job that settled what it awaited.
LEMMA ResumeCounts ==
  ASSUME PlaceInv, CountInv, Types', RunResume \/ RunFrame
  PROVE  Counted'
<1>1. CASE RunResume
  <2>. DEFINE f == Job.f
              q == Tail(queue)
  <2>1. Ready /\ Job.k = "resume" /\ Land(f, q) /\ UNCHANGED handles
    BY <1>1 DEF RunResume
  <2>2. queue \in Seq(JobSet) /\ queue # <<>> /\ dead = {} /\ run = Idle
    BY <2>1 DEF Ready, PlaceInv, Types
  <2>3. Job \in JobSet /\ Has(queue, Job)
    BY <2>2, TailHas DEF Job
  <2>4. f \in Frame /\ Job = ResumeJob(f)
    BY <2>1, <2>3, JobKinds
  <2>5. frames[f].at = "queued"
    BY <2>3, <2>4 DEF PlaceInv, FramesPlaced, At
  <2>6. run.k \notin {"handler", "next"}
    BY <2>2 DEF Idle
  <2>7. ASSUME NEW x \in Cell
        PROVE  Jobs(x, q, rx) = Jobs(x, queue, rx)
    <3>1. Jobs(x, queue, rx) = Jobs(x, q, rx) + JobW(x, Job, rx) /\ Jobs(x, q, rx) \in Nat
      BY <2>1, TakenCounts
    <3>2. JobW(x, ResumeJob(f), rx) = 0
      BY <2>4, FrameW
    <3>3. JobW(x, Job, rx) = 0
      BY <2>4, <3>2
    <3>. QED
      BY <3>1, <3>3
  <2>. HIDE DEF f, q
  <2>. QED
    BY <2>1, <2>2, <2>4, <2>5, <2>6, <2>7, LandCounts
<1>2. CASE RunFrame
  <2>1. dead = {} /\ run.k = "wake" /\ Land(run.f, queue) /\ UNCHANGED handles
    BY <1>2 DEF RunFrame
  <2>2. run.f \in Frame
    BY <2>1 DEF PlaceInv, Types, RunOK
  <2>3. frames[run.f].at = "queued"
    BY <2>1, <2>2 DEF PlaceInv, FramesPlaced, At, Wakes
  <2>. QED
    BY <2>1, <2>2, <2>3, LandCounts
<1>. QED
  BY <1>1, <1>2

\* A handler returns.
LEMMA HandlerEndCounts ==
  ASSUME PlaceInv, Inv, CountInv, Types', HandlerEnd
  PROVE  Counted'
<1>. DEFINE d == run.d
            both == <<run.src, run.d>>
            chains == run.of = "inline" /\ Chains(d)
<1>1. /\ dead = {} /\ run.k = "handler" /\ UNCHANGED handles
      /\ \/ chains /\ IntoChain(d, run.src)
         \/ General(d, "fulfilled", both)
         \/ General(d, "rejected", both)
         \/ \E c \in handles : Adopt(d, c, both)
  BY DEF HandlerEnd, User
<1>2. CASE chains /\ IntoChain(d, run.src)
  BY <1>1, <1>2, IntoChainCounts
<1>3. CASE General(d, "fulfilled", both)
  BY <1>1, <1>3, GeneralCounts
<1>4. CASE General(d, "rejected", both)
  BY <1>1, <1>4, GeneralCounts
<1>5. CASE \E c \in handles : Adopt(d, c, both)
  <2>1. PICK c \in handles : Adopt(d, c, both)
    BY <1>5
  <2>. QED
    BY <1>1, <2>1, AdoptCounts
<1>. QED
  BY <1>1, <1>2, <1>3, <1>4, <1>5

\* The handler of a finally returns.
LEMMA FinallyEndCounts ==
  ASSUME PlaceInv, Inv, CountInv, Types', FinallyEnd
  PROVE  Counted'
<1>. DEFINE d == run.d
            both == <<run.src, run.d>>
            o == st[run.src]
<1>1. /\ dead = {} /\ run.k = "handler" /\ UNCHANGED handles
      /\ \/ General(d, o, both)
         \/ General(d, "rejected", both)
         \/ /\ \E c \in handles : /\ AttachThen(queue, c, WaitRecord(c, d, run.src))
                                  /\ Stakes(<<c>>, <<>>)
            /\ run' = Idle
            /\ UNCHANGED <<st, rx, frames, tracked>>
  BY DEF FinallyEnd, User
<1>2. CASE General(d, o, both)
  <2>. HIDE DEF o
  <2>. QED
    BY <1>1, <1>2, GeneralCounts
<1>3. CASE General(d, "rejected", both)
  BY <1>1, <1>3, GeneralCounts
<1>4. CASE /\ \E c \in handles : /\ AttachThen(queue, c, WaitRecord(c, d, run.src))
                                 /\ Stakes(<<c>>, <<>>)
           /\ run' = Idle
           /\ UNCHANGED <<st, rx, frames, tracked>>
  <2>1. PICK c \in handles : /\ AttachThen(queue, c, WaitRecord(c, d, run.src))
                             /\ Stakes(<<c>>, <<>>)
    BY <1>4
  <2>. QED
    BY <1>1, <1>4, <2>1, FinallyWaitCounts
<1>. QED
  BY <1>1, <1>2, <1>3, <1>4

\* An async body returns or throws.
LEMMA BodyEndCounts ==
  ASSUME PlaceInv, Inv, CountInv, Types', BodyEnd
  PROVE  Counted'
<1>. DEFINE f == run.f
            r == frames[run.f].result
<1>1. /\ dead = {} /\ run.k = "body" /\ UNCHANGED handles
      /\ \/ Chains(r) /\ WakeSole(f, r)
         \/ EndFrame(f, r, "fulfilled")
         \/ EndFrame(f, r, "rejected")
         \/ \E c \in handles : /\ queue' = Append(queue, AttachJob(c, r))
                               /\ Stakes(<<c, r>>, <<r>>)
                               /\ frames' = [frames EXCEPT ![f] = NoFrame]
                               /\ run' = Idle
                               /\ UNCHANGED <<st, handled, list, rx, tracked>>
  BY DEF BodyEnd, User
<1>2. r = frames[run.f].result
  OBVIOUS
<1>. HIDE DEF r
<1>3. CASE Chains(r) /\ WakeSole(f, r)
  BY <1>1, <1>2, <1>3, WakeSoleCounts
<1>4. CASE EndFrame(f, r, "fulfilled")
  BY <1>1, <1>2, <1>4, EndFrameCounts
<1>5. CASE EndFrame(f, r, "rejected")
  BY <1>1, <1>2, <1>5, EndFrameCounts
<1>6. CASE \E c \in handles : /\ queue' = Append(queue, AttachJob(c, r))
                              /\ Stakes(<<c, r>>, <<r>>)
                              /\ frames' = [frames EXCEPT ![f] = NoFrame]
                              /\ run' = Idle
                              /\ UNCHANGED <<st, handled, list, rx, tracked>>
  <2>1. PICK c \in handles : /\ queue' = Append(queue, AttachJob(c, r))
                             /\ Stakes(<<c, r>>, <<r>>)
                             /\ frames' = [frames EXCEPT ![f] = NoFrame]
                             /\ run' = Idle
                             /\ UNCHANGED <<st, handled, list, rx, tracked>>
    BY <1>6
  <2>. QED
    BY <1>1, <1>2, <2>1, BodyAdoptCounts
<1>. QED
  BY <1>1, <1>3, <1>4, <1>5, <1>6

\* The links of the parked frames whose result is x.
ParkedFor(x) == {link \in Link : link.k = "frame" /\ frames[link.f].result = x}

\* What the list of a cell holds, when it has no record.
LEMMA HeldCount ==
  ASSUME Types, NEW c \in Cell, NEW x \in Cell,
         \A i \in DOMAIN list[c] : ~IsRecord(list[c][i])
  PROVE  /\ Times(x, HeldByList(c)) = ListW(x, list[c]) + CountIn(list[c], ParkedFor(x))
         /\ ListW(x, list[c]) \in Nat /\ CountIn(list[c], ParkedFor(x)) \in Nat
<1>. DEFINE s == list[c]
            M == LinkD(x) \cup ParkedFor(x)
            h == HeldByList(c)
<1>1. s \in Seq(Link) /\ \A i \in DOMAIN s : s[i] \in Link
  BY DEF Types
<1>2. DOMAIN h = DOMAIN s
  BY DEF HeldByList
<1>3. ASSUME NEW i \in DOMAIN s
      PROVE  /\ h[i] = x <=> s[i] \in LinkD(x) \/ s[i] \in ParkedFor(x)
             /\ ~(s[i] \in LinkD(x) /\ s[i] \in ParkedFor(x))
             /\ s[i] \notin LinkC(x) /\ s[i] \notin LinkS(x)
  <2>1. s[i] \in Link /\ ~IsRecord(s[i])
    BY <1>1
  <2>2. s[i].k \in {"inline", "frame"}
    BY <2>1 DEF IsRecord
  <2>3. s[i] \notin LinkC(x) /\ s[i] \notin LinkS(x)
    BY <2>1, <2>2 DEF LinkC, LinkS
  <2>4. ~(s[i] \in LinkD(x) /\ s[i] \in ParkedFor(x))
    BY DEF LinkD, ParkedFor
  <2>5. CASE s[i].k = "inline"
    <3>1. h[i] = s[i].d
      BY <2>5 DEF HeldByList
    <3>. QED
      BY <2>1, <2>3, <2>4, <2>5, <3>1 DEF LinkD, ParkedFor
  <2>6. CASE s[i].k = "frame"
    <3>1. h[i] = frames[s[i].f].result
      BY <2>6 DEF HeldByList
    <3>. QED
      BY <2>1, <2>3, <2>4, <2>6, <3>1 DEF LinkD, ParkedFor
  <2>. QED
    BY <2>2, <2>5, <2>6
<1>4. {i \in DOMAIN h : h[i] = x} = {i \in DOMAIN s : s[i] \in M}
  BY <1>2, <1>3
<1>5. Times(x, h) = CountIn(s, M)
  BY <1>4 DEF Times, CountIn
<1>6. \A i \in DOMAIN s : /\ s[i] \in M <=> s[i] \in LinkD(x) \/ s[i] \in ParkedFor(x)
                          /\ ~(s[i] \in LinkD(x) /\ s[i] \in ParkedFor(x))
  BY <1>3
<1>7. \A i \in DOMAIN s : s[i] \notin LinkC(x) /\ s[i] \notin LinkS(x)
  BY <1>3
<1>. HIDE DEF s, M, h
<1>8. CountIn(s, M) = CountIn(s, LinkD(x)) + CountIn(s, ParkedFor(x))
  BY <1>1, <1>6, CountUnion
<1>9. CountIn(s, LinkC(x)) = 0 /\ CountIn(s, LinkS(x)) = 0
  BY <1>1, <1>7, CountNat
<1>10. CountIn(s, LinkD(x)) \in Nat /\ CountIn(s, ParkedFor(x)) \in Nat
  BY <1>1, CountNat
<1>11. ListW(x, s) = CountIn(s, LinkD(x)) + CountIn(s, LinkC(x)) + CountIn(s, LinkS(x))
  BY DEF ListW
<1>12. ListW(x, s) = CountIn(s, LinkD(x))
  BY <1>9, <1>10, <1>11
<1>. QED
  BY <1>5, <1>8, <1>10, <1>12 DEF s, h

\* The frames parked on a cell that goes: each was one link of its list.
LEMMA FreedCalls ==
  ASSUME Types, FramesPlaced, NEW c \in Cell, NEW x \in Cell, NEW words \in [Frame -> Row],
         \A f \in Frame : words[f] = IF Has(list[c], Parked(f)) THEN NoFrame ELSE frames[f]
  PROVE  Calls(x, frames) = Calls(x, words) + CountIn(list[c], ParkedFor(x))
<1>. DEFINE P == {f \in Frame : Has(list[c], Parked(f)) /\ frames[f].result = x}
            I == {i \in DOMAIN list[c] : list[c][i] \in ParkedFor(x)}
            A == {f \in Frame : frames[f] \in Results(x)}
            B == {f \in Frame : words[f] \in Results(x)}
            g == [i \in I |-> list[c][i].f]
<1>1. /\ list[c] \in Seq(Link) /\ frames \in [Frame -> Row]
      /\ \A i \in DOMAIN list[c] : list[c][i] \in Link
  BY DEF Types
<1>2. ASSUME NEW f \in Frame
      PROVE  /\ Has(list[c], Parked(f)) => /\ frames[f].at = "parked"
                                           /\ words[f].at = "none" /\ words[f].result # x
             /\ ~Has(list[c], Parked(f)) => words[f] = frames[f]
             /\ words[f] \in Row /\ frames[f] \in Row
  <2>1. At(f, frames[f], list, queue, run) /\ frames[f] \in Row
    BY <1>1 DEF FramesPlaced
  <2>2. Has(list[c], Parked(f)) => frames[f].at = "parked"
    BY <2>1 DEF At
  <2>3. NoFrame.at = "none" /\ NoFrame.result # x
    BY CellAssumption DEF NoFrame
  <2>. QED
    BY <2>1, <2>2, <2>3
<1>3. ASSUME NEW i \in I
      PROVE  g[i] \in P /\ list[c][i] = Parked(g[i])
  <2>1. /\ list[c][i].f \in Frame /\ list[c][i] = Parked(list[c][i].f)
        /\ frames[list[c][i].f].result = x
    BY <1>1, LinkKinds DEF ParkedFor
  <2>. QED
    BY <2>1 DEF Has
<1>4. ASSUME NEW f \in P
      PROVE  \E i \in I : g[i] = f
  <2>1. PICK i \in DOMAIN list[c] : list[c][i] = Parked(f)
    BY DEF Has
  <2>2. Parked(f) \in Link /\ Parked(f).f = f /\ Parked(f).k = "frame"
    BY MadeOK DEF Parked
  <2>3. i \in I
    BY <2>1, <2>2 DEF ParkedFor
  <2>. QED
    BY <2>1, <2>2, <2>3
<1>5. ASSUME NEW i \in I, NEW j \in I, g[i] = g[j]
      PROVE  i = j
  <2>. DEFINE f == g[i]
  <2>1. f \in Frame /\ list[c][i] = Parked(f) /\ list[c][j] = Parked(f)
    BY <1>3, <1>5
  <2>2. Once(list[c], Parked(f))
    BY <2>1 DEF FramesPlaced, At
  <2>. QED
    BY <2>1, <2>2 DEF Once
<1>6. IsFiniteSet(I) /\ CountIn(list[c], ParkedFor(x)) = Cardinality(I)
  BY <1>1, CountNat DEF CountIn
<1>7. IsFiniteSet(P) /\ Cardinality(P) = Cardinality(I)
  <2>1. g \in [I -> P]
    BY <1>3
  <2>2. \A i, j \in I : g[i] = g[j] => i = j
    BY <1>5
  <2>3. \A f \in P : \E i \in I : g[i] = f
    BY <1>4
  <2>. HIDE DEF g, I, P
  <2>. QED
    BY <1>6, <2>1, <2>2, <2>3, SameCount
<1>8. /\ IsFiniteSet(B) /\ RowsIn(words, Results(x)) = Cardinality(B)
      /\ RowsIn(frames, Results(x)) = Cardinality(A)
  BY RowsNat DEF RowsIn
<1>9. A = B \cup P /\ B \cap P = {}
  <2>1. ASSUME NEW f \in Frame
        PROVE  (f \in A <=> f \in B \/ f \in P) /\ ~(f \in B /\ f \in P)
    <3>1. CASE Has(list[c], Parked(f))
      BY <1>2, <3>1 DEF Results
    <3>2. CASE ~Has(list[c], Parked(f))
      BY <1>2, <3>2
    <3>. QED
      BY <3>1, <3>2
  <2>. QED
    BY <2>1
<1>. HIDE DEF P, I, g, A, B
<1>10. Cardinality(B \cup P) = Cardinality(B) + Cardinality(P)
  BY <1>7, <1>8, <1>9, DisjointCount
<1>11. RowsIn(frames, Results(x)) = RowsIn(words, Results(x)) + CountIn(list[c], ParkedFor(x))
  BY <1>6, <1>7, <1>8, <1>9, <1>10
<1>12. RowsIn(frames, Waits(x)) = RowsIn(words, Waits(x))
  <2>1. ASSUME NEW f \in Frame
        PROVE  frames[f] \in Waits(x) <=> words[f] \in Waits(x)
    <3>1. CASE Has(list[c], Parked(f))
      BY <1>2, <3>1 DEF Waits
    <3>2. CASE ~Has(list[c], Parked(f))
      BY <1>2, <3>2
    <3>. QED
      BY <3>1, <3>2
  <2>2. {f \in Frame : frames[f] \in Waits(x)} = {f \in Frame : words[f] \in Waits(x)}
    BY <2>1
  <2>. QED
    BY <2>2 DEF RowsIn
<1>13. /\ RowsIn(words, Waits(x)) \in Nat /\ RowsIn(words, Results(x)) \in Nat
       /\ CountIn(list[c], ParkedFor(x)) \in Nat
  BY <1>1, RowsNat, CountNat
<1>. DEFINE a == RowsIn(words, Waits(x))
            b == RowsIn(words, Results(x))
            n == CountIn(list[c], ParkedFor(x))
<1>14. Calls(x, frames) = a + (b + n) /\ Calls(x, words) = a + b
  BY <1>11, <1>12 DEF Calls
<1>15. a \in Nat /\ b \in Nat /\ n \in Nat
  BY <1>13
<1>. HIDE DEF a, b, n
<1>16. Calls(x, frames) = Calls(x, words) + n
  BY <1>14, <1>15
<1>. QED
  BY <1>16 DEF n

\* Counts from which what goes is taken: who is left at zero is dead, or free.
LEMMA FreedAfter ==
  ASSUME NEW a \in Nat, NEW t \in Nat, NEW o1 \in Nat, NEW n, o1 + t = a, n = a - t,
         NEW s, NEW z, NEW isC \in BOOLEAN, NEW isDead \in BOOLEAN, NEW stays \in BOOLEAN,
         isC => a = 0 /\ z = "free", ~isC => z = s, s = "free" => a = 0,
         isDead <=> s # "free" /\ a = 0,
         stays <=> (isDead /\ ~isC) \/ (t > 0 /\ a = t)
  PROVE  n = o1 /\ n \in Nat /\ (z = "free" => n = 0) /\ (stays <=> z # "free" /\ n = 0)
<1>1. n = o1
  OBVIOUS
<1>2. CASE isC
  <2>1. a = 0 /\ t = 0 /\ o1 = 0
    BY <1>2
  <2>. QED
    BY <1>1, <1>2, <2>1
<1>3. CASE ~isC /\ t = 0
  <2>1. n = a
    BY <1>3
  <2>. QED
    BY <1>1, <1>3, <2>1
<1>4. CASE ~isC /\ t # 0
  <2>1. t > 0 /\ a > 0
    BY <1>4
  <2>2. s # "free" /\ ~isDead
    BY <2>1
  <2>3. n = 0 <=> a = t
    OBVIOUS
  <2>. QED
    BY <1>1, <1>4, <2>1, <2>2, <2>3
<1>. QED
  BY <1>2, <1>3, <1>4

\* What a dead cell still has is in its own list: nothing else names it.
LEMMA DeadHeld ==
  ASSUME PlaceInv, CountInv, NEW c \in Cell, c \in dead
  PROVE  /\ Unowned(c) /\ Owing(c) = 0
         /\ \A i \in DOMAIN list[c] : ~IsRecord(list[c][i])
<1>1. Types /\ Counted /\ RecordsOn(list) /\ list \in [Cell -> Seq(Link)]
  BY DEF PlaceInv, Types, CountInv, WordsOK
<1>2. Unowned(c) /\ Owing(c) = 0
  BY <1>1, PoolUnowned
<1>3. ASSUME NEW i \in DOMAIN list[c], IsRecord(list[c][i])
      PROVE  FALSE
  <2>1. list[c][i].c = c
    BY <1>1, <1>3 DEF RecordsOn
  <2>2. list[c][i] \in Link
    BY <1>1
  <2>3. list[c][i] \in LinkC(c)
    BY <1>3, <2>1, <2>2 DEF LinkC
  <2>. QED
    BY <1>1, <1>2, <2>3, NothingOwed
<1>. QED
  BY <1>2, <1>3

\* free_cell: what the list held is no longer owed.
LEMMA FreedOwing ==
  ASSUME PlaceInv, CountInv, Types', NEW c \in Cell, FreeCell(c), NEW x \in Cell
  PROVE  /\ OwingAfter(x) + Times(x, HeldByList(c)) = Owing(x)
         /\ Times(x, HeldByList(c)) \in Nat
<1>1. /\ c \in dead /\ list' = [list EXCEPT ![c] = <<>>]
      /\ rx' = [e \in Cell |-> IF e = c THEN NoRx
                               ELSE IF Has(list[c], Inline(e))
                               THEN [rx[e] EXCEPT !.src = NULL]
                               ELSE rx[e]]
      /\ frames' = [f \in Frame |-> IF Has(list[c], Parked(f)) THEN NoFrame ELSE frames[f]]
      /\ UNCHANGED <<queue, run, handles, tracked>>
  BY DEF FreeCell, Has
<1>2. /\ Types /\ FramesPlaced /\ ReactionsPlaced /\ list \in [Cell -> Seq(Link)]
      /\ queue \in Seq(JobSet) /\ RunOK
  BY DEF PlaceInv, Types, CountInv
<1>3. Unowned(c) /\ \A i \in DOMAIN list[c] : ~IsRecord(list[c][i])
  BY <1>1, DeadHeld
<1>. DEFINE w == rx'
            m == list'
            words == frames'
            none == <<>>
            n1 == ListW(x, list[c])
            n2 == CountIn(list[c], ParkedFor(x))
<1>4. \A d \in Cell : Due(d, queue, run) => w[d] = rx[d]
  <2>1. ASSUME NEW d \in Cell, Due(d, queue, run)
        PROVE  w[d] = rx[d]
    <3>1. ~Has(list[c], Inline(d))
      BY <1>2, <2>1 DEF ReactionsPlaced, ReactAt
    <3>2. d # c
      BY <1>3, <2>1 DEF Unowned
    <3>. QED
      BY <1>1, <3>1, <3>2
  <2>. QED
    BY <2>1
<1>5. words \in [Frame -> Row]
  BY DEF Types
<1>6. \A f \in Frame : words[f] = IF Has(list[c], Parked(f)) THEN NoFrame ELSE frames[f]
  BY <1>1
<1>7. m \in [Cell -> Seq(Link)] /\ m[c] = none /\ \A p \in Cell \ {c} : m[p] = list[p]
  BY <1>1, <1>2 DEF Types
<1>8. none = <<>>
  OBVIOUS
<1>9. queue' = queue /\ run' = run
  BY <1>1
<1>. HIDE DEF w, m, words, none
<1>10. Times(x, HeldByList(c)) = n1 + n2 /\ n1 \in Nat /\ n2 \in Nat
  BY <1>2, <1>3, HeldCount
<1>11. Calls(x, frames) = Calls(x, words) + n2
  BY <1>2, <1>5, <1>6, FreedCalls
<1>30. Emptied(list, m, c)
  BY <1>2, <1>7, <1>8 DEF Emptied, SameBut
<1>12. Lists(x, m) = Lists(x, list) - ListW(x, list[c])
  BY <1>30, ListsLose
<1>13. Jobs(x, queue, w) = Jobs(x, queue, rx)
  <2>1. \A d \in Cell : Has(queue, ReactJob(d)) => w[d].src = rx[d].src
    BY <1>4 DEF Due
  <2>. QED
    BY <1>2, <2>1, JobsWords
<1>14. Running(x, run, w) = Running(x, run, rx)
  <2>1. CASE run.k = "next"
    <3>1. run.d \in Cell
      BY <1>2, <2>1 DEF RunOK
    <3>2. w[run.d] = rx[run.d]
      BY <1>4, <2>1, <3>1 DEF Due, Nexts
    <3>. QED
      BY <3>2 DEF Running
  <2>2. CASE run.k # "next"
    <3>1. One(run.k = "next" /\ w[run.d].src = x) = One(run.k = "next" /\ rx[run.d].src = x)
      BY <2>2 DEF One
    <3>. QED
      BY <3>1 DEF Running
  <2>. QED
    BY <2>1, <2>2
<1>. DEFINE l == Lists(x, list)
            l1 == Lists(x, m)
            j == Jobs(x, queue, rx)
            k == Calls(x, frames)
            k1 == Calls(x, words)
            u == Running(x, run, rx)
            h == One(x \in handles)
            t == One(x \in tracked)
            o == Owing(x)
            o1 == OwingAfter(x)
            p == Placed(x)
            p1 == PlacedAfter(x)
<1>15. o = h + t + p /\ o1 = One(x \in handles') + One(x \in tracked') + p1
  BY <1>2, PlacedOwing
<1>16. One(x \in handles') = h /\ One(x \in tracked') = t
  BY <1>1
<1>17. p = l + j + k + u
  BY DEF Placed
<1>18. PlacedAfter(x) = Lists(x, m) + Jobs(x, queue, w) + Calls(x, words) + Running(x, run, w)
  BY <1>9 DEF PlacedAfter, m, w, words
<1>19. p1 = l1 + j + k1 + u
  BY <1>13, <1>14, <1>18
<1>20. l \in Nat /\ j \in Nat /\ k \in Nat /\ u \in Nat /\ h \in Nat /\ t \in Nat
  BY <1>2, OwingNat, OneNat
<1>21. Lists(x, list') \in Nat /\ Calls(x, frames') \in Nat
  BY AfterNat
<1>22. l1 \in Nat /\ k1 \in Nat
  BY <1>21 DEF m, words
<1>23. l1 = l - n1 /\ k = k1 + n2
  BY <1>11, <1>12
<1>24. n1 \in Nat /\ n2 \in Nat
  BY <1>10
<1>. HIDE DEF l, l1, j, k, k1, u, h, t, o, o1, p, p1, n1, n2
<1>25. o1 + (n1 + n2) = o /\ n1 + n2 \in Nat
  BY <1>15, <1>16, <1>17, <1>19, <1>20, <1>22, <1>23, <1>24
<1>. QED
  BY <1>10, <1>25 DEF o, o1

\* A cell is torn down: the cells its list held lose a reference each.
LEMMA FreeCounts ==
  ASSUME PlaceInv, CountInv, Types', NEW c \in Cell, FreeCell(c)
  PROVE  Counted'
<1>. DEFINE held == HeldByList(c)
<1>1. /\ c \in dead
      /\ rc' = [x \in Cell |-> rc[x] - Times(x, held)]
      /\ dead' = (dead \ {c}) \cup {x \in Cell : Times(x, held) > 0 /\ rc[x] = Times(x, held)}
      /\ st' = [st EXCEPT ![c] = "free"]
  BY DEF FreeCell
<1>2. /\ Types /\ rc \in [Cell -> Nat] /\ \A x \in Cell : rc[x] = Owing(x)
      /\ \A x \in Cell : st[x] = "free" => rc[x] = 0
      /\ dead = {x \in Cell : st[x] # "free" /\ rc[x] = 0}
  BY DEF PlaceInv, CountInv, Counted
<1>3. st'[c] = "free" /\ \A x \in Cell : x # c => st'[x] = st[x]
  BY <1>1, <1>2 DEF Types
<1>4. \A x \in Cell : OwingAfter(x) + Times(x, held) = Owing(x) /\ Times(x, held) \in Nat
  BY FreedOwing
<1>5. \A x \in Cell : OwingAfter(x) \in Nat
  <2>1. ASSUME NEW x \in Cell
        PROVE  OwingAfter(x) \in Nat
    <3>. DEFINE h == One(x \in handles')
                t == One(x \in tracked')
                p1 == PlacedAfter(x)
    <3>1. OwingAfter(x) = h + t + p1 /\ p1 \in Nat /\ h \in Nat /\ t \in Nat
      BY <1>2, PlacedOwing
    <3>. HIDE DEF h, t, p1
    <3>. QED
      BY <3>1
  <2>. QED
    BY <2>1
<1>6. rc[c] = 0
  BY <1>1, <1>2
<1>. HIDE DEF held
<1>7. ASSUME NEW x \in Cell
      PROVE  /\ rc'[x] = OwingAfter(x) /\ rc'[x] \in Nat
             /\ st'[x] = "free" => rc'[x] = 0
             /\ x \in dead' <=> st'[x] # "free" /\ rc'[x] = 0
  <2>. DEFINE a == rc[x]
              t == Times(x, held)
              o1 == OwingAfter(x)
              n == rc'[x]
              s == st[x]
              z == st'[x]
              isC == x = c
              isDead == x \in dead
              stays == x \in dead'
  <2>1. a \in Nat /\ t \in Nat /\ o1 \in Nat
    BY <1>2, <1>4, <1>5
  <2>2. o1 + t = a
    BY <1>2, <1>4
  <2>3. n = a - t
    BY <1>1
  <2>4. (isC => a = 0 /\ z = "free") /\ (~isC => z = s) /\ (s = "free" => a = 0)
    BY <1>2, <1>3, <1>6
  <2>5. isDead <=> s # "free" /\ a = 0
    BY <1>2
  <2>6. stays <=> (isDead /\ ~isC) \/ (t > 0 /\ a = t)
    BY <1>1
  <2>7. isC \in BOOLEAN /\ isDead \in BOOLEAN /\ stays \in BOOLEAN
    OBVIOUS
  <2>. HIDE DEF a, t, o1, n, s, z, isC, isDead, stays
  <2>8. n = o1 /\ n \in Nat /\ (z = "free" => n = 0) /\ (stays <=> z # "free" /\ n = 0)
    BY <2>1, <2>2, <2>3, <2>4, <2>5, <2>6, <2>7, FreedAfter
  <2>. QED
    BY <2>8 DEF o1, n, z, stays
<1>8. rc' \in [Cell -> Nat]
  <2>1. rc' = [x \in Cell |-> rc'[x]]
    BY <1>1
  <2>. QED
    BY <1>7, <2>1
<1>9. dead' \subseteq Cell
  BY <1>1, <1>2
<1>10. \A x \in Cell : rc'[x] = Owing(x)'
  BY <1>7 DEF Owing, OwingAfter
<1>11. dead' = {x \in Cell : st'[x] # "free" /\ rc'[x] = 0}
  BY <1>7, <1>9
<1>. QED
  BY <1>7, <1>8, <1>10, <1>11 DEF Counted

-----------------------------------------------------------------------------
(* The induction.                                                          *)

\* At first nothing is owed and nothing is counted.
LEMMA InitCounts == Init => CountInv
<1>. SUFFICES ASSUME Init
              PROVE  CountInv
  OBVIOUS
<1>1. /\ st = [c \in Cell |-> "free"] /\ rc = [c \in Cell |-> 0]
      /\ list = [c \in Cell |-> <<>>] /\ rx = [c \in Cell |-> NoRx]
      /\ frames = [f \in Frame |-> NoFrame]
      /\ queue = <<>> /\ run = [k |-> "main"]
      /\ handles = {} /\ open = {} /\ tracked = {} /\ dead = {}
  BY DEF Init
<1>2. run.k = "main"
  BY <1>1
<1>3. ReactionsPlaced
  <2>1. ASSUME NEW d \in Cell
        PROVE  ReactAt(d, rx[d], list, queue, run)
    <3>1. ~Has(queue, ReactJob(d)) /\ Once(queue, ReactJob(d)) /\ ~Nexts(run, d)
      BY <1>1, <1>2, EmptyHas DEF Nexts
    <3>2. \A p \in Cell : ~Has(list[p], Inline(d))
      BY <1>1, EmptyHas
    <3>. QED
      BY <3>1, <3>2 DEF ReactAt, Due
  <2>. QED
    BY <2>1 DEF ReactionsPlaced
<1>4. WordsOK
  <2>1. RecordsOn(list)
    BY <1>1 DEF RecordsOn
  <2>2. \A f \in Frame : RowOK(frames[f])
    BY <1>1, ClearWords
  <2>. QED
    BY <1>1, <1>2, <2>1, <2>2 DEF WordsOK, RejectedOnly
<1>5. Types
  BY InitPlaces DEF PlaceInv
<1>6. ASSUME NEW c \in Cell
      PROVE  Owing(c) = 0
  <2>1. list \in [Cell -> Seq(Link)]
    BY <1>5 DEF Types
  <2>2. \A p \in Cell : list[p] = <<>>
    BY <1>1
  <2>3. \A K : InLists(list, K) = 0
    <3>1. \A p \in Cell : DOMAIN list[p] = {}
      BY <2>2
    <3>. QED
      BY <2>1, <3>1, ListsHave
  <2>4. Lists(c, list) = 0
    BY <2>3 DEF Lists
  <2>5. Jobs(c, queue, rx) = 0
    BY <1>1, CountEmpty DEF Jobs
  <2>6. NoFrame \notin Waits(c) /\ NoFrame \notin Results(c)
    BY CellAssumption DEF NoFrame, Waits, Results
  <2>7. RowsIn(frames, Waits(c)) = 0
    BY <1>1, <2>6, RowsNat
  <2>8. RowsIn(frames, Results(c)) = 0
    BY <1>1, <2>6, RowsNat
  <2>9. Calls(c, frames) = 0
    BY <2>7, <2>8 DEF Calls
  <2>10. Running(c, run, rx) = 0
    BY <1>2, RunningIs
  <2>11. One(c \in handles) = 0 /\ One(c \in tracked) = 0
    BY <1>1 DEF One
  <2>. QED
    BY <2>4, <2>5, <2>9, <2>10, <2>11 DEF Owing, Owed
<1>7. Counted
  BY <1>1, <1>6 DEF Counted
<1>. QED
  BY <1>3, <1>4, <1>7 DEF CountInv

\* Every step keeps every count.
LEMMA StepCounts ==
  ASSUME PlaceInv, Inv, CountInv, [Next]_vars
  PROVE  CountInv'
<1>1. Types'
  BY StepPlaces DEF PlaceInv
<1>2. Types /\ ReactionsPlaced /\ WordsOK /\ Counted
  BY DEF PlaceInv, CountInv
<1>3. \A c \in Cell : st[c] = "free" \/ c \in dead => Unowned(c)
  BY <1>2, PoolUnowned
<1>4. \A c \in dead : c \notin tracked
  BY <1>2, <1>3 DEF Unowned, Counted
<1>5. ReactionsPlaced'
  BY <1>2, <1>3, StepReacts
<1>6. WordsOK'
  BY <1>2, <1>4, StepWords
<1>7. Counted'
  <2>1. ASSUME NEW c \in Cell, NEW s \in {"pending", "fulfilled", "rejected"}, New(c, s)
        PROVE  Counted'
    BY <1>1, <2>1, NewKeptCounts, NewRejectedCounts
  <2>2. ASSUME NEW c \in Cell, NEW o \in Outcome, Resolve(c, o)
        PROVE  Counted'
    BY <1>1, <2>2, ResolveCounts
  <2>3. ASSUME NEW c \in Cell, Drop(c) \/ BodyAwait(c) \/ FreeCell(c)
        PROVE  Counted'
    BY <1>1, <2>3, DropCounts, BodyAwaitCounts, FreeCounts
  <2>4. ASSUME NEW s \in Cell, NEW d \in Cell, NEW kind \in {"then", "catch"},
               Then(s, d, kind)
        PROVE  Counted'
    BY <1>1, <2>4, ThenCounts
  <2>5. ASSUME NEW s \in Cell, NEW d \in Cell, ThenNone(s, d) \/ ThenTwo(s, d) \/ Finally(s, d)
        PROVE  Counted'
    BY <1>1, <2>5, DeriveCounts DEF ThenNone, ThenTwo, Finally
  <2>6. ASSUME NEW f \in Frame, NEW r \in Cell, NEW c \in Cell, CallAsync(f, r, c)
        PROVE  Counted'
    BY <1>1, <2>6, CallCounts
  <2>7. CASE MainEnd \/ Quiet \/ UNCHANGED vars
    BY <1>1, <2>7, MainEndCounts
  <2>8. CASE HandlerEnd \/ FinallyEnd \/ BodyEnd \/ BodyAwaitValue
    BY <1>1, <2>8, HandlerEndCounts, FinallyEndCounts, BodyEndCounts, BodyAwaitValueCounts
  <2>9. CASE RunReact \/ RunResume \/ RunNext \/ RunFrame
    BY <1>1, <2>9, RunReactCounts, ResumeCounts, RunNextCounts
  <2>10. CASE RunAttach \/ RunAdopt \/ RunRecord \/ RunWait
    BY <1>1, <2>10, RunAttachCounts, AdoptedCounts, RunRecordCounts
  <2>. QED
    BY <2>1, <2>2, <2>3, <2>4, <2>5, <2>6, <2>7, <2>8, <2>9, <2>10 DEF Next
<1>. QED
  BY <1>5, <1>6, <1>7 DEF CountInv

\* The inductive invariant, over the two before it.
THEOREM CountsHold == Spec => []CountInv
<1>1. Init => Inv /\ PlaceInv /\ CountInv
  BY InitInv, InitPlaces, InitCounts
<1>2. Inv /\ PlaceInv /\ CountInv /\ [Next]_vars => (Inv /\ PlaceInv /\ CountInv)'
  BY StepInv, StepPlaces, StepCounts
<1>. QED
  BY <1>1, <1>2, PTL DEF Spec

-----------------------------------------------------------------------------
(* The theorems about the counts.                                          *)

\* The owners the property counts are those of the inductive invariant.
LEMMA OwnersOwed ==
  ASSUME Types, NEW c \in Cell
  PROVE  Owners(c) = Owing(c)
<1>. DEFINE places == UNION {{<<p, i>> : i \in DOMAIN list[p]} : p \in Cell}
            inLists == {e \in places : /\ list[e[1]][e[2]].k # "frame"
                                       /\ list[e[1]][e[2]].d = c}
            inners == {e \in places : /\ IsRecord(list[e[1]][e[2]])
                                      /\ list[e[1]][e[2]].c = c}
            kept == {e \in places : /\ list[e[1]][e[2]].k = "wait"
                                    /\ list[e[1]][e[2]].s = c}
            jobs == {i \in DOMAIN queue : queue[i].k # "resume" /\ queue[i].d = c}
            sources == {i \in DOMAIN queue :
                          \/ queue[i].k = "react" /\ rx[queue[i].d].src = c
                          \/ queue[i].k \notin {"react", "resume"} /\ queue[i].c = c}
            waited == {i \in DOMAIN queue : queue[i].k = "wait" /\ queue[i].s = c}
            waits == {f \in Frame : frames[f].at = "queued" /\ frames[f].src = c}
            results == {f \in Frame : frames[f].result = c}
<1>1. /\ list \in [Cell -> Seq(Link)] /\ queue \in Seq(JobSet) /\ frames \in [Frame -> Row]
  BY DEF Types
<1>2. /\ \A p \in Cell : \A i \in DOMAIN list[p] : list[p][i] \in Link
      /\ \A i \in DOMAIN queue : queue[i] \in JobSet
  BY <1>1
<1>3. ASSUME NEW K
      PROVE  UNION {EntriesOf(list, p, K) : p \in Cell}
               = {e \in places : list[e[1]][e[2]] \in K}
  BY DEF EntriesOf
<1>4. \A e \in places : list[e[1]][e[2]] \in Link
  BY <1>2
<1>5. Cardinality(inLists) = InLists(list, LinkD(c))
  <2>1. inLists = {e \in places : list[e[1]][e[2]] \in LinkD(c)}
    BY <1>4 DEF LinkD
  <2>. QED
    BY <1>3, <2>1 DEF InLists
<1>6. Cardinality(inners) = InLists(list, LinkC(c))
  <2>1. inners = {e \in places : list[e[1]][e[2]] \in LinkC(c)}
    BY <1>4 DEF LinkC
  <2>. QED
    BY <1>3, <2>1 DEF InLists
<1>7. Cardinality(kept) = InLists(list, LinkS(c))
  <2>1. kept = {e \in places : list[e[1]][e[2]] \in LinkS(c)}
    BY <1>4 DEF LinkS
  <2>. QED
    BY <1>3, <2>1 DEF InLists
<1>8. Cardinality(jobs) = CountIn(queue, JobD(c))
  <2>1. jobs = {i \in DOMAIN queue : queue[i] \in JobD(c)}
    BY <1>2 DEF JobD
  <2>. QED
    BY <2>1 DEF CountIn
<1>9. Cardinality(sources) = CountIn(queue, JobC(c, rx))
  <2>1. sources = {i \in DOMAIN queue : queue[i] \in JobC(c, rx)}
    BY <1>2 DEF JobC
  <2>. QED
    BY <2>1 DEF CountIn
<1>10. Cardinality(waited) = CountIn(queue, JobS(c))
  <2>1. waited = {i \in DOMAIN queue : queue[i] \in JobS(c)}
    BY <1>2 DEF JobS
  <2>. QED
    BY <2>1 DEF CountIn
<1>11. Cardinality(waits) = RowsIn(frames, Waits(c))
  <2>1. waits = {f \in Frame : frames[f] \in Waits(c)}
    BY <1>1 DEF Waits
  <2>. QED
    BY <2>1 DEF RowsIn
<1>12. Cardinality(results) = RowsIn(frames, Results(c))
  <2>1. results = {f \in Frame : frames[f] \in Results(c)}
    BY <1>1 DEF Results
  <2>. QED
    BY <2>1 DEF RowsIn
<1>. DEFINE h == One(c \in handles)
            t == One(c \in tracked)
            la == Cardinality(inLists)
            lb == Cardinality(inners)
            lc == Cardinality(kept)
            ja == Cardinality(jobs)
            jb == Cardinality(sources)
            jc == Cardinality(waited)
            fa == Cardinality(waits)
            fb == Cardinality(results)
            ra == One(run.k \in {"handler", "next"} /\ run.d = c)
            rb == One(run.k = "handler" /\ run.src = c)
            rn == One(run.k = "next" /\ rx[run.d].src = c)
<1>13. Owners(c) = h + t + la + lb + lc + ja + jb + jc + fa + fb + ra + rb + rn
  BY SMTT(30) DEF Owners
<1>14. /\ Lists(c, list) = la + lb + lc /\ Jobs(c, queue, rx) = ja + jb + jc
       /\ Calls(c, frames) = fa + fb /\ Running(c, run, rx) = ra + rb + rn
  BY <1>5, <1>6, <1>7, <1>8, <1>9, <1>10, <1>11, <1>12 DEF Lists, Jobs, Calls, Running
<1>15. h \in Nat /\ t \in Nat /\ ra \in Nat /\ rb \in Nat /\ rn \in Nat
  BY OneNat, SMTT(30)
<1>16. la \in Nat /\ lb \in Nat /\ lc \in Nat
  <2>1. ASSUME NEW K
        PROVE  InLists(list, K) \in Nat
    BY <1>1, ListsSplit
  <2>2. la \in Nat
    BY <1>5, <2>1
  <2>3. lb \in Nat
    BY <1>6, <2>1
  <2>4. lc \in Nat
    BY <1>7, <2>1
  <2>. QED
    BY <2>2, <2>3, <2>4
<1>17. ja \in Nat /\ jb \in Nat /\ jc \in Nat
  <2>1. ASSUME NEW K
        PROVE  CountIn(queue, K) \in Nat
    BY <1>1, CountNat
  <2>2. ja \in Nat
    BY <1>8, <2>1
  <2>3. jb \in Nat
    BY <1>9, <2>1
  <2>4. jc \in Nat
    BY <1>10, <2>1
  <2>. QED
    BY <2>2, <2>3, <2>4
<1>18. fa \in Nat /\ fb \in Nat
  <2>1. \A K : RowsIn(frames, K) \in Nat
    BY RowsNat
  <2>. QED
    BY <1>11, <1>12, <2>1
<1>19. Owing(c) = h + t + (la + lb + lc) + (ja + jb + jc) + (fa + fb) + (ra + rb + rn)
  BY <1>14 DEF Owing, Owed
<1>. HIDE DEF h, t, la, lb, lc, ja, jb, jc, fa, fb, ra, rb, rn
<1>. QED
  BY <1>13, <1>15, <1>16, <1>17, <1>18, <1>19

\* The types of the cells' words as the property has them.
LEMMA CountedTypes == Inv /\ PlaceInv /\ CountInv => TypeOK
<1>. SUFFICES ASSUME Inv, PlaceInv, CountInv
              PROVE  TypeOK
  OBVIOUS
<1>1. /\ st \in [Cell -> {"free", "pending"} \cup Outcome]
      /\ handled \in [Cell -> BOOLEAN]
  BY DEF Inv, Words, State
<1>2. rc \in [Cell -> Nat]
  BY DEF CountInv, Counted
<1>3. /\ \A c \in Cell : \A i \in DOMAIN list[c] : list[c][i] \in Link
      /\ \A i \in DOMAIN queue : queue[i] \in JobSet
  BY DEF PlaceInv, Types
<1>4. /\ rx \in [Cell -> [kind : {"none", "then", "catch"}, src : Cell \cup {NULL}]]
      /\ handles \subseteq Cell
  BY DEF PlaceInv, Types, Word
<1>5. frames \in [Frame -> [at : {"none", "parked", "queued", "running"},
                            src : Cell \cup {NULL}, result : Cell \cup {NULL}]]
  BY DEF PlaceInv, Types, Word, Row
<1>6. open \subseteq handles /\ tracked \subseteq Cell /\ dead \subseteq Cell
  BY DEF CountInv, WordsOK, RejectedOnly, Counted
<1>7. ASSUME NEW c \in Cell, ~Live(c)
      PROVE  rc[c] = 0 /\ list[c] = <<>> /\ rx[c] = NoRx
  <2>1. st[c] = "free"
    BY <1>7 DEF Live
  <2>. QED
    BY <2>1 DEF CountInv, WordsOK, Counted, Inv, NoneStranded
<1>. QED
  BY <1>1, <1>2, <1>3, <1>4, <1>5, <1>6, <1>7 DEF TypeOK

\* A count is the number of owners through every hand-over (list to queue,
\* dispatcher to next reaction, frame to waiter), the rejection list's own reference
\* and the teardown of a dead cell's list included: no cell is torn down under an
\* owner and none is left with a count no owner answers for.
THEOREM OwnersCounted == Spec => []CountsOwners
<1>1. Inv /\ PlaceInv /\ CountInv => CountsOwners
  <2>. SUFFICES ASSUME Inv, PlaceInv, CountInv
                PROVE  CountsOwners
    OBVIOUS
  <2>1. \A c \in Cell : rc[c] = Owners(c)
    BY OwnersOwed DEF PlaceInv, CountInv, Counted
  <2>. QED
    BY <2>1, CountedTypes DEF CountsOwners
<1>. QED
  BY <1>1, InvHolds, PlacesHold, CountsHold, PTL

\* How p keeps c by one entry of its list.
LEMMA KeepsBy ==
  ASSUME NEW p, NEW c, NEW i \in DOMAIN list[p], NEW link, link = list[p][i],
         \/ link.k = "frame" /\ frames[link.f].result = c
         \/ link.k = "wait" /\ c \in {link.c, link.d, link.s}
         \/ link.k # "wait" /\ IsRecord(link) /\ c \in {link.c, link.d}
         \/ link.k = "inline" /\ link.d = c
  PROVE  Keeps(p, c)
<1>. DEFINE by(e) == CASE e.k = "frame" -> frames[e.f].result = c
                       [] e.k = "wait" -> c \in {e.c, e.d, e.s}
                       [] e.k = "inline" -> e.d = c
                       [] OTHER -> c \in {e.c, e.d}
<1>1. ASSUME link.k = "frame", frames[link.f].result = c
      PROVE  by(link)
  BY <1>1 DEF IsRecord
<1>2. ASSUME link.k = "wait", c \in {link.c, link.d, link.s}
      PROVE  by(link)
  BY <1>2 DEF IsRecord
<1>3. ASSUME link.k # "wait", IsRecord(link), c \in {link.c, link.d}
      PROVE  by(link)
  BY <1>3 DEF IsRecord
<1>4. ASSUME link.k = "inline", link.d = c
      PROVE  by(link)
  BY <1>4 DEF IsRecord
<1>5. by(link)
  BY <1>1, <1>2, <1>3, <1>4
<1>6. Keeps(p, c) <=> \E j \in DOMAIN list[p] : by(list[p][j])
  BY DEF Keeps
<1>. HIDE DEF by
<1>. QED
  BY <1>5, <1>6

\* A link that holds c is in the list of a pending promise, which keeps c by it.
LEMMA LinkKeeps ==
  ASSUME Inv, PlaceInv, NEW p \in Cell, NEW i \in DOMAIN list[p], NEW c \in Cell,
         list[p][i] \in LinkD(c) \/ list[p][i] \in LinkC(c) \/ list[p][i] \in LinkS(c)
  PROVE  st[p] = "pending" /\ Keeps(p, c)
<1>. DEFINE link == list[p][i]
<1>1. list[p] \in Seq(Link)
  BY DEF PlaceInv, Types
<1>2. list[p] # <<>>
  BY <1>1
<1>3. st[p] = "pending"
  BY <1>2 DEF Inv, NoneStranded
<1>4. ASSUME link \in LinkD(c)
      PROVE  Keeps(p, c)
  <2>1. link.k # "frame" /\ link.d = c
    BY <1>4 DEF LinkD
  <2>2. \/ link.k = "wait"
        \/ link.k # "wait" /\ IsRecord(link)
        \/ link.k = "inline"
    BY <2>1 DEF IsRecord
  <2>. HIDE DEF link
  <2>. QED
    BY <2>1, <2>2, KeepsBy DEF link
<1>5. ASSUME link \in LinkC(c)
      PROVE  Keeps(p, c)
  <2>1. IsRecord(link) /\ link.c = c
    BY <1>5 DEF LinkC
  <2>. QED
    BY <2>1, KeepsBy
<1>6. ASSUME link \in LinkS(c)
      PROVE  Keeps(p, c)
  <2>1. link.k = "wait" /\ link.s = c
    BY <1>6 DEF LinkS
  <2>. QED
    BY <2>1, KeepsBy
<1>. QED
  BY <1>3, <1>4, <1>5, <1>6

\* A frame that has the promise of its call and neither runs nor is about to is
\* parked on a pending promise, which keeps its own by it.
LEMMA FrameKeeps ==
  ASSUME Inv, PlaceInv, CountInv, NEW f \in Frame, NEW c \in Cell, frames[f].result = c,
         queue = <<>>, run = Idle
  PROVE  \E p \in Cell : st[p] = "pending" /\ Keeps(p, c)
<1>. DEFINE p == frames[f].src
<1>1. ~Wakes(run, f) /\ ~Runs(run, f) /\ ~Has(queue, ResumeJob(f))
  BY EmptyHas DEF Wakes, Runs, Idle
<1>2. frames[f].at \in {"none", "parked", "queued", "running"}
  BY DEF PlaceInv, Types, Row
<1>3. At(f, frames[f], list, queue, run)
  BY DEF PlaceInv, FramesPlaced
<1>4. frames[f].at # "queued" /\ frames[f].at # "running"
  BY <1>1, <1>3 DEF At
<1>5. frames[f].at # "none"
  BY CellAssumption DEF CountInv, WordsOK, RowOK
<1>6. p \in Cell /\ Has(list[p], Parked(f))
  BY <1>2, <1>3, <1>4, <1>5 DEF At
<1>7. PICK i \in DOMAIN list[p] : list[p][i] = Parked(f)
  BY <1>6 DEF Has
<1>8. list[p] \in Seq(Link)
  BY <1>6 DEF PlaceInv, Types
<1>9. list[p] # <<>>
  BY <1>7, <1>8
<1>10. st[p] = "pending"
  BY <1>6, <1>9 DEF Inv, NoneStranded
<1>11. Keeps(p, c)
  BY <1>7, KeepsBy DEF Parked
<1>. QED
  BY <1>6, <1>10, <1>11

\* Once the program holds nothing and no job is left, every cell in memory is a
\* rejection the exit sweep is to look at or is kept by a pending promise: a settled
\* one keeps nothing, and a chain whose source has gone is torn down with it
\* (free_cell, free_chain).
THEOREM NothingLeaked == Spec => []NothingLeaks
<1>1. Inv /\ PlaceInv /\ CountInv => NothingLeaks
  <2>. SUFFICES ASSUME Inv, PlaceInv, CountInv, dead = {}, run = Idle, queue = <<>>,
                       handles = {}, NEW c \in Cell, Live(c), c \notin tracked
                PROVE  \E p \in Cell : st[p] = "pending" /\ Keeps(p, c)
    BY DEF NothingLeaks
  <2>1. Types /\ list \in [Cell -> Seq(Link)]
    BY DEF PlaceInv, Types
  <2>2. Owing(c) # 0
    BY DEF CountInv, Counted, Live
  <2>3. One(c \in handles) = 0 /\ One(c \in tracked) = 0
    BY DEF One
  <2>4. Jobs(c, queue, rx) = 0
    BY CountEmpty DEF Jobs
  <2>5. Running(c, run, rx) = 0
    BY RunningIs DEF Idle
  <2>6. Lists(c, list) # 0 \/ Calls(c, frames) # 0
    BY <2>2, <2>3, <2>4, <2>5 DEF Owing, Owed
  <2>7. CASE Lists(c, list) # 0
    <3>1. \E K \in {LinkD(c), LinkC(c), LinkS(c)} : InLists(list, K) # 0
      BY <2>7 DEF Lists
    <3>2. PICK K \in {LinkD(c), LinkC(c), LinkS(c)} : InLists(list, K) # 0
      BY <3>1
    <3>3. \E p \in Cell : \E i \in DOMAIN list[p] : list[p][i] \in K
      BY <2>1, <3>2, ListsHave
    <3>. QED
      BY <3>2, <3>3, LinkKeeps
  <2>8. CASE Calls(c, frames) # 0
    <3>1. RowsIn(frames, Waits(c)) # 0 \/ RowsIn(frames, Results(c)) # 0
      BY <2>8 DEF Calls
    <3>2. CASE RowsIn(frames, Waits(c)) # 0
      <4>1. PICK f \in Frame : frames[f] \in Waits(c)
        BY <3>2, RowsNat
      <4>2. frames[f].at = "queued"
        BY <4>1 DEF Waits
      <4>3. ~Wakes(run, f) /\ ~Has(queue, ResumeJob(f))
        BY EmptyHas DEF Wakes, Idle
      <4>. QED
        BY <4>2, <4>3 DEF PlaceInv, FramesPlaced, At
    <3>3. CASE RowsIn(frames, Results(c)) # 0
      <4>1. PICK f \in Frame : frames[f] \in Results(c)
        BY <3>3, RowsNat
      <4>2. frames[f].result = c
        BY <4>1 DEF Results
      <4>. QED
        BY <4>2, FrameKeeps
    <3>. QED
      BY <3>1, <3>2, <3>3
  <2>. QED
    BY <2>6, <2>7, <2>8
<1>. QED
  BY <1>1, InvHolds, PlacesHold, CountsHold, PTL
=============================================================================
