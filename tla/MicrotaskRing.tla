--------------------------- MODULE MicrotaskRing ---------------------------
(***************************************************************************)
(* torajs-microtask: the ring the jobs wait in (src/lib.rs), the drain at  *)
(* the program's exit, and the waits of a module body, which runs the jobs *)
(* ahead of its continuation from its own frame (src/wait.rs, and the      *)
(* await loop of torajs-promise, src/module_await.rs).                     *)
(*                                                                         *)
(* The runtime is single-threaded: a job runs until it returns, and the    *)
(* steps of one job are its pushes, the objects it keeps alive and the     *)
(* settlement of what the body waits on.                                   *)
(***************************************************************************)
EXTENDS Naturals, Sequences

CONSTANTS Task,          \* the jobs a program queues
          InitialCap,    \* entries of the ring's first allocation: 32
          CountBound     \* bound of the model: the push count stops here

ASSUME TaskAssumption ==
    Task \cap {"mark", "landing", "body", "host", "nobody", "junk"} = {}
ASSUME CapAssumption == InitialCap \in Nat \ {0}
ASSUME BoundAssumption == CountBound \in Nat

Mark == "mark"         \* mark_job
Landing == "landing"   \* the resumption of the body's parked waiter
Host == "host"         \* a FinalizationRegistry cleanup
Nobody == "nobody"
Junk == "junk"         \* a slot nothing was written to
Entry == Task \cup {Mark, Landing}

VARIABLES buf, cap,    \* MT_QUEUE and MT_CAP
          head, tail,  \* MT_HEAD and MT_TAIL, counts that run free
          job,         \* the job that runs, Nobody outside one
          at,          \* the loop or code under it (Place)
          set,         \* the watched bytes that are set: MARK and READY
          await,       \* what the body waits on (Awaited)
          kept, hook   \* KeepDuringJob list not empty; KEPT_CLEAR installed

ring == <<buf, cap, head, tail>>
vars == <<buf, cap, head, tail, job, at, set, await, kept, hook>>

(***************************************************************************)
(* body    the module body runs                                            *)
(* mark    run_until, watching MARK (yield_behind)                         *)
(* ready   run_until, watching READY (park_and_run)                        *)
(* byte    await_byte_run, watching the state of a call's result           *)
(* dry     an await answered 0: a host job is due (await_slow)             *)
(* again   the host job is over, and await_slow waits again                *)
(* exit    host_jobs_run_until_idle, before run_until_idle                 *)
(* drain   drain, before a pop                                             *)
(* host    host_jobs_run_until_idle, before the host job                   *)
(* done    the exit checkpoint is over                                     *)
(***************************************************************************)
Place == {"body", "mark", "ready", "byte", "dry", "again",
          "exit", "drain", "host", "done"}

(***************************************************************************)
(* none      nothing, or what has settled and its continuation is queued   *)
(* promise   a pending promise; the waiter is in its list unless at = dry  *)
(* call      the pending result of an async call, by its state byte        *)
(* called    that result, settled, its continuation not yet queued         *)
(* settled   a promise that settled while the waiter was out of its list   *)
(***************************************************************************)
Awaited == {"none", "promise", "call", "called", "settled"}

Init == /\ buf = [i \in {} |-> Junk]
        /\ cap = 0
        /\ head = 0 /\ tail = 0
        /\ job = Nobody
        /\ at = "body"
        /\ set = {}
        /\ await = "none"
        /\ kept = FALSE /\ hook = FALSE

-----------------------------------------------------------------------------
Empty == head = tail
Slot(count, size) == count % size

\* The queued jobs, oldest first.
Contents == [i \in 1 .. tail - head |-> buf[Slot(head + i - 1, cap)]]

\* Mutant: the run that wrapped is left where it was.
GrowUnmoved(e) ==
    LET size == IF cap = 0 THEN InitialCap ELSE 2 * cap
        h == IF cap = 0 THEN head ELSE Slot(head, cap)
    IN  /\ cap' = size
        /\ buf' = [i \in 0 .. size - 1 |->
                     IF i = h + cap THEN e
                     ELSE IF i < cap THEN buf[i]
                     ELSE Junk]
        /\ head' = h
        /\ tail' = h + cap + 1

\* grow_and_push: the run that wrapped to the front of the old ring moves up
\* behind its end, and the counts restart from the old head slot.
Grow(e) ==
    LET size == IF cap = 0 THEN InitialCap ELSE 2 * cap
        h == IF cap = 0 THEN head ELSE Slot(head, cap)
    IN  /\ cap' = size
        /\ buf' = [i \in 0 .. size - 1 |->
                     IF i = h + cap THEN e
                     ELSE IF i < cap THEN buf[i]
                     ELSE IF i < cap + h THEN buf[i - cap]
                     ELSE Junk]
        /\ head' = h
        /\ tail' = h + cap + 1

\* Mutant: the fullness test lets the last push land on the head.
PushLate(e) ==
    IF cap = 0 \/ tail - head = cap + 1
    THEN Grow(e)
    ELSE /\ buf' = [buf EXCEPT ![Slot(tail, cap)] = e]
         /\ tail' = tail + 1
         /\ UNCHANGED <<cap, head>>

\* __torajs_microtask_enqueue
Push(e) ==
    IF tail - head = cap
    THEN Grow(e)
    ELSE /\ buf' = [buf EXCEPT ![Slot(tail, cap)] = e]
         /\ tail' = tail + 1
         /\ UNCHANGED <<cap, head>>

\* The counts restart from the first slot.
Restart == head' = 0 /\ tail' = 0 /\ UNCHANGED <<buf, cap>>

\* Mutant: the counts restart with jobs pending.
RestartAnyway == Restart

\* reset_if_idle
RestartIfIdle == IF Empty THEN Restart ELSE UNCHANGED ring

\* Mutant: the boundary is skipped.
KeepForever == UNCHANGED <<kept, hook>>

\* clear_kept_objects, at a job boundary.
ClearKept == /\ kept' = (kept /\ ~hook)
             /\ UNCHANGED hook

-----------------------------------------------------------------------------
(* What a running job, a host job or the body does.                        *)

Active == job \in Task \cup {Host} \/ (at = "body" /\ job = Nobody)

\* The running code queues a job (a reaction, queueMicrotask).  What settles
\* a call's result is the last call of its job (module_await.rs).
Enqueue(t) == /\ Active
              /\ await # "called"
              /\ tail < CountBound
              /\ Push(t)
              /\ UNCHANGED <<job, at, set, await, kept, hook>>

\* The running code makes or derefs a WeakRef; the first installs the hook.
Keep == /\ Active
        /\ kept' = TRUE
        /\ hook' = TRUE
        /\ UNCHANGED <<buf, cap, head, tail, job, at, set, await>>

\* A job settles the promise the waiter is parked on: the waiter's resumption
\* is queued like any frame's.
SettleParked == /\ job \in Task
                /\ await = "promise"
                /\ Push(Landing)
                /\ await' = "none"
                /\ UNCHANGED <<job, at, set, kept, hook>>

\* A frame's return or throw settles the result the body watches.
SettleCall == /\ job \in Task
              /\ await = "call"
              /\ await' = "called"
              /\ UNCHANGED <<buf, cap, head, tail, job, at, set, kept, hook>>

\* A host job settles the promise while the waiter is out of its list.
SettleUnparked == /\ job = Host
                  /\ await = "promise"
                  /\ await' = "settled"
                  /\ UNCHANGED <<buf, cap, head, tail, job, at, set, kept, hook>>

-----------------------------------------------------------------------------
(* The awaits of the module body.                                          *)

InBody == at = "body" /\ job = Nobody

\* __torajs_microtask_yield: with jobs pending the mark is queued behind them.
Yield == IF Empty
         THEN /\ Restart
              /\ at' = "body"
              /\ UNCHANGED set
         ELSE /\ Push(Mark)
              /\ at' = "mark"
              /\ UNCHANGED set

\* await of a settled promise or of a value that is not a thenable.
AwaitSettled == /\ InBody
                /\ tail < CountBound
                /\ Yield
                /\ ClearKept
                /\ UNCHANGED <<job, await>>

\* await of a pending promise: the waiter is parked, and run_until ends the
\* body's job.
AwaitPromise == /\ InBody
                /\ await' = "promise"
                /\ at' = "ready"
                /\ ClearKept
                /\ UNCHANGED <<buf, cap, head, tail, job, set>>

\* await of an async call's pending result.
AwaitCall == /\ InBody
             /\ await' = "call"
             /\ at' = "byte"
             /\ ClearKept
             /\ UNCHANGED <<buf, cap, head, tail, job, set>>

\* The body returns, and main runs the exit checkpoint.
Finish == /\ InBody
          /\ at' = "exit"
          /\ UNCHANGED <<buf, cap, head, tail, job, set, await, kept, hook>>

-----------------------------------------------------------------------------
(* The loops that run jobs.                                                *)

Watched == IF at = "mark" THEN Mark ELSE Landing

\* run_one, and the pop of drain: the count moves before the job runs.
Pop == /\ job = Nobody
       /\ at \in {"mark", "ready", "byte", "drain"}
       /\ Watched \notin set
       /\ await # "called"
       /\ ~Empty
       /\ job' = buf[Slot(head, cap)]
       /\ head' = head + 1
       /\ UNCHANGED <<buf, cap, tail, at, set, await, kept, hook>>

\* drain's test behind a job: the last one restarts the counts.
DrainEnd == IF Empty
            THEN Restart /\ at' = "host"
            ELSE UNCHANGED ring /\ at' = at

\* A job returns to the loop that popped it; mark_job and landing have set
\* their byte.
EndJob == /\ job \in Entry
          /\ job' = Nobody
          /\ set' = set \cup ({job} \ Task)
          /\ ClearKept
          /\ IF at = "drain" THEN DrainEnd ELSE UNCHANGED ring /\ at' = at
          /\ UNCHANGED await

\* Mutant: the caller leaves the byte set.
ReachedUncleared == /\ job = Nobody
                    /\ at \in {"mark", "ready"}
                    /\ Watched \in set
                    /\ RestartIfIdle
                    /\ at' = "body"
                    /\ UNCHANGED <<job, set, await, kept, hook>>

\* run_until answers 1, and the caller clears the byte.
Reached == /\ job = Nobody
           /\ at \in {"mark", "ready"}
           /\ Watched \in set
           /\ set' = set \ {Watched}
           /\ RestartIfIdle
           /\ at' = "body"
           /\ UNCHANGED <<job, await, kept, hook>>

\* run_until or await_byte_run finds no job: the await answers 0.  (run_until
\* on MARK ignores the answer.)
RunDry == /\ job = Nobody
          /\ at \in {"mark", "ready", "byte"}
          /\ Watched \notin set
          /\ await # "called"
          /\ Empty
          /\ Restart
          /\ at' = IF at = "mark" THEN "body" ELSE "dry"
          /\ UNCHANGED <<job, set, await, kept, hook>>

\* await_byte_run after the job that settled the result: the continuation is
\* the next job, or goes in behind the jobs pending now.
CallSettled == /\ job = Nobody
               /\ at = "byte"
               /\ await = "called"
               /\ await' = "none"
               /\ IF Empty
                  THEN /\ Restart
                       /\ at' = "body"
                       /\ UNCHANGED <<kept, hook>>
                  ELSE /\ Push(Mark)
                       /\ at' = "mark"
                       /\ ClearKept
               /\ UNCHANGED <<job, set>>

\* run_until_idle of the exit checkpoint.
EnterDrain == /\ at = "exit"
              /\ ClearKept
              /\ at' = IF Empty THEN "host" ELSE "drain"
              /\ UNCHANGED <<buf, cap, head, tail, job, set, await>>

\* A host job starts: an await ran dry, or the exit drain is over.
RunHost == /\ at \in {"dry", "host"}
           /\ job = Nobody
           /\ job' = Host
           /\ UNCHANGED <<buf, cap, head, tail, at, set, await, kept, hook>>

\* The host job of await_slow returned, or threw and was reported.
HostReturn == /\ job = Host
              /\ at = "dry"
              /\ job' = Nobody
              /\ at' = "again"
              /\ UNCHANGED <<buf, cap, head, tail, set, await, kept, hook>>

\* await_slow waits as before: parked, on the byte, or as for what is settled.
AwaitAgain == /\ at = "again"
              /\ ClearKept
              /\ UNCHANGED job
              /\ \/ /\ await = "promise"
                    /\ at' = "ready"
                    /\ UNCHANGED <<buf, cap, head, tail, set, await>>
                 \/ /\ await = "call"
                    /\ at' = "byte"
                    /\ UNCHANGED <<buf, cap, head, tail, set, await>>
                 \/ /\ await = "settled"
                    /\ await' = "none"
                    /\ Yield

\* With no host job left, the await raises the cancel throw and the body ends.
Cancel == /\ at = "dry"
          /\ job = Nobody
          /\ at' = "exit"
          /\ await' = "none"
          /\ UNCHANGED <<buf, cap, head, tail, job, set, kept, hook>>

\* A host job of the exit checkpoint returned 1 (around again) or threw.
HostEnd == /\ job = Host
           /\ at = "host"
           /\ job' = Nobody
           /\ at' \in {"exit", "done"}
           /\ UNCHANGED <<buf, cap, head, tail, set, await, kept, hook>>

\* No host job is left.
Quit == /\ at = "host"
        /\ job = Nobody
        /\ at' = "done"
        /\ UNCHANGED <<buf, cap, head, tail, job, set, await, kept, hook>>

\* main goes on to the exit code; the queue is not looked at again.
Exited == at = "done" /\ UNCHANGED vars

\* The steps the runtime takes by itself, given that user code returns.
Progress == \/ Finish \/ Pop \/ EndJob \/ Reached \/ RunDry \/ CallSettled
            \/ EnterDrain \/ HostReturn \/ AwaitAgain \/ Cancel \/ HostEnd \/ Quit

Next == \/ \E t \in Task : Enqueue(t)
        \/ Keep \/ SettleParked \/ SettleCall \/ SettleUnparked
        \/ AwaitSettled \/ AwaitPromise \/ AwaitCall
        \/ RunHost
        \/ Progress
        \/ Exited

Spec == Init /\ [][Next]_vars

\* Every job and the body return or await in the end, and the loops run on.
FairSpec == Spec /\ WF_vars(Progress)

-----------------------------------------------------------------------------
\* Every variable holds a value of its kind; the pending counts fit the ring.
TypeOK == /\ cap \in Nat
          /\ head \in Nat /\ tail \in Nat
          /\ head <= tail /\ tail - head <= cap
          /\ buf \in [0 .. cap - 1 -> Entry \cup {Junk}]
          /\ job \in Entry \cup {Host, Nobody}
          /\ at \in Place
          /\ set \subseteq {Mark, Landing}
          /\ await \in Awaited
          /\ kept \in BOOLEAN /\ hook \in BOOLEAN

\* A job is in the ring while its count is pending, through any growth and
\* wrap: no pop reads a slot nothing was written to.
PendingWritten == \A i \in 1 .. tail - head : Contents[i] # Junk

RingStep == \/ Contents' = Contents
            \/ \E e \in Entry : Contents' = Append(Contents, e)
            \/ /\ Contents # <<>>
               /\ Contents' = Tail(Contents)
               /\ job' = Head(Contents)

\* Through growth, wrap and restart the ring is one queue: a step leaves its
\* entries as they are, puts one behind them, or takes the first to run it
\* (grow_and_push, lib.rs:89-92, "The pending tasks keep their order").
RingIsQueue == [][RingStep]_vars

\* What runs, read as the queue of §9.5: the body's continuation runs from the
\* pop of the job queued in its place.
Running == IF job = Nobody
           THEN IF at = "body" \/ (at \in {"mark", "ready"} /\ Watched \in set)
                THEN "body" ELSE Nobody
           ELSE IF job \in {Mark, Landing} THEN "body" ELSE job

\* §9.10: what a job keeps alive is let go of before the next job starts,
\* even when the hook is installed in the middle of a drain.
NothingKeptAcrossJobs ==
    [][Running' # Running /\ Running' # Nobody => ~kept']_vars

\* A job once queued runs, unless a host job of the exit checkpoint threw and
\* ended the program with jobs queued.
EveryJobRuns ==
    \A t \in Task :
        (\E i \in DOMAIN Contents : Contents[i] = t) ~> (job = t \/ at = "done")

\* The queue of §9.5 as the ring holds it, and a continuation of the body that
\* is settled and not yet in the ring.
Read == [i \in DOMAIN Contents |-> IF Contents[i] \in Task THEN Contents[i] ELSE "body"]
Behind == IF await \in {"called", "settled"} THEN <<"body">> ELSE <<>>
Queued == Read \o Behind

Jobs == INSTANCE JobQueue WITH jobs <- Queued,
                               running <- Running,
                               pending <- await \in {"promise", "call"}

\* wait.rs, 4-8: jobs run in the order they were queued, and an await in place
\* runs the jobs a suspended body would have waited for, the same in the same
\* order.
ImplementsJobQueue == Jobs!Spec

\* The same but for one step: a host job that has settled what the body waits
\* on, while the waiter is out of the list (waiter.rs:97), queues a job.
Overtaken == /\ job = Host
             /\ await = "settled"
             /\ \E t \in Task : Enqueue(t)

OrderedButForHost == Jobs!Init /\ [][Jobs!Next \/ Overtaken]_Jobs!vars
=============================================================================
