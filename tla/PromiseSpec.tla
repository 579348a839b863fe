---------------------------- MODULE PromiseSpec ----------------------------
(***************************************************************************)
(* Promises as ECMA-262 §27.2 and §27.7.5.3 have them, and as the docs of  *)
(* torajs-promise cite them: reactions fire in registration order, each as *)
(* one job of one FIFO queue, a job never runs inside another, a promise   *)
(* settles once, and what settles a promise that was returned to another   *)
(* is a thenable job first.  finally settles its promise in the job of its *)
(* handler, or in that of a promise it returned: the language puts two     *)
(* jobs between.  There is no memory here but for Forget: a promise goes   *)
(* when nothing names it.                                                  *)
(***************************************************************************)
EXTENDS Sequences

CONSTANTS Cell,   \* promises
          Frame   \* suspended async calls

VARIABLES st,         \* the state of each promise; "free" while there is none
          handled,    \* [[PromiseIsHandled]]
          reactions,  \* [[PromiseReactions]], in registration order
          frames,     \* the result of each async call in progress
          jobs,       \* the job queue
          running,    \* the code that runs
          named       \* the promises the program has a name for

vars == <<st, handled, reactions, frames, jobs, running, named>>

NoResult == "none"
Nobody == [k |-> "none"]
User == running.k \in {"main", "handler", "finally", "body"}
InFlight(f) == frames[f] # NoResult

Init == /\ st = [c \in Cell |-> "free"]
        /\ handled = [c \in Cell |-> FALSE]
        /\ reactions = [c \in Cell |-> <<>>]
        /\ frames = [f \in Frame |-> NoResult]
        /\ jobs = <<>>
        /\ running = [k |-> "main"]
        /\ named = {}

\* The job of reaction r to the outcome o.
JobOf(r, o) == CASE r.k = "frame" -> [k |-> "resume", f |-> r.f]
                 [] r.k = "wait" -> [k |-> "adopt", d |-> r.d,
                                     o |-> IF o = "fulfilled" THEN r.o ELSE "rejected"]
                 [] OTHER -> [k |-> r.k, d |-> r.d, o |-> o]

Triggered(c, o) == [i \in DOMAIN reactions[c] |-> JobOf(reactions[c][i], o)]

\* FulfillPromise and RejectPromise of c, behind the jobs q.
SettleInto(q, c, o) ==
    /\ st' = [st EXCEPT ![c] = o]
    /\ reactions' = [reactions EXCEPT ![c] = <<>>]
    /\ jobs' = q \o Triggered(c, o)

\* PerformPromiseThen of reaction r to c.
React(c, r) ==
    /\ handled' = [handled EXCEPT ![c] = TRUE]
    /\ IF st[c] = "pending"
       THEN /\ reactions' = [reactions EXCEPT ![c] = Append(@, r)]
            /\ UNCHANGED jobs
       ELSE /\ jobs' = Append(jobs, JobOf(r, st[c]))
            /\ UNCHANGED reactions

-----------------------------------------------------------------------------
\* new Promise, Promise.resolve, Promise.reject.
New(c, s) == /\ User
             /\ st[c] = "free"
             /\ st' = [st EXCEPT ![c] = s]
             /\ handled' = [handled EXCEPT ![c] = FALSE]
             /\ named' = named \cup {c}
             /\ UNCHANGED <<reactions, frames, jobs, running>>

\* What s.then, catch or finally answers d for: a handler of one outcome or of
\* both, of neither (d adopts s), or of finally.
Kind == {"then", "catch", "both", "adopt", "finally"}

\* s.then, catch or finally, answering d.
Then(s, d, kind) ==
    /\ User
    /\ s \in named /\ s # d
    /\ st[d] = "free"
    /\ named' = named \cup {d}
    /\ st' = [st EXCEPT ![d] = "pending"]
    /\ handled' = [handled EXCEPT ![s] = TRUE, ![d] = FALSE]
    /\ IF st[s] = "pending"
       THEN /\ reactions' = [reactions EXCEPT ![s] = Append(@, [k |-> kind, d |-> d])]
            /\ UNCHANGED jobs
       ELSE /\ jobs' = Append(jobs, JobOf([k |-> kind, d |-> d], st[s]))
            /\ UNCHANGED reactions
    /\ UNCHANGED <<frames, running>>

\* A resolving function of c is called.
Settle(c, o) == /\ User
                /\ c \in named
                /\ st[c] = "pending"
                /\ SettleInto(jobs, c, o)
                /\ UNCHANGED <<handled, frames, running, named>>

\* The program lets go of c.
Drop(c) == /\ User
           /\ named' = named \ {c}
           /\ UNCHANGED <<st, handled, reactions, frames, jobs, running>>

\* An async function is called, answering r, and awaits c.
CallAsync(f, r, c) ==
    /\ User
    /\ ~InFlight(f)
    /\ c \in named /\ c # r
    /\ st[r] = "free"
    /\ frames' = [frames EXCEPT ![f] = r]
    /\ named' = named \cup {r}
    /\ st' = [st EXCEPT ![r] = "pending"]
    /\ handled' = [handled EXCEPT ![c] = TRUE, ![r] = FALSE]
    /\ IF st[c] = "pending"
       THEN /\ reactions' = [reactions EXCEPT ![c] = Append(@, [k |-> "frame", f |-> f])]
            /\ UNCHANGED jobs
       ELSE /\ jobs' = Append(jobs, [k |-> "resume", f |-> f])
            /\ UNCHANGED reactions
    /\ UNCHANGED running

-----------------------------------------------------------------------------
\* The main program returns.
MainEnd == /\ running.k = "main"
           /\ running' = Nobody
           /\ UNCHANGED <<st, handled, reactions, frames, jobs, named>>

\* The resolving function of d gets an outcome, as a handler or an async
\* body ends.
Conclude(d, o) == /\ SettleInto(jobs, d, o)
                  /\ running' = Nobody
                  /\ UNCHANGED <<handled, named>>

\* It gets a promise instead: NewPromiseResolveThenableJob.
ConcludeWith(d, c) == /\ jobs' = Append(jobs, [k |-> "attach", c |-> c, d |-> d])
                      /\ running' = Nobody
                      /\ UNCHANGED <<st, reactions, handled, named>>

\* What handlers and bodies return: an outcome, or a promise; d itself is a
\* TypeError.
Return(d) == \/ \E o \in {"fulfilled", "rejected"} : Conclude(d, o)
             \/ \E c \in named \ {d} : ConcludeWith(d, c)

HandlerEnd == /\ running.k = "handler"
              /\ Return(running.d)
              /\ UNCHANGED frames

BodyEnd == /\ running.k = "body"
           /\ Return(frames[running.f])
           /\ frames' = [frames EXCEPT ![running.f] = NoResult]

\* finally passes the outcome on that it was called with, once what its handler
\* returned has settled; a throw or a rejection of that takes its place.
FinallyEnd ==
    /\ running.k = "finally"
    /\ \/ /\ \E o \in {running.o, "rejected"} : Conclude(running.d, o)
          /\ UNCHANGED frames
       \/ \E c \in named :
             /\ React(c, [k |-> "wait", d |-> running.d, o |-> running.o])
             /\ running' = Nobody
             /\ UNCHANGED <<st, frames, named>>

\* An async body awaits c, or a value that is not a thenable.
BodyAwait(c) == /\ running.k = "body"
                /\ c \in named
                /\ React(c, [k |-> "frame", f |-> running.f])
                /\ running' = Nobody
                /\ UNCHANGED <<st, frames, named>>

BodyAwaitValue == /\ running.k = "body"
                  /\ jobs' = Append(jobs, [k |-> "resume", f |-> running.f])
                  /\ running' = Nobody
                  /\ UNCHANGED <<st, handled, reactions, frames, named>>

-----------------------------------------------------------------------------
(* A job runs.                                                             *)

Next1 == Head(jobs)
Rest == Tail(jobs)
NoCode == running = Nobody /\ jobs # <<>>
Fires(j) == \/ j.k = "both"
            \/ j.k = "then" /\ j.o = "fulfilled"
            \/ j.k = "catch" /\ j.o = "rejected"

RunFinally == /\ NoCode
              /\ Next1.k = "finally"
              /\ running' = Next1
              /\ jobs' = Rest
              /\ UNCHANGED <<st, handled, reactions, frames, named>>

\* A reaction with a handler for the outcome calls it.
RunHandler == /\ NoCode
              /\ Fires(Next1)
              /\ running' = [k |-> "handler", d |-> Next1.d]
              /\ jobs' = Rest
              /\ UNCHANGED <<st, handled, reactions, frames, named>>

\* One without passes the outcome on, as an adoption does and a wait of finally.
RunForward == /\ NoCode
              /\ \/ Next1.k = "adopt"
                 \/ Next1.k \in {"then", "catch"} /\ ~Fires(Next1)
              /\ SettleInto(Rest, Next1.d, Next1.o)
              /\ UNCHANGED <<handled, frames, running, named>>

\* A thenable job attaches the resolving functions.
RunAttach == /\ NoCode
             /\ Next1.k = "attach"
             /\ LET c == Next1.c
                    r == [k |-> "adopt", d |-> Next1.d]
                IN  /\ handled' = [handled EXCEPT ![c] = TRUE]
                    /\ IF st[c] = "pending"
                       THEN /\ reactions' = [reactions EXCEPT ![c] = Append(@, r)]
                            /\ jobs' = Rest
                       ELSE /\ jobs' = Append(Rest, JobOf(r, st[c]))
                            /\ UNCHANGED reactions
             /\ UNCHANGED <<st, frames, running, named>>

\* An async body goes on.
RunResume == /\ NoCode
             /\ Next1.k = "resume"
             /\ running' = [k |-> "body", f |-> Next1.f]
             /\ jobs' = Rest
             /\ UNCHANGED <<st, handled, reactions, frames, named>>

-----------------------------------------------------------------------------
(* What may be forgotten.                                                  *)

\* The promises that code waiting as r would settle.
Waits(r) == IF r.k = "frame" THEN {frames[r.f]} ELSE {r.d}

\* Whether anything but c itself names c.
Mentioned(c) ==
    \/ c \in named
    \/ \E i \in DOMAIN jobs :
          \/ jobs[i].k \in Kind /\ jobs[i].d = c
          \/ jobs[i].k = "attach" /\ c \in {jobs[i].c, jobs[i].d}
          \/ jobs[i].k = "resume" /\ frames[jobs[i].f] = c
    \/ running.k \in {"handler", "finally"} /\ running.d = c
    \/ running.k = "body" /\ frames[running.f] = c
    \/ \E p \in Cell \ {c} : \E i \in DOMAIN reactions[p] : c \in Waits(reactions[p][i])

\* A promise nothing names is forgotten, with the async calls that wait on it.
Forget(c) == /\ st[c] # "free"
             /\ ~Mentioned(c)
             /\ st' = [st EXCEPT ![c] = "free"]
             /\ handled' = [handled EXCEPT ![c] = FALSE]
             /\ reactions' = [reactions EXCEPT ![c] = <<>>]
             /\ frames' = [f \in Frame |->
                             IF \E i \in DOMAIN reactions[c] :
                                   reactions[c][i] = [k |-> "frame", f |-> f]
                             THEN NoResult ELSE frames[f]]
             /\ UNCHANGED <<jobs, running, named>>

Next == \/ MainEnd \/ HandlerEnd \/ FinallyEnd \/ BodyEnd \/ BodyAwaitValue
        \/ RunFinally \/ RunHandler \/ RunForward \/ RunAttach \/ RunResume
        \/ \E c \in Cell : \/ \E s \in {"pending", "fulfilled", "rejected"} : New(c, s)
                           \/ \E o \in {"fulfilled", "rejected"} : Settle(c, o)
                           \/ Drop(c) \/ BodyAwait(c) \/ Forget(c)
        \/ \E s, d \in Cell : \E kind \in Kind : Then(s, d, kind)
        \/ \E f \in Frame : \E r, c \in Cell : CallAsync(f, r, c)

Spec == Init /\ [][Next]_vars
=============================================================================
