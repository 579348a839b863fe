------------------------------ MODULE JobQueue ------------------------------
(***************************************************************************)
(* What the job queue promises (ECMA-262 §9.5 as the runtime's docs state  *)
(* it): jobs run one at a time, to completion, in the order they were      *)
(* queued, and an `await` of the module body is its continuation queued as *)
(* a job: at once when what it waits on has settled, by the settlement     *)
(* otherwise.  The module body itself is the job that starts the program.  *)
(***************************************************************************)
EXTENDS Sequences

CONSTANT Task   \* the jobs a program queues

Body == "body"  \* the module body, and its continuation while queued
Host == "host"  \* a FinalizationRegistry cleanup, run when no job is left
Nobody == "nobody"

VARIABLES jobs,     \* the queued jobs
          running,  \* the job that runs
          pending   \* the body waits on a promise that has not settled

vars == <<jobs, running, pending>>

Init == /\ jobs = <<>>
        /\ running = Body
        /\ pending = FALSE

\* The running job queues another.
Enqueue(t) == /\ running # Nobody
              /\ jobs' = Append(jobs, t)
              /\ UNCHANGED <<running, pending>>

\* The body awaits what has settled.
AwaitSettled == /\ running = Body
                /\ running' = Nobody
                /\ jobs' = Append(jobs, Body)
                /\ UNCHANGED pending

\* The body awaits what has not settled.
AwaitPending == /\ running = Body
                /\ running' = Nobody
                /\ pending' = TRUE
                /\ UNCHANGED jobs

\* A job settles what the body waits on.
Settle == /\ running \in Task \cup {Host}
          /\ pending
          /\ pending' = FALSE
          /\ jobs' = Append(jobs, Body)
          /\ UNCHANGED running

\* No job is left that could settle it: the body is given up.
Abandon == /\ running = Nobody
           /\ jobs = <<>>
           /\ pending
           /\ pending' = FALSE
           /\ UNCHANGED <<jobs, running>>

\* The running job returns.
End == /\ running # Nobody
       /\ running' = Nobody
       /\ UNCHANGED <<jobs, pending>>

\* The job at the head of the queue starts.
Run == /\ running = Nobody
       /\ jobs # <<>>
       /\ running' = Head(jobs)
       /\ jobs' = Tail(jobs)
       /\ UNCHANGED pending

\* With no job queued, a host job starts.
RunHost == /\ running = Nobody
           /\ jobs = <<>>
           /\ running' = Host
           /\ UNCHANGED <<jobs, pending>>

Next == \/ \E t \in Task : Enqueue(t)
        \/ AwaitSettled \/ AwaitPending \/ Settle \/ Abandon
        \/ End \/ Run \/ RunHost

Spec == Init /\ [][Next]_vars
=============================================================================
