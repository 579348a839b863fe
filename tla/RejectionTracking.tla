------------------------- MODULE RejectionTracking -------------------------
(***************************************************************************)
(* HostPromiseRejectionTracker (ECMA-262 §27.2.1.9) as torajs promises it: *)
(* a promise rejected without a handler is owed a report, a handler        *)
(* attached later takes that back, and the program's exit reports what is  *)
(* still owed, each promise once, in the order of the rejections.  What    *)
(* listeners reject while the exit reports is kept apart: nobody reports   *)
(* it.                                                                     *)
(***************************************************************************)
EXTENDS Filtering

CONSTANT Promise

VARIABLES owed,    \* rejections owed a report, oldest first
          late,    \* those made while the exit was reporting
          phase,   \* "running", "exiting" or "over"
          told,    \* the last promise reported
          failed   \* whether the default reporter has told any

vars == <<owed, late, phase, told, failed>>

Nobody == "nobody"
Without(s, p) == Filter(s, Promise \ {p})

Init == /\ owed = <<>>
        /\ late = <<>>
        /\ phase = "running"
        /\ told = Nobody
        /\ failed = FALSE

\* A promise without a handler is rejected.
Reject(p) == /\ \/ /\ phase = "running"
                   /\ owed' = Append(owed, p)
                   /\ UNCHANGED late
                \/ /\ phase = "exiting"
                   /\ late' = Append(late, p)
                   /\ UNCHANGED owed
             /\ UNCHANGED <<phase, told, failed>>

\* A rejected promise gets a handler.
Handle(p) == /\ phase # "over"
             /\ owed' = Without(owed, p)
             /\ late' = Without(late, p)
             /\ UNCHANGED <<phase, told, failed>>

Exit == /\ phase = "running"
        /\ phase' = "exiting"
        /\ UNCHANGED <<owed, late, told, failed>>

\* The oldest is told, by the default reporter or to a listener.
Report(byDefault) == /\ phase = "exiting"
                     /\ owed # <<>>
                     /\ told' = Head(owed)
                     /\ owed' = Tail(owed)
                     /\ failed' = (failed \/ byDefault)
                     /\ UNCHANGED <<late, phase>>

Finish == /\ phase = "exiting"
          /\ owed = <<>>
          /\ phase' = "over"
          /\ UNCHANGED <<owed, late, told, failed>>

Next == \/ \E p \in Promise : Reject(p) \/ Handle(p)
        \/ \E byDefault \in BOOLEAN : Report(byDefault)
        \/ Exit \/ Finish

Spec == Init /\ [][Next]_vars
=============================================================================
