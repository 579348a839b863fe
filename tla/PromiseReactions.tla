-------------------------- MODULE PromiseReactions --------------------------
(***************************************************************************)
(* torajs-promise: promise cells, the callback list each keeps (head       *)
(* pushed, reversed when it drains), reactions carried inline by derived   *)
(* cells, reactions in records of their own (two handlers, none, finally), *)
(* async frames that are list members themselves, the chain of reactions   *)
(* that runs inside one job when the queue is idle, adoption of a returned *)
(* promise, and the reference every list entry, job, frame and dispatcher  *)
(* holds.                                                                  *)
(*                                                                         *)
(* Values are abstracted to the outcome they settle a promise with, and a  *)
(* handler's return to its form: a plain one no adoption can follow from,  *)
(* a boxed one that takes the general path, a throw, or a promise.         *)
(* Closure environments, the combinators and the cycle collector are left  *)
(* out; the kept-objects hook is a choice wherever it is tested.           *)
(***************************************************************************)
EXTENDS Naturals, Sequences, FiniteSets

CONSTANTS Cell,    \* promise cells
          Frame,   \* async frames
          Forms    \* the forms handlers and bodies return

ASSUME FormsAssumption == Forms \subseteq {"plain", "boxed", "throw", "promise"}

VARIABLES st, handled,  \* state and has_handler of each cell
          rc,           \* refcount of each cell
          list,         \* callbacks of each cell, newest first
          rx,           \* rx_kind and rx_source of each cell
          frames,       \* each frame's place, awaiting and result words
          queue,        \* the microtask queue
          run,          \* the code that runs
          handles,      \* cells the program holds a reference on
          open,         \* of these, the ones it may still settle
          tracked,      \* entries of the unhandled-rejection list
          dead          \* cells at refcount 0, not yet torn down

vars == <<st, handled, rc, list, rx, frames, queue, run, handles, open, tracked, dead>>

NULL == "null"

ASSUME CellAssumption == IsFiniteSet(Cell) /\ NULL \notin Cell
ASSUME FrameAssumption == IsFiniteSet(Frame)

Outcome == {"fulfilled", "rejected"}
Idle == [k |-> "idle"]
NoRx == [kind |-> "none", src |-> NULL]
NoFrame == [at |-> "none", src |-> NULL, result |-> NULL]

Inline(d) == [k |-> "inline", d |-> d]
Parked(f) == [k |-> "frame", f |-> f]

\* A record on c whose job settles d; one that waits for c to settle d as s was.
Record(kind, c, d) == [k |-> kind, c |-> c, d |-> d]
WaitRecord(c, d, s) == [k |-> "wait", c |-> c, d |-> d, s |-> s]
IsRecord(link) == link.k \notin {"inline", "frame"}

ReactJob(d) == [k |-> "react", d |-> d]
ResumeJob(f) == [k |-> "resume", f |-> f]
AttachJob(c, d) == [k |-> "attach", c |-> c, d |-> d]

Init == /\ st = [c \in Cell |-> "free"]
        /\ handled = [c \in Cell |-> FALSE]
        /\ rc = [c \in Cell |-> 0]
        /\ list = [c \in Cell |-> <<>>]
        /\ rx = [c \in Cell |-> NoRx]
        /\ frames = [f \in Frame |-> NoFrame]
        /\ queue = <<>>
        /\ run = [k |-> "main"]
        /\ handles = {}
        /\ open = {}
        /\ tracked = {}
        /\ dead = {}

-----------------------------------------------------------------------------
(* References.                                                             *)

Times(c, s) == Cardinality({i \in DOMAIN s : s[i] = c})

\* The references taken, then those given up; a count that reaches zero
\* leaves the cell to the teardown (release_cell, free_chain).
Stakes(taken, given) ==
    LET count == [c \in Cell |-> rc[c] + Times(c, taken) - Times(c, given)]
    IN  /\ rc' = count
        /\ dead' = dead \cup {c \in Cell : Times(c, given) > 0 /\ count[c] = 0}

\* A finite set as a sequence, for the references a step gives up.
AsSeq(S) == CHOOSE s \in [1 .. Cardinality(S) -> S] :
                \A i, j \in DOMAIN s : s[i] = s[j] => i = j

-----------------------------------------------------------------------------
(* Settlement.                                                             *)

\* drain_callbacks reverses the list in place first.
Drained(c) == LET n == Len(list[c]) IN [i \in 1 .. n |-> list[c][n + 1 - i]]

JobOf(link) == CASE link.k = "inline" -> ReactJob(link.d)
                 [] link.k = "frame" -> ResumeJob(link.f)
                 [] OTHER -> link

DrainJobs(c) == [i \in DOMAIN list[c] |-> JobOf(Drained(c)[i])]

\* Mutant: a frame's job borrows the source.
StakesOfInline(c) ==
    [i \in 1 .. Cardinality({i \in DOMAIN list[c] : list[c][i].k = "inline"}) |-> c]

\* Every inline reaction and every frame queued takes a reference on the
\* source; a record without ops holds its own.
DrainStakes(c) ==
    [i \in 1 .. Cardinality({i \in DOMAIN list[c] : ~IsRecord(list[c][i])}) |-> c]

\* The frames of c's list are queued: `awaiting` is a reference from here on.
Woken(c) == [f \in Frame |->
               IF \E i \in DOMAIN list[c] : list[c][i] = Parked(f)
               THEN [frames[f] EXCEPT !.at = "queued", !.src = c]
               ELSE frames[f]]

\* Mutant: an entry only the list refers to is dropped as well.
ObservedOrUnreferenced == {c \in tracked : handled[c] \/ rc[c] = 1}

\* compact_observed keeps the entries no handler has observed.
Observed == {c \in tracked : handled[c]}

\* track_rejection, and the compaction a full list makes first.
Track(c, dropped) == tracked' = (tracked \ dropped) \cup {c}

\* __torajs_promise_resolve and reject of c, a no-op once c has settled, behind
\* the jobs q; the frames of c's list change besides (Woken).
Settle(q, c, o, taken, given) ==
    IF st[c] # "pending"
    THEN /\ queue' = q
         /\ Stakes(taken, given)
         /\ UNCHANGED <<st, list, tracked>>
    ELSE /\ st' = [st EXCEPT ![c] = o]
         /\ list' = [list EXCEPT ![c] = <<>>]
         /\ queue' = q \o DrainJobs(c)
         /\ \/ /\ o = "fulfilled"
               /\ Stakes(taken \o DrainStakes(c), given)
               /\ UNCHANGED tracked
            \/ /\ o = "rejected"
               /\ \E dropped \in {{}, Observed} :
                     /\ Track(c, dropped)
                     /\ Stakes(taken \o DrainStakes(c) \o <<c>>, given \o AsSeq(dropped))

-----------------------------------------------------------------------------
(* What running code does.                                                 *)

User == dead = {} /\ run.k \in {"main", "handler", "body"}

\* alloc_pending, alloc_fulfilled, alloc_rejected.
New(c, s) ==
    /\ User
    /\ st[c] = "free"
    /\ st' = [st EXCEPT ![c] = s]
    /\ handles' = handles \cup {c}
    /\ open' = IF s = "pending" THEN open \cup {c} ELSE open
    /\ \/ /\ s # "rejected"
          /\ Stakes(<<c>>, <<>>)
          /\ UNCHANGED tracked
       \/ /\ s = "rejected"
          /\ \E dropped \in {{}, Observed} :
                Track(c, dropped) /\ Stakes(<<c, c>>, AsSeq(dropped))
    /\ UNCHANGED <<handled, list, rx, frames, queue, run>>

\* attach_inline, into a derived cell fresh from the allocator.
Attach(s, d, kind) ==
    /\ rx' = [rx EXCEPT ![d] = [kind |-> kind, src |-> s]]
    /\ handled' = [handled EXCEPT ![s] = TRUE]
    /\ \/ /\ st[s] = "pending"
          /\ list' = [list EXCEPT ![s] = <<Inline(d)>> \o @]
          /\ Stakes(<<d, d>>, <<>>)
          /\ UNCHANGED queue
       \/ /\ st[s] # "pending"
          /\ queue' = Append(queue, ReactJob(d))
          /\ Stakes(<<d, d, s>>, <<>>)
          /\ UNCHANGED list

Then(s, d, kind) == /\ User
                    /\ s \in handles
                    /\ st[d] = "free"
                    /\ st' = [st EXCEPT ![d] = "pending"]
                    /\ handles' = handles \cup {d}
                    /\ Attach(s, d, kind)
                    /\ UNCHANGED <<frames, run, open, tracked>>

\* __torajs_promise_attach_then of a record, behind the jobs q.
AttachThen(q, c, record) ==
    /\ handled' = [handled EXCEPT ![c] = TRUE]
    /\ IF st[c] = "pending"
       THEN /\ list' = [list EXCEPT ![c] = <<record>> \o @]
            /\ queue' = q
       ELSE /\ queue' = Append(q, record)
            /\ UNCHANGED list

\* A record of s that settles the new cell d, with a reference on each.
Derive(s, d, kind) == /\ User
                      /\ s \in handles
                      /\ st[d] = "free"
                      /\ st' = [st EXCEPT ![d] = "pending"]
                      /\ handles' = handles \cup {d}
                      /\ AttachThen(queue, s, Record(kind, s, d))
                      /\ Stakes(<<d, d, s>>, <<>>)
                      /\ UNCHANGED <<rx, frames, run, open, tracked>>

\* s.then(), with no handler: d adopts s.
ThenNone(s, d) == Derive(s, d, "adopt")

ThenTwo(s, d) == Derive(s, d, "both")

Finally(s, d) == Derive(s, d, "finally")

\* A resolving function of c.
Resolve(c, o) == /\ User
                 /\ c \in open
                 /\ Settle(queue, c, o, <<>>, <<>>)
                 /\ frames' = Woken(c)
                 /\ open' = open \ {c}
                 /\ UNCHANGED <<handled, rx, run, handles>>

\* The program gives up its reference.
Drop(c) == /\ User
           /\ c \in handles
           /\ handles' = handles \ {c}
           /\ open' = open \ {c}
           /\ Stakes(<<>>, <<c>>)
           /\ UNCHANGED <<st, handled, list, rx, frames, queue, run, tracked>>

\* __torajs_frame_await_promise with the frame words `row`, of a promise the
\* body holds a reference on besides: a settled one is queued with it, a
\* pending one keeps only a back-pointer.
FrameAwait(f, c, row, taken) ==
    /\ handled' = [handled EXCEPT ![c] = TRUE]
    /\ \/ /\ st[c] = "pending"
          /\ frames' = [frames EXCEPT ![f] = [row EXCEPT !.at = "parked", !.src = c]]
          /\ list' = [list EXCEPT ![c] = <<Parked(f)>> \o @]
          /\ Stakes(taken, <<>>)
          /\ UNCHANGED queue
       \/ /\ st[c] # "pending"
          /\ frames' = [frames EXCEPT ![f] = [row EXCEPT !.at = "queued", !.src = c]]
          /\ queue' = Append(queue, ResumeJob(f))
          /\ Stakes(taken \o <<c>>, <<>>)
          /\ UNCHANGED list

\* A call of an async function that awaits c, answering its result r.
CallAsync(f, r, c) == /\ User
                      /\ frames[f].at = "none"
                      /\ c \in handles
                      /\ st[r] = "free"
                      /\ st' = [st EXCEPT ![r] = "pending"]
                      /\ handles' = handles \cup {r}
                      /\ FrameAwait(f, c, [NoFrame EXCEPT !.result = r], <<r, r>>)
                      /\ UNCHANGED <<rx, run, open, tracked>>

MainEnd == /\ User
           /\ run.k = "main"
           /\ run' = Idle
           /\ UNCHANGED <<st, handled, rc, list, rx, frames, queue, handles, open,
                          tracked, dead>>

-----------------------------------------------------------------------------
(* The reaction job.                                                       *)

Sole(c) == Len(list[c]) = 1

\* The handler's interest does not match: the settlement passes on to d, and
\* both of the job's references go.
Forward(q, d) ==
    LET src == rx[d].src
    IN  /\ rx' = [rx EXCEPT ![d] = NoRx]
        /\ Settle(q, d, st[src], <<>>, <<src, d>>)
        /\ frames' = Woken(d)
        /\ run' = Idle
        /\ UNCHANGED handled

\* The handler is called; the reaction words are out of d by then.
Call(q, d) == /\ rx' = [rx EXCEPT ![d] = NoRx]
              /\ run' = [k |-> "handler", d |-> d, src |-> rx[d].src, of |-> "inline"]
              /\ queue' = q
              /\ UNCHANGED <<st, handled, rc, list, frames, tracked, dead>>

Fires(d) == rx[d].kind = IF st[rx[d].src] = "rejected" THEN "catch" ELSE "then"

\* run_inline_reaction, up to the handler.
React(q, d) == IF Fires(d) THEN Call(q, d) ELSE Forward(q, d)

\* queue_idle: nothing is pending and no job-boundary hook is installed.
MayRunOn == queue = <<>>

\* Mutant: the queue is not looked at.
ChainAnyway(next, job, q) ==
    \/ run' = next /\ queue' = q
    \/ run' = Idle /\ queue' = Append(q, job)

\* The sole waiter of a cell a job has just fulfilled is the next job: it runs
\* on in this one if it may, and is queued otherwise.
Chain(next, job, q) ==
    \/ MayRunOn /\ run' = next /\ queue' = q
    \/ run' = Idle /\ queue' = Append(q, job)

\* settle_into_chain of a plain return into a list of one inline reaction: the
\* dispatcher's reference on d becomes that reaction's on its source.
IntoReaction(d, src) ==
    /\ list[d][1].k = "inline"
    /\ LET n == list[d][1].d
       IN  Chain([k |-> "next", d |-> n], ReactJob(n), queue)
    /\ UNCHANGED frames

\* The same for a parked frame, whose `awaiting` it becomes.
IntoFrame(d, src) ==
    /\ list[d][1].k = "frame"
    /\ LET f == list[d][1].f
       IN  /\ frames' = [frames EXCEPT ![f] = [@ EXCEPT !.at = "queued", !.src = d]]
           /\ Chain([k |-> "wake", f |-> f], ResumeJob(f), queue)

Chains(d) == Sole(d) /\ ~IsRecord(list[d][1]) /\ st[d] = "pending"

IntoChain(d, src) == /\ Chains(d)
                     /\ IntoReaction(d, src) \/ IntoFrame(d, src)
                     /\ st' = [st EXCEPT ![d] = "fulfilled"]
                     /\ list' = [list EXCEPT ![d] = <<>>]
                     /\ Stakes(<<>>, <<src>>)
                     /\ UNCHANGED <<handled, rx, tracked>>

\* settle_handler_return of d: fulfil or reject, with every waiter queued.
General(d, o, given) == /\ Settle(queue, d, o, <<>>, given)
                        /\ frames' = Woken(d)
                        /\ run' = Idle
                        /\ UNCHANGED <<handled, rx>>

\* adopt_into: the returned reference on c goes to the job, with one on d.
Adopt(d, c, given) == /\ queue' = Append(queue, AttachJob(c, d))
                      /\ Stakes(<<c, d>>, given)
                      /\ run' = Idle
                      /\ UNCHANGED <<st, handled, list, rx, frames, tracked>>

\* The handler of d returns.  Only the dispatcher of inline reactions runs on.
HandlerEnd ==
    /\ User
    /\ run.k = "handler"
    /\ run.of # "finally"
    /\ LET d == run.d
           both == <<run.src, run.d>>
           chains == run.of = "inline" /\ Chains(d)
       IN  \/ /\ "plain" \in Forms
              /\ \/ chains /\ IntoChain(d, run.src)
                 \/ ~chains /\ General(d, "fulfilled", both)
           \/ "boxed" \in Forms /\ General(d, "fulfilled", both)
           \/ "throw" \in Forms /\ General(d, "rejected", both)
           \/ /\ "promise" \in Forms
              /\ \E c \in handles :
                    IF c = d THEN General(d, "rejected", both)
                             ELSE Adopt(d, c, both)
    /\ UNCHANGED <<handles, open>>

\* finish: what the handler of a finally returns goes unless it is a promise,
\* which the source's settlement waits for, with the dispatcher's references.
FinallyEnd ==
    /\ User
    /\ run.k = "handler"
    /\ run.of = "finally"
    /\ LET d == run.d
           both == <<run.src, run.d>>
       IN  \/ Forms \cap {"plain", "boxed"} # {} /\ General(d, st[run.src], both)
           \/ "throw" \in Forms /\ General(d, "rejected", both)
           \/ /\ "promise" \in Forms
              /\ \E c \in handles : /\ AttachThen(queue, c, WaitRecord(c, d, run.src))
                                    /\ Stakes(<<c>>, <<>>)
              /\ run' = Idle
              /\ UNCHANGED <<st, rx, frames, tracked>>
    /\ UNCHANGED <<handles, open>>

-----------------------------------------------------------------------------
(* The async body.                                                         *)

\* The body awaits again, a promise or a value that is not a thenable.
BodyAwait(c) == /\ User
                /\ run.k = "body"
                /\ c \in handles
                /\ FrameAwait(run.f, c, frames[run.f], <<>>)
                /\ run' = Idle
                /\ UNCHANGED <<st, rx, handles, open, tracked>>

BodyAwaitValue == /\ User
                  /\ run.k = "body"
                  /\ frames' = [frames EXCEPT ![run.f].at = "queued"]
                  /\ queue' = Append(queue, ResumeJob(run.f))
                  /\ run' = Idle
                  /\ UNCHANGED <<st, handled, rc, list, rx, handles, open, tracked, dead>>

\* wake_sole_waiter: the one waiter's job gets the frame's reference on the
\* result.
WakeSole(f, r) ==
    LET link == list[r][1]
    IN  /\ st' = [st EXCEPT ![r] = "fulfilled"]
        /\ list' = [list EXCEPT ![r] = <<>>]
        /\ queue' = Append(queue, JobOf(link))
        /\ frames' = [Woken(r) EXCEPT ![f] = NoFrame]
        /\ run' = Idle
        /\ UNCHANGED <<handled, rc, rx, tracked, dead>>

\* Any other settlement of the result, and the frame's release.
EndFrame(f, r, o) == /\ Settle(queue, r, o, <<>>, <<r>>)
                     /\ frames' = [Woken(r) EXCEPT ![f] = NoFrame]
                     /\ run' = Idle
                     /\ UNCHANGED <<handled, rx>>

\* __torajs_frame_return and __torajs_frame_throw.
BodyEnd ==
    /\ User
    /\ run.k = "body"
    /\ LET f == run.f
           r == frames[run.f].result
       IN  \/ /\ "plain" \in Forms
              /\ IF Chains(r) THEN WakeSole(f, r) ELSE EndFrame(f, r, "fulfilled")
           \/ "boxed" \in Forms /\ EndFrame(f, r, "fulfilled")
           \/ "throw" \in Forms /\ EndFrame(f, r, "rejected")
           \/ /\ "promise" \in Forms
              /\ \E c \in handles :
                    IF c = r
                    THEN EndFrame(f, r, "rejected")
                    ELSE /\ queue' = Append(queue, AttachJob(c, r))
                         /\ Stakes(<<c, r>>, <<r>>)
                         /\ frames' = [frames EXCEPT ![f] = NoFrame]
                         /\ run' = Idle
                         /\ UNCHANGED <<st, handled, list, rx, tracked>>
    /\ UNCHANGED <<handles, open>>

\* The landing of a resumed frame reads what it awaited and lets go of it.
Land(f, q) == /\ frames' = [frames EXCEPT ![f] = [@ EXCEPT !.at = "running", !.src = NULL]]
              /\ run' = [k |-> "body", f |-> f]
              /\ queue' = q
              /\ Stakes(<<>>, IF frames[f].src = NULL THEN <<>> ELSE <<frames[f].src>>)
              /\ UNCHANGED <<st, handled, list, rx, tracked>>

-----------------------------------------------------------------------------
(* The jobs.                                                               *)

Ready == dead = {} /\ run = Idle /\ queue # <<>>
Job == Head(queue)

RunReact == /\ Ready
            /\ Job.k = "react"
            /\ React(Tail(queue), Job.d)
            /\ UNCHANGED <<handles, open>>

RunResume == /\ Ready
             /\ Job.k = "resume"
             /\ Land(Job.f, Tail(queue))
             /\ UNCHANGED <<handles, open>>

\* run_chain: the next link, in the job of the one before it.
RunNext == /\ dead = {}
           /\ run.k = "next"
           /\ React(queue, run.d)
           /\ UNCHANGED <<handles, open>>

RunFrame == /\ dead = {}
            /\ run.k = "wake"
            /\ Land(run.f, queue)
            /\ UNCHANGED <<handles, open>>

\* adopt_attach_job: attach_then of the settling record to the inner promise.
RunAttach == /\ Ready
             /\ Job.k = "attach"
             /\ AttachThen(Tail(queue), Job.c, Record("adopt", Job.c, Job.d))
             /\ UNCHANGED <<st, rc, rx, frames, run, handles, open, tracked, dead>>

\* adopt_dispatch: the outer promise settles as the inner one did.
RunAdopt == /\ Ready
            /\ Job.k = "adopt"
            /\ Settle(Tail(queue), Job.d, st[Job.c], <<>>, <<Job.c, Job.d>>)
            /\ frames' = Woken(Job.d)
            /\ UNCHANGED <<handled, rx, run, handles, open>>

\* then2_dispatch and finally_dispatch, up to the handler.
RunRecord == /\ Ready
             /\ Job.k \in {"both", "finally"}
             /\ run' = [k |-> "handler", d |-> Job.d, src |-> Job.c, of |-> Job.k]
             /\ queue' = Tail(queue)
             /\ UNCHANGED <<st, handled, rc, list, rx, frames, handles, open, tracked, dead>>

\* forward_source, unless what the handler returned was rejected.
Waited(job) == IF st[job.c] = "fulfilled" THEN st[job.s] ELSE "rejected"

\* finally_wait_dispatch.
RunWait == /\ Ready
           /\ Job.k = "wait"
           /\ Settle(Tail(queue), Job.d, Waited(Job), <<>>, <<Job.s, Job.c, Job.d>>)
           /\ frames' = Woken(Job.d)
           /\ UNCHANGED <<handled, rx, run, handles, open>>

\* The program is over: no job is left.
Quiet == dead = {} /\ run = Idle /\ queue = <<>> /\ UNCHANGED vars

-----------------------------------------------------------------------------
(* The teardown of a dead cell.                                            *)

\* The cells the links of c's list hold: derived cells, and the results of the
\* frames that are cancelled.
HeldByList(c) ==
    [i \in DOMAIN list[c] |->
       CASE list[c][i].k = "inline" -> list[c][i].d
         [] list[c][i].k = "frame" -> frames[list[c][i].f].result
         [] OTHER -> NULL]

\* Mutant: the back-pointers of parked reactions are left.
FreeCellUncut(c) ==
    /\ c \in dead
    /\ rc' = [x \in Cell |-> rc[x] - Times(x, HeldByList(c))]
    /\ dead' = (dead \ {c}) \cup {x \in Cell : /\ Times(x, HeldByList(c)) > 0
                                               /\ rc[x] = Times(x, HeldByList(c))}
    /\ st' = [st EXCEPT ![c] = "free"]
    /\ handled' = [handled EXCEPT ![c] = FALSE]
    /\ list' = [list EXCEPT ![c] = <<>>]
    /\ rx' = [rx EXCEPT ![c] = NoRx]
    /\ frames' = [f \in Frame |->
                    IF \E i \in DOMAIN list[c] : list[c][i] = Parked(f)
                    THEN NoFrame ELSE frames[f]]
    /\ UNCHANGED <<queue, run, handles, open, tracked>>

\* Mutant: the references the list holds are not given up.
FreeCellKeeping(c) ==
    /\ c \in dead
    /\ dead' = dead \ {c}
    /\ st' = [st EXCEPT ![c] = "free"]
    /\ handled' = [handled EXCEPT ![c] = FALSE]
    /\ list' = [list EXCEPT ![c] = <<>>]
    /\ rx' = [x \in Cell |->
                IF x = c THEN NoRx
                ELSE IF \E i \in DOMAIN list[c] : list[c][i] = Inline(x)
                THEN [rx[x] EXCEPT !.src = NULL]
                ELSE rx[x]]
    /\ UNCHANGED <<rc, frames, queue, run, handles, open, tracked>>

\* free_cell: back-pointers are cut, the list's references given up, parked
\* frames cancelled; the cells that leaves at zero wait on free_chain's stack.
FreeCell(c) ==
    /\ c \in dead
    /\ rc' = [x \in Cell |-> rc[x] - Times(x, HeldByList(c))]
    /\ dead' = (dead \ {c}) \cup {x \in Cell : /\ Times(x, HeldByList(c)) > 0
                                               /\ rc[x] = Times(x, HeldByList(c))}
    /\ st' = [st EXCEPT ![c] = "free"]
    /\ handled' = [handled EXCEPT ![c] = FALSE]
    /\ list' = [list EXCEPT ![c] = <<>>]
    /\ rx' = [x \in Cell |->
                IF x = c THEN NoRx
                ELSE IF \E i \in DOMAIN list[c] : list[c][i] = Inline(x)
                THEN [rx[x] EXCEPT !.src = NULL]
                ELSE rx[x]]
    /\ frames' = [f \in Frame |->
                    IF \E i \in DOMAIN list[c] : list[c][i] = Parked(f)
                    THEN NoFrame ELSE frames[f]]
    /\ UNCHANGED <<queue, run, handles, open, tracked>>

-----------------------------------------------------------------------------
Next == \/ \E c \in Cell : \/ \E s \in {"pending", "fulfilled", "rejected"} : New(c, s)
                           \/ \E o \in Outcome : Resolve(c, o)
                           \/ Drop(c) \/ BodyAwait(c) \/ FreeCell(c)
        \/ \E s, d \in Cell : \/ \E kind \in {"then", "catch"} : Then(s, d, kind)
                              \/ ThenNone(s, d) \/ ThenTwo(s, d) \/ Finally(s, d)
        \/ \E f \in Frame : \E r, c \in Cell : CallAsync(f, r, c)
        \/ MainEnd \/ HandlerEnd \/ FinallyEnd \/ BodyEnd \/ BodyAwaitValue
        \/ RunReact \/ RunResume \/ RunNext \/ RunFrame \/ RunAttach \/ RunAdopt
        \/ RunRecord \/ RunWait
        \/ Quiet

Spec == Init /\ [][Next]_vars

-----------------------------------------------------------------------------
Live(c) == st[c] # "free"

Records == {Record(kind, c, d) : kind \in {"adopt", "both", "finally"}, c, d \in Cell}
           \cup {WaitRecord(c, d, s) : c, d, s \in Cell}
Link == {Inline(d) : d \in Cell} \cup {Parked(f) : f \in Frame} \cup Records
JobSet == {ReactJob(d) : d \in Cell} \cup {ResumeJob(f) : f \in Frame}
          \cup {AttachJob(c, d) : c, d \in Cell} \cup Records

\* Every variable holds a value of its kind; what is free owns nothing.
TypeOK ==
    /\ st \in [Cell -> {"free", "pending"} \cup Outcome]
    /\ handled \in [Cell -> BOOLEAN]
    /\ rc \in [Cell -> Nat]
    /\ \A c \in Cell : \A i \in DOMAIN list[c] : list[c][i] \in Link
    /\ \A i \in DOMAIN queue : queue[i] \in JobSet
    /\ rx \in [Cell -> [kind : {"none", "then", "catch"}, src : Cell \cup {NULL}]]
    /\ frames \in [Frame -> [at : {"none", "parked", "queued", "running"},
                             src : Cell \cup {NULL}, result : Cell \cup {NULL}]]
    /\ handles \subseteq Cell /\ open \subseteq handles
    /\ tracked \subseteq Cell /\ dead \subseteq Cell
    /\ \A c \in Cell : ~Live(c) => rc[c] = 0 /\ list[c] = <<>> /\ rx[c] = NoRx

One(test) == IF test THEN 1 ELSE 0

\* The references on c: the program's, the rejection list's, one per list
\* entry that holds it, per job, per frame word that is a reference, and the
\* running dispatcher's.
Owners(c) ==
    LET places == UNION {{<<p, i>> : i \in DOMAIN list[p]} : p \in Cell}
        at(e) == list[e[1]][e[2]]
        inLists == {e \in places : at(e).k # "frame" /\ at(e).d = c}
        inners == {e \in places : IsRecord(at(e)) /\ at(e).c = c}
        kept == {e \in places : at(e).k = "wait" /\ at(e).s = c}
        jobs == {i \in DOMAIN queue : queue[i].k # "resume" /\ queue[i].d = c}
        sources == {i \in DOMAIN queue :
                      \/ queue[i].k = "react" /\ rx[queue[i].d].src = c
                      \/ queue[i].k \notin {"react", "resume"} /\ queue[i].c = c}
        waited == {i \in DOMAIN queue : queue[i].k = "wait" /\ queue[i].s = c}
        waits == {f \in Frame : frames[f].at = "queued" /\ frames[f].src = c}
        results == {f \in Frame : frames[f].result = c}
    IN  One(c \in handles) + One(c \in tracked)
        + Cardinality(inLists) + Cardinality(inners) + Cardinality(kept)
        + Cardinality(jobs) + Cardinality(sources) + Cardinality(waited)
        + Cardinality(waits) + Cardinality(results)
        + One(run.k \in {"handler", "next"} /\ run.d = c)
        + One(run.k = "handler" /\ run.src = c)
        + One(run.k = "next" /\ rx[run.d].src = c)

\* reaction.rs "Ownership", frame.rs "Ownership": a count is the number of
\* owners through every hand-over (list to queue, dispatcher to next reaction,
\* frame to waiter), so no cell is freed under an owner and none outlives its
\* last one; and the variables keep their kinds.
CountsOwners == TypeOK /\ \A c \in Cell : Live(c) => rc[c] = Owners(c)

\* A back-pointer, which is no reference, names a live pending cell whose list
\* holds the cell or frame that carries it.
BackPointersLive ==
    /\ \A d \in Cell :
          LET s == rx[d].src
              queued == \E i \in DOMAIN queue : queue[i] = ReactJob(d)
          IN  s # NULL /\ ~queued /\ run # [k |-> "next", d |-> d]
                => st[s] = "pending" /\ \E i \in DOMAIN list[s] : list[s][i] = Inline(d)
    /\ \A f \in Frame :
          frames[f].at = "parked"
            => \E i \in DOMAIN list[frames[f].src] : list[frames[f].src][i] = Parked(f)

\* A rejection nothing has observed stays on the list until the exit sweep,
\* even when every other reference has gone (track_rejection and
\* compact_observed drop observed entries only).
UnobservedTracked == \A c \in Cell : st[c] = "rejected" /\ ~handled[c] => c \in tracked

\* p keeps q by an entry of its list: a reaction's promise, the promise of a
\* frame parked on it, or any cell a record has.
Keeps(p, q) ==
    \E i \in DOMAIN list[p] :
       LET link == list[p][i]
       IN  CASE link.k = "frame" -> frames[link.f].result = q
             [] link.k = "wait" -> q \in {link.c, link.d, link.s}
             [] link.k = "inline" -> link.d = q
             [] OTHER -> q \in {link.c, link.d}

\* Once the program has let go of everything and no job is left, a cell in
\* memory is a rejection the exit sweep is to look at, or hangs on a pending
\* promise that is in a cycle, for the cycle collector if it can see the edges
\* (a record's it cannot, record.rs:6): chains that never settled are torn down
\* with their sources (free_cell, free_chain), and a settled cell keeps nothing
\* alive.
NothingLeaks ==
    dead = {} /\ run = Idle /\ queue = <<>> /\ handles = {}
        => \A c \in Cell : Live(c) /\ c \notin tracked
                 => \E p \in Cell : st[p] = "pending" /\ Keeps(p, c)

-----------------------------------------------------------------------------
(* The promises of the language as the cells hold them.                    *)

Waiter(link) == CASE link.k = "inline" -> [k |-> rx[link.d].kind, d |-> link.d]
                  [] link.k = "frame" -> link
                  [] link.k = "wait" -> [k |-> "wait", d |-> link.d, o |-> st[link.s]]
                  [] OTHER -> [k |-> link.k, d |-> link.d]

JobSeen(j) == CASE j.k = "react" -> [k |-> rx[j.d].kind, d |-> j.d, o |-> st[rx[j.d].src]]
                [] j.k = "wait" -> [k |-> "adopt", d |-> j.d, o |-> Waited(j)]
                [] j.k \in {"adopt", "both", "finally"}
                     -> [k |-> j.k, d |-> j.d, o |-> st[j.c]]
                [] OTHER -> j

\* What is left to run inside this job is queued behind the rest.
Pending == queue \o IF run.k = "next" THEN <<ReactJob(run.d)>>
                    ELSE IF run.k = "wake" THEN <<ResumeJob(run.f)>>
                    ELSE <<>>

Promises == INSTANCE PromiseSpec WITH
    reactions <- [c \in Cell |-> [i \in DOMAIN list[c] |->
                                    Waiter(list[c][Len(list[c]) + 1 - i])]],
    frames <- [f \in Frame |-> IF frames[f].result = NULL THEN "none" ELSE frames[f].result],
    jobs <- [i \in DOMAIN Pending |-> JobSeen(Pending[i])],
    running <- CASE run.k = "handler" /\ run.of = "finally"
                      -> [k |-> "finally", d |-> run.d, o |-> st[run.src]]
                 [] run.k = "handler" /\ run.of # "finally"
                      -> [k |-> "handler", d |-> run.d]
                 [] run.k \in {"idle", "next", "wake"} -> [k |-> "none"]
                 [] OTHER -> run,
    named <- handles

\* The cells, the reversed lists, the hand-overs and the chains that skip the
\* queue run every reaction once, in the order of the language, and free no
\* promise anything still names.
ImplementsPromises == Promises!Spec
=============================================================================
