----------------------------- MODULE Dispatcher -----------------------------
(* One dispatch of an accepted build: the thread that runs execute of
   crates/transflow/src/dispatch.rs with its Coordinator, one worker thread per
   attempt, and what acts on the same rows meanwhile: another handle of the
   session that cancels the build, a provider that withdraws its
   protection and other builds that hold capacity.

   A persisted transition is one transaction; between two of them anything
   else may happen.  Fences, times, reports and the contents of contracts are
   left out; a worker is its lifecycle::run, the process it starts an outcome. *)
EXTENDS Naturals, Sequences, FiniteSets

CONSTANTS
    Order,           \* jobs in the order of the accepted writes
    Budget,          \* job -> attempts its retry policy allows
    Reusable,        \* jobs whose first decision is to look for a cached version
    Capacity,        \* jobs the coordinator runs at once
    AbortOnFailure,  \* policy of the plan
    Starts           \* what a dispatch may start with: which jobs of the build
                     \* a job reads, whether a provider protects inputs of it
                     \* and the capacity that other builds hold at first

Jobs == {Order[i] : i \in DOMAIN Order}

ASSUME Parameters ==
    /\ Order \in Seq(Jobs) /\ Cardinality(Jobs) = Len(Order) /\ Order # <<>>
    /\ Budget \in [Jobs -> Nat \ {0}] /\ Reusable \subseteq Jobs
    /\ Capacity \in Nat \ {0} /\ AbortOnFailure \in BOOLEAN
    /\ Starts \subseteq [parents : [Jobs -> SUBSET Jobs], foreign : BOOLEAN, occupied : 0..Capacity]

VARIABLES
    start,           \* the one this dispatch has
    \* rows
    build, wanted, job, tries, lease,
    \* coordinator thread
    pc, at, current, abort, verdict, frozen, withdrawn, failure,
    \* worker threads and what they share with it
    worker, token, inbox, frames, open, reserved,
    \* surroundings
    others, due, lost, settling

Parents == start.parents

rows == <<build, wanted, job, tries, lease>>
thread == <<pc, at, current, abort, verdict, frozen, withdrawn, failure>>
threads == <<worker, token, inbox, frames, open, reserved>>
world == <<others, due, lost, settling>>
vars == <<start, rows, thread, threads, world>>

Attempting == {"STARTING", "VALIDATING_INPUTS", "RUNNING", "MATERIALIZING", "VALIDATING_OUTPUTS", "COMMITTING"}
Successful == {"SUCCEEDED", "CACHED"}
Finished == Successful \cup {"FAILED", "BLOCKED", "CANCELED"}
Untried == {"PLANNED", "WAITING_DEPENDENCIES", "QUEUED"}
JobStates == Attempting \cup Finished \cup Untried \cup {"RETRY_WAIT"}

\* lifecycle::run: what is observed, in order; between RUNNING and
\* VALIDATING_OUTPUTS the process reports that it materializes.
Script == <<"VALIDATING_INPUTS", "inputs", "RUNNING", "materializing", "VALIDATING_OUTPUTS", "outputs">>
Phases == Attempting \ {"STARTING", "COMMITTING"}
Before == [VALIDATING_INPUTS |-> {"STARTING"}, RUNNING |-> {"VALIDATING_INPUTS"},
           MATERIALIZING |-> {"RUNNING"}, VALIDATING_OUTPUTS |-> {"MATERIALIZING"}]

\* mode: what the thread does; done: observations acknowledged; end: its outcome.
NoWorker == [mode |-> "none", done |-> 0, end |-> "none"]
Live == {j \in Jobs : worker[j].mode \notin {"none", "sent", "exited"}}
NoMessage == [job |-> "none", what |-> "none"]

Init ==
    /\ build = "QUEUED" /\ wanted = FALSE
    /\ job = [j \in Jobs |-> "PLANNED"] /\ tries = [j \in Jobs |-> 0]
    /\ lease = [j \in Jobs |-> "none"]
    /\ pc = "prepare" /\ at = 1 /\ current = NoMessage /\ abort = FALSE /\ verdict = "none"
    /\ frozen = {} /\ withdrawn = FALSE /\ failure = "none"
    /\ worker = [j \in Jobs |-> NoWorker] /\ token = [j \in Jobs |-> "none"]
    /\ inbox = <<>> /\ frames = {} /\ open = TRUE /\ reserved = {}
    /\ start \in Starts /\ others = start.occupied /\ due = {} /\ lost = FALSE /\ settling = FALSE

-----------------------------------------------------------------------------
(* An error inside the scope: the control is dropped first and cancels every
   registered worker, then the receivers, then the scope joins its threads. *)
HangUp == open' = FALSE
Canceled == [j \in Jobs |-> IF token[j] = "none" THEN "none" ELSE "canceled"]
Fail(cause) ==
    /\ pc' = "failing" /\ failure' = cause
    /\ token' = Canceled /\ HangUp
    /\ inbox' = <<>> /\ frames' = {}
    /\ reserved' = reserved \cap Live
    /\ UNCHANGED <<build, at, current, abort, verdict, frozen, withdrawn, world>>

Failing ==
    /\ pc = "failing" /\ Live = {} /\ \A j \in Jobs : worker[j].mode # "sent"
    /\ pc' = "failed"
    /\ UNCHANGED <<rows, at, current, abort, verdict, frozen, withdrawn, failure, threads, world>>

\* persist_execution under the domain's guards: why a transition is refused.
Refusal(j, from, to) ==
    IF job[j] \notin from THEN "illegal"
    ELSE IF build # "RUNNING" THEN "fence"
    ELSE IF to \notin Finished /\ wanted THEN "canceled" ELSE "none"
Becomes(j, to) == job' = [job EXCEPT ![j] = to]

\* BuildControl::request: the durable winner first, then the tokens.
Heard == build \in {"QUEUED", "RUNNING"} /\ \E j \in Jobs : job[j] \notin Finished
Request ==
    /\ wanted' = (wanted \/ Heard)
    /\ token' = IF Heard THEN Canceled ELSE token
    /\ abort' = TRUE

-----------------------------------------------------------------------------
(* Before the loop.  Preparation reads and verifies what the plan accepted;
   where it fails, the build is canceled if it is still queued. *)
Prepare ==
    /\ pc = "prepare" /\ build = "QUEUED" /\ pc' = "begin"
    /\ UNCHANGED <<rows, at, current, abort, verdict, frozen, withdrawn, failure, threads, world>>

Unstarted ==
    IF build = "QUEUED"
    THEN build' = "CANCELED" /\ wanted' = TRUE /\ job' = [j \in Jobs |-> "CANCELED"]
    ELSE UNCHANGED <<build, wanted, job>>

PrepareFails ==
    /\ pc = "prepare" /\ pc' = "failed" /\ failure' = "preparation"
    /\ Unstarted
    /\ UNCHANGED <<tries, lease, at, current, abort, verdict, frozen, withdrawn, threads, world>>

StartDispatch ==
    /\ pc = "begin"
    /\ IF build = "QUEUED"
       THEN build' = "RUNNING" /\ pc' = "poll" /\ failure' = failure
       ELSE build' = build /\ pc' = "failed" /\ failure' = "started"
    /\ UNCHANGED <<wanted, job, tries, lease, at, current, abort, verdict, frozen, withdrawn, threads, world>>

-----------------------------------------------------------------------------
(* The loop.  A command of this build (or the signal that stops the process)
   is requested at once; the durable flag is read every 100 ms. *)
Poll(reads) ==
    /\ pc = "poll" /\ pc' = "jobs" /\ at' = 1
    /\ \E commanded \in BOOLEAN :
        IF commanded \/ (~abort /\ (lost \/ (reads /\ wanted)))
        THEN Request ELSE UNCHANGED <<wanted, token, abort>>
    /\ withdrawn' = (withdrawn \/ lost)
    /\ UNCHANGED <<build, job, tries, lease, current, verdict, frozen, failure,
                   worker, inbox, frames, open, reserved, world>>

\* One job of the order: the first condition that holds decides.
Visited == at' = at + 1 /\ pc' = pc
Stays == UNCHANGED <<build, wanted, tries, lease, current, abort, verdict, frozen, withdrawn, failure, threads, world>>
Settles(j, to) ==
    \/ Refusal(j, Untried \cup {"RETRY_WAIT"}, to) = "none" /\ Becomes(j, to) /\ Visited /\ Stays
    \/ LET refusal == Refusal(j, Untried \cup {"RETRY_WAIT"}, to) IN
       refusal # "none" /\ Fail(refusal) /\ UNCHANGED <<wanted, job, tries, lease, worker>>

Visit(j) ==
    LET unsuccessful == {p \in Parents[j] : job[p] \notin Successful}
    IN  /\ pc = "jobs" /\ at \in DOMAIN Order /\ Order[at] = j
        /\ IF job[j] \in Finished \cup Attempting
              \/ (job[j] = "RETRY_WAIT" /\ j \notin due /\ ~abort)
           THEN Visited /\ Stays /\ job' = job
           ELSE IF \E p \in Parents[j] : job[p] \in {"FAILED", "BLOCKED"} THEN Settles(j, "BLOCKED")
           ELSE IF abort THEN Settles(j, "CANCELED")
           ELSE IF unsuccessful # {}
           THEN IF job[j] = "PLANNED" THEN Settles(j, "WAITING_DEPENDENCIES")
                ELSE Visited /\ Stays /\ job' = job
           ELSE /\ IF Cardinality(reserved) + others < Capacity
                   THEN reserved' = reserved \cup {j} /\ pc' = "bind" /\ at' = at
                   ELSE reserved' = reserved /\ Visited
                /\ UNCHANGED <<rows, current, abort, verdict, frozen, withdrawn, failure,
                               worker, token, inbox, frames, open, world>>

Launching == Order[at]
NextJob == pc' = "jobs" /\ at' = at + 1
Leak(j) == reserved' = reserved    \* mutant: kept with the evidence
GiveBack(j) == reserved' = reserved \ {j}

\* bind_execution_inputs: the contract of a job is frozen once.
BindInputs == frozen' = frozen \cup {Launching}

\* contract: neither forced nor a refresh, and reusable, when its inputs are first bound.
MayReuse(j) == j \in Reusable \ frozen

\* Coordinator::cache: verified, adopted, and the job is done.
Reused(j) ==
    /\ MayReuse(j) /\ ~wanted
    /\ Becomes(j, "CACHED") /\ GiveBack(j) /\ NextJob
Executed == pc' = "lease" /\ UNCHANGED <<job, at, reserved>>
Bind ==
    /\ pc = "bind"
    /\ \/ /\ lost /\ GiveBack(Launching) /\ NextJob /\ UNCHANGED job
       \/ /\ ~lost /\ Reused(Launching)
       \/ /\ ~lost /\ Executed /\ (MayReuse(Launching) => ~wanted)
    /\ BindInputs
    /\ UNCHANGED <<build, wanted, tries, lease, current, abort, verdict, withdrawn, failure,
                   worker, token, inbox, frames, open, world>>

\* lookup_cache and adopt_cache refuse a canceled build.
BindRefused ==
    /\ pc = "bind" /\ ~lost /\ MayReuse(Launching) /\ wanted
    /\ Fail("canceled")
    /\ UNCHANGED <<wanted, job, tries, lease, worker>>

\* New leases first, then the ones kept over the wait are released.
Lease ==
    /\ pc = "lease" /\ pc' = "queue"
    /\ lease' = [lease EXCEPT ![Launching] = "held"]
    /\ UNCHANGED <<build, wanted, job, tries, at, current, abort, verdict, frozen, withdrawn, failure, threads, world>>

Step(j, from, to, then) ==
    \/ /\ Refusal(j, from, to) = "none" /\ Becomes(j, to) /\ pc' = then
       /\ UNCHANGED <<build, wanted, lease, at, current, abort, verdict, frozen, withdrawn, failure, threads, world>>
    \/ LET refusal == Refusal(j, from, to) IN
       /\ refusal # "none" /\ Fail(refusal)
       /\ UNCHANGED <<wanted, job, lease, worker>>

Queue ==
    /\ pc = "queue"
    /\ IF job[Launching] = "RETRY_WAIT"
       THEN pc' = "attempt" /\ UNCHANGED <<build, wanted, job, lease, at, current, abort, verdict, frozen,
                                           withdrawn, failure, threads, world>>
       ELSE Step(Launching, {"PLANNED", "WAITING_DEPENDENCIES"}, "QUEUED", "attempt")
    /\ UNCHANGED tries

StartAttempt ==
    /\ pc = "attempt"
    /\ Step(Launching, {"QUEUED", "RETRY_WAIT"}, "STARTING", "register")
    /\ tries' = [tries EXCEPT ![Launching] = IF failure' = "none" THEN @ + 1 ELSE @]

\* What the thread is given: the accepted contract and verified inputs.
Requested == [NoWorker EXCEPT !.mode = "work"]
\* authorize_worker: no worker for a canceled build or an attempt that is over.
Authorized ==
    ~wanted /\ build = "RUNNING" /\ job[Launching] \in Attempting \ {"COMMITTING"}

\* Registered with the cancellation service, then the thread is spawned.
Register ==
    /\ pc = "register"
    /\ \/ /\ ~Authorized /\ Fail("canceled") /\ UNCHANGED <<wanted, job, tries, lease, worker>>
       \/ /\ Authorized /\ NextJob
          /\ token' = [token EXCEPT ![Launching] = "live"]
          /\ worker' = [worker EXCEPT ![Launching] = Requested]
          /\ UNCHANGED <<rows, current, abort, verdict, frozen, withdrawn, failure,
                         inbox, frames, open, reserved, world>>

Visits == \E j \in Jobs : Visit(j)
JobsDone ==
    /\ pc = "jobs" /\ at \notin DOMAIN Order
    /\ pc' = IF \A j \in Jobs : job[j] \in Finished THEN "finish" ELSE "drain"
    /\ UNCHANGED <<rows, at, current, abort, verdict, frozen, withdrawn, failure, threads, world>>

-----------------------------------------------------------------------------
(* Frames of the processes are drained before the mailbox is read and again
   before the message is handled, so that a phase never overtakes them. *)
DrainedOnce == frames = {} \/ current # NoMessage    \* mutant: not again
Drained == frames = {}
Drain ==
    /\ pc = "drain"
    /\ IF Drained THEN pc' = (IF current = NoMessage THEN "receive" ELSE "handle") /\ frames' = frames
       ELSE abort /\ pc' = pc /\ frames' = {}
    /\ UNCHANGED <<rows, at, current, abort, verdict, frozen, withdrawn, failure,
                   worker, token, inbox, open, reserved, world>>

Materialization(j) ==
    /\ pc = "drain" /\ ~Drained /\ ~abort /\ j \in frames
    /\ \/ /\ Refusal(j, Before.MATERIALIZING, "MATERIALIZING") = "none"
          /\ Becomes(j, "MATERIALIZING") /\ frames' = frames \ {j}
          /\ UNCHANGED <<build, wanted, tries, lease, thread, worker, token, inbox, open, reserved, world>>
       \/ LET refusal == Refusal(j, Before.MATERIALIZING, "MATERIALIZING") IN
          /\ refusal # "none" /\ Fail(refusal) /\ UNCHANGED <<wanted, job, tries, lease, worker>>

Receive ==
    /\ pc = "receive"
    /\ IF inbox # <<>>
       THEN current' = Head(inbox) /\ inbox' = Tail(inbox) /\ pc' = "drain"
       ELSE current' = current /\ inbox' = inbox /\ pc' = "check"
    /\ UNCHANGED <<rows, at, abort, verdict, frozen, withdrawn, failure,
                   worker, token, frames, open, reserved, world>>

\* After 20 ms without a message: a thread that is gone sent no evidence.
Check ==
    /\ pc = "check"
    /\ \/ /\ \A j \in Jobs : worker[j].mode # "exited"
          /\ pc' = "poll"
          /\ UNCHANGED <<rows, at, current, abort, verdict, frozen, withdrawn, failure, threads, world>>
       \/ /\ \E j \in Jobs : worker[j].mode = "exited"
          /\ Fail("vanished") /\ UNCHANGED <<wanted, job, tries, lease, worker>>

Answer(j, accepted) ==
    LET w == worker[j] IN
    worker' = [worker EXCEPT ![j] = IF ~accepted THEN [w EXCEPT !.mode = "report", !.end = "refused"]
                                    ELSE IF w.end # "none" THEN [w EXCEPT !.mode = "report"]
                                    ELSE [w EXCEPT !.mode = "work", !.done = w.done + 1]]
Handled == pc' = "poll" /\ current' = NoMessage

\* Coordinator::observe; a phase of an aborted build is refused unheard.
Observe ==
    /\ pc = "handle" /\ current.what # "finished"
    /\ LET j == current.job what == current.what IN
       \/ /\ what \in Phases /\ abort
          /\ Answer(j, FALSE) /\ Handled
          /\ UNCHANGED <<rows, at, abort, verdict, frozen, withdrawn, failure,
                         token, inbox, frames, open, reserved, world>>
       \/ /\ what \notin Phases
          /\ Answer(j, TRUE) /\ Handled
          /\ UNCHANGED <<rows, at, abort, verdict, frozen, withdrawn, failure,
                         token, inbox, frames, open, reserved, world>>
       \/ /\ what \in Phases /\ ~abort /\ Refusal(j, Before[what], what) = "none"
          /\ Becomes(j, what) /\ Answer(j, TRUE) /\ Handled
          /\ UNCHANGED <<build, wanted, tries, lease, at, abort, verdict, frozen, withdrawn, failure,
                         token, inbox, frames, open, reserved, world>>
       \/ LET refusal == IF what \in Phases THEN Refusal(j, Before[what], what) ELSE "none" IN
          /\ ~abort /\ refusal # "none"
          /\ Answer(j, FALSE) /\ Fail(refusal) /\ UNCHANGED <<wanted, job, tries, lease>>

\* The completion evidence of an attempt; the winner is read once more.
Completed ==
    /\ pc = "handle" /\ current.what = "finished"
    /\ \E signal \in BOOLEAN :
        IF ~abort /\ (signal \/ wanted \/ lost) THEN Request ELSE UNCHANGED <<wanted, token, abort>>
    /\ withdrawn' = (withdrawn \/ lost)
    /\ pc' = IF worker[current.job].end = "approved" THEN "publish" ELSE "decide"
    /\ verdict' = worker[current.job].end
    /\ UNCHANGED <<build, job, tries, lease, at, current, frozen, failure,
                   worker, inbox, frames, open, reserved, world>>

\* publish_observed: intent and COMMITTING, then, the object installed, the commit.
Publish ==
    /\ pc = "publish"
    /\ IF token[current.job] = "canceled" \/ wanted
       THEN pc' = "decide" /\ verdict' = "conflict" /\ job' = job
       ELSE pc' = "commit" /\ verdict' = verdict /\ Becomes(current.job, "COMMITTING")
    /\ UNCHANGED <<build, wanted, tries, lease, at, current, abort, frozen, withdrawn, failure, threads, world>>

Commit ==
    /\ pc = "commit"
    /\ IF token[current.job] = "canceled" \/ lost \/ wanted
       THEN pc' = "decide" /\ verdict' = "conflict" /\ UNCHANGED <<job, lease>>
       ELSE /\ pc' = "join" /\ verdict' = verdict /\ Becomes(current.job, "SUCCEEDED")
            /\ lease' = [lease EXCEPT ![current.job] = "none"]
    /\ UNCHANGED <<build, wanted, tries, at, current, abort, frozen, withdrawn, failure, threads, world>>

\* Not a success: the flag is read, then the outcome is recorded.
Retried(j) == verdict = "transient" /\ tries[j] < Budget[j]
Decide ==
    /\ pc = "decide" /\ pc' = "record"
    /\ verdict' = IF abort \/ wanted THEN "CANCELED" ELSE IF Retried(current.job) THEN "RETRY_WAIT" ELSE "FAILED"
    /\ UNCHANGED <<rows, at, current, abort, frozen, withdrawn, failure, threads, world>>

KeptNever(to) == "none"    \* mutant: released with the attempt
Kept(to) == IF to = "RETRY_WAIT" THEN "kept" ELSE "none"
Record ==
    /\ pc = "record"
    /\ LET j == current.job refusal == Refusal(j, Attempting, verdict) IN
       \/ /\ refusal = "none" /\ Becomes(j, verdict) /\ pc' = "join"
          /\ lease' = [lease EXCEPT ![j] = Kept(verdict)]
          /\ UNCHANGED <<build, wanted, tries, at, current, abort, verdict, frozen, withdrawn, failure, threads, world>>
       \/ /\ refusal # "none" /\ Fail(refusal) /\ UNCHANGED <<wanted, job, tries, lease, worker>>

Join ==
    /\ pc = "join" /\ worker[current.job].mode = "exited" /\ Handled
    /\ LET j == current.job IN
       /\ worker' = [worker EXCEPT ![j] = NoWorker]
       /\ GiveBack(j)
       /\ IF job[j] = "FAILED" /\ ~abort /\ AbortOnFailure
          THEN /\ wanted' = (wanted \/ Heard) /\ abort' = TRUE
               /\ token' = [(IF Heard THEN Canceled ELSE token) EXCEPT ![j] = "none"]
          ELSE token' = [token EXCEPT ![j] = "none"] /\ UNCHANGED <<wanted, abort>>
       /\ due' = due \ {j}
    /\ UNCHANGED <<build, job, tries, lease, at, verdict, frozen, withdrawn, failure,
                   inbox, frames, open, others, lost, settling>>

\* Build::finish and finish_dispatch; a withdrawn protection is still an error.
Verdict ==
    IF \E j \in Jobs : job[j] \in {"FAILED", "BLOCKED"} THEN "FAILED"
    ELSE IF \E j \in Jobs : job[j] = "CANCELED" THEN "CANCELED" ELSE "SUCCEEDED"
FinishDispatch ==
    /\ pc = "finish" /\ build' = Verdict
    /\ lease' = [j \in Jobs |-> "none"]
    /\ pc' = IF withdrawn THEN "failed" ELSE "returned"
    /\ failure' = IF withdrawn THEN "provider" ELSE failure
    /\ UNCHANGED <<wanted, job, tries, at, current, abort, verdict, frozen, withdrawn, threads, world>>

Coordinate ==
    \/ Prepare \/ PrepareFails \/ StartDispatch \/ (\E reads \in BOOLEAN : Poll(reads)) \/ Visits \/ Bind \/ BindRefused \/ Lease \/ Queue
    \/ StartAttempt \/ Register \/ JobsDone \/ Drain \/ (\E j \in Jobs : Materialization(j)) \/ Receive
    \/ Check \/ Observe \/ Completed \/ Publish \/ Commit \/ Decide \/ Record \/ Join \/ FinishDispatch \/ Failing

-----------------------------------------------------------------------------
(* A worker thread.  While it waits for an acknowledgement the coordinator
   may hang up; whatever it sends after that is refused. *)
Sets(j, record) == worker' = [worker EXCEPT ![j] = record]
Working(j) == worker[j].mode = "work" /\ worker[j].end = "none"
Apart == UNCHANGED <<rows, thread, token, world>>

\* lifecycle::run stops where it looks at the token, at a gate, or when the
\* transform's process fails; a process that is canceled is ended.
Preflight == "refused"      \* request, inputs and declarations are compared
Gate == "gate"              \* a check of severity error does not pass
Process == {"transient", "failed"}
Outcomes(j) ==
    LET canceled == IF token[j] = "canceled" THEN {"canceled"} ELSE {}
        done == worker[j].done
    IN  canceled \cup
        CASE done = 0 -> {Preflight}
          [] done = 2 -> {Gate}
          [] done \in {3, 4} -> Process
          [] done = 6 -> {Gate} \cup (IF canceled = {} THEN {"approved"} ELSE {})
          [] OTHER -> {}
End(j) ==
    /\ Working(j)
    /\ \E end \in Outcomes(j) :
        Sets(j, [worker[j] EXCEPT !.end = end,
                    !.mode = IF end # "approved" /\ worker[j].done > 4 THEN "reject" ELSE "report"])
    /\ Apart /\ UNCHANGED <<inbox, frames, open, reserved>>

\* The frame of the process is queued before anything later of its attempt.
Materialize(j) ==
    /\ Working(j) /\ worker[j].done = 3 /\ token[j] = "live" /\ open
    /\ frames' = frames \cup {j} /\ Sets(j, [worker[j] EXCEPT !.done = 4])
    /\ Apart /\ UNCHANGED <<inbox, open, reserved>>

Says(j, what) == inbox' = Append(inbox, [job |-> j, what |-> what])
\* An observation is sent and its acknowledgement awaited.
RunsOn(record) == [record EXCEPT !.done = @ + 1]    \* mutant: it is not
Awaited(record) == [record EXCEPT !.mode = "wait"]
Send(j) ==
    /\ Working(j) /\ worker[j].done < 6 /\ worker[j].done # 3 /\ open
    /\ worker[j].done \in {0, 2} => token[j] = "live"
    /\ Says(j, Script[worker[j].done + 1])
    /\ Sets(j, Awaited(worker[j]))
    /\ Apart /\ UNCHANGED <<frames, open, reserved>>

\* A failed attempt that has a candidate reports it as rejected evidence.
Reject(j) ==
    /\ worker[j].mode = "reject"
    /\ IF open THEN Says(j, "rejected") /\ Sets(j, [worker[j] EXCEPT !.mode = "wait"])
       ELSE inbox' = inbox /\ Sets(j, [worker[j] EXCEPT !.mode = "report"])
    /\ Apart /\ UNCHANGED <<frames, open, reserved>>

Orphaned(j) ==
    /\ worker[j].mode = "wait" /\ ~open
    /\ Sets(j, [worker[j] EXCEPT !.mode = "report", !.end = "refused"])
    /\ Apart /\ UNCHANGED <<inbox, frames, open, reserved>>
Refused(j) ==
    /\ Working(j) /\ ~open
    /\ Sets(j, [worker[j] EXCEPT !.mode = "report", !.end = "refused"])
    /\ Apart /\ UNCHANGED <<inbox, frames, open, reserved>>

\* The reservation travels with the completion, or is dropped with it.
Report(j) ==
    /\ worker[j].mode = "report" /\ Sets(j, [worker[j] EXCEPT !.mode = "sent"])
    /\ IF open THEN Says(j, "finished") /\ reserved' = reserved ELSE GiveBack(j) /\ inbox' = inbox
    /\ Apart /\ UNCHANGED <<frames, open>>
Exit(j) ==
    /\ worker[j].mode = "sent" /\ Sets(j, [worker[j] EXCEPT !.mode = "exited"])
    /\ Apart /\ UNCHANGED <<inbox, frames, open, reserved>>

Work(j) ==
    \/ End(j) \/ Materialize(j) \/ Send(j) \/ Reject(j)
    \/ Orphaned(j) \/ Refused(j) \/ Report(j) \/ Exit(j)

-----------------------------------------------------------------------------
(* Surroundings.  cancel_owned by the serving loop or by the thread of another
   build, which drains the same mailbox: a queued build is settled at once. *)
Cancel ==
    /\ Heard /\ ~wanted /\ wanted' = TRUE /\ settling' = (build = "QUEUED")
    /\ UNCHANGED <<build, job, tries, lease, thread, threads, others, due, lost>>
Settle ==
    /\ settling /\ settling' = FALSE /\ Unstarted
    /\ UNCHANGED <<tries, lease, thread, threads, others, due, lost>>
Withdraw == start.foreign /\ ~lost /\ lost' = TRUE /\ UNCHANGED <<rows, thread, threads, others, due, settling>>
Vacate == others > 0 /\ others' = others - 1 /\ UNCHANGED <<rows, thread, threads, due, lost, settling>>
Backoff(j) ==
    /\ job[j] = "RETRY_WAIT" /\ j \notin due /\ due' = due \cup {j}
    /\ UNCHANGED <<rows, thread, threads, others, lost, settling>>

Done == pc \in {"returned", "failed"} /\ UNCHANGED <<rows, thread, threads, world>>

Same == UNCHANGED start
Next ==
    /\ Same
    /\ \/ Coordinate \/ \E j \in Jobs : Work(j) \/ Backoff(j)
       \/ Cancel \/ Settle \/ Withdraw \/ Vacate \/ Done

\* Threads run, backoffs pass, other builds end, and the durable flag is read
\* again and again.
Fairness ==
    /\ WF_vars(Coordinate /\ Same) /\ SF_vars(Poll(TRUE) /\ Same) /\ WF_vars(Vacate /\ Same)
    /\ \A j \in Jobs : WF_vars(Work(j) /\ Same) /\ WF_vars(Backoff(j) /\ Same)
Spec == Init /\ [][Next]_vars /\ Fairness

-----------------------------------------------------------------------------

\* A phase is durable before its work starts: where a thread is, its attempt
\* is, as long as the coordinator listens.
EvidenceFirst ==
    \A j \in Jobs : Working(j) /\ open =>
        CASE worker[j].done = 0 -> job[j] = "STARTING"
          [] worker[j].done \in {1, 2} -> job[j] = "VALIDATING_INPUTS"
          [] worker[j].done = 3 -> job[j] = "RUNNING"
          [] worker[j].done = 4 -> job[j] \in {"RUNNING", "MATERIALIZING"}
          [] OTHER -> job[j] = "VALIDATING_OUTPUTS"

\* What an attempt reads stays leased over its retries, from the launch to
\* the outcome.
InputsHeld ==
    \A j \in Jobs : pc \notin {"failed", "returned"} =>
        /\ job[j] \in Attempting \/ j \in Live => lease[j] = "held"
        /\ job[j] = "RETRY_WAIT" => lease[j] # "none"

\* The coordinator never asks for a transition its own state forbids: frames,
\* observations and completions of an attempt are handled in their order.
InOrder == failure # "illegal" /\ failure # "fence"

\* Every dispatch ends, whatever is canceled, withdrawn or refused meanwhile:
\* its capacity is returned and no thread is left; one that reports a result
\* has decided all jobs and released what they read.
Ends ==
    <>(/\ pc \in {"returned", "failed"} /\ reserved = {} /\ Live = {}
       /\ pc = "returned" => \A j \in Jobs : job[j] \in Finished /\ lease[j] = "none")
=============================================================================
