-------------------------- MODULE DispatcherProofs --------------------------
(* What the module Dispatcher promises, for every order of jobs, every policy
   and every start of a dispatch. *)
EXTENDS Dispatcher, TLAPS

-----------------------------------------------------------------------------
(* The invariant: what the rows, the coordinator and its threads know of each
   other while the coordinator listens. *)

Launch == {"bind", "lease", "queue", "attempt", "register"}
Deciding == {"publish", "commit", "decide", "record", "join"}
Handling == {"handle"} \cup Deciding
Loop == {"poll", "jobs", "drain", "receive", "check", "finish"} \cup Launch \cup Handling

Modes == {"none", "work", "wait", "reject", "report", "sent", "exited"}
Endings == {"none", "refused", "gate", "transient", "failed", "canceled", "approved"}
WorkerRow == [mode : Modes, done : 0..6, end : Endings]
Said == {Script[n] : n \in 1..6} \cup {"rejected", "finished"}
Messages == [job : Jobs, what : Said]

Types ==
    /\ job \in [Jobs -> JobStates] /\ lease \in [Jobs -> {"none", "held", "kept"}]
    /\ worker \in [Jobs -> WorkerRow] /\ frames \subseteq Jobs
    /\ inbox \in Seq(Messages) /\ current \in Messages \cup {NoMessage}
    /\ at \in Nat /\ abort \in BOOLEAN /\ open \in BOOLEAN

\* A build that is worked on runs; before that, and after a result, nothing does.
Idle == \A j \in Jobs : worker[j].mode = "none"
Started ==
    /\ pc \in Loop => build = "RUNNING" /\ open
    /\ pc = "failing" => build = "RUNNING" /\ ~open
    /\ pc \in Loop \cup {"prepare", "begin", "failing", "failed", "returned"}
    /\ pc \in {"prepare", "begin", "returned"} \/ (pc = "failed" /\ open) => Idle
    /\ pc \in {"prepare", "begin"} =>
           /\ open /\ frames = {} /\ inbox = <<>> /\ current = NoMessage
           /\ \A j \in Jobs : job[j] \in {"PLANNED", "CANCELED"}

\* The attempt of a thread that is told to go on, or waits for it.
Following(j) ==
    CASE worker[j].done = 0 -> job[j] = "STARTING"
      [] worker[j].done \in {1, 2} -> job[j] = "VALIDATING_INPUTS"
      [] worker[j].done = 3 -> job[j] = "RUNNING"
      [] worker[j].done = 4 -> \/ j \notin frames /\ job[j] = "MATERIALIZING"
                               \/ (j \in frames \/ abort) /\ job[j] = "RUNNING"
      [] OTHER -> job[j] = "VALIDATING_OUTPUTS"
Asking(j) == worker[j].mode = "wait" /\ worker[j].end = "none"

\* A thread has an attempt, an attempt a thread or the coordinator at it.
Attended(j) ==
    /\ worker[j].mode = "none" =>
           /\ job[j] \in Attempting => pc = "register" /\ j = Launching
           /\ job[j] = "QUEUED" => pc = "attempt" /\ j = Launching
    /\ worker[j].mode # "none" =>
           job[j] \in Attempting \/ (pc = "join" /\ j = current.job)
    /\ worker[j].mode = "work" => worker[j].end = "none"
    /\ worker[j].mode = "reject" => worker[j].end # "none"
    /\ worker[j].mode = "work" \/ Asking(j) => Following(j)
    /\ j \in frames => worker[j].mode # "none" /\ worker[j].done = 4 /\ job[j] = "RUNNING"

\* The step of a launch that the coordinator is at.
Launched ==
    /\ pc \in Launch => at \in DOMAIN Order /\ worker[Launching].mode = "none"
    /\ pc \in {"bind", "lease", "queue"} => job[Launching] \in {"PLANNED", "WAITING_DEPENDENCIES", "RETRY_WAIT"}
    /\ pc = "attempt" => job[Launching] \in {"QUEUED", "RETRY_WAIT"}
    /\ pc = "register" => job[Launching] = "STARTING"
    /\ pc \in {"queue", "attempt", "register"} => lease[Launching] = "held"

\* What a message says of the thread that sent it, until it is answered.
Fits(m) ==
    IF m.what = "finished" THEN worker[m.job].mode \in {"sent", "exited"}
    ELSE IF m.what = "rejected" THEN worker[m.job].mode = "wait" /\ worker[m.job].end # "none"
    ELSE Asking(m.job) /\ worker[m.job].done \in {0, 1, 2, 4, 5} /\ m.what = Script[worker[m.job].done + 1]
Mailbox ==
    /\ \A i \in DOMAIN inbox : Fits(inbox[i]) /\ (current # NoMessage => inbox[i].job # current.job)
    /\ \A i, k \in DOMAIN inbox : inbox[i].job = inbox[k].job => i = k
    /\ current # NoMessage => Fits(current) /\ pc \in {"drain"} \cup Handling
    /\ pc \in Handling => current # NoMessage /\ current.job \notin frames
    /\ pc \in Deciding => current.what = "finished"
    /\ pc = "record" => verdict \in {"CANCELED", "RETRY_WAIT", "FAILED"}
    /\ pc = "join" => job[current.job] \in Finished \cup {"RETRY_WAIT"}
    /\ pc = "finish" => \A j \in Jobs : job[j] \in Finished

Tracked == pc \in Loop => Launched /\ Mailbox /\ \A j \in Jobs : Attended(j)

Inv == Types /\ Started /\ Tracked /\ InputsHeld /\ InOrder

LEMMA Silent == <<>> \in Seq(Messages)
OBVIOUS

LEMMA InitInv == Init => Inv
<1> SUFFICES ASSUME Init PROVE Inv
  OBVIOUS
<1>1. NoWorker \in WorkerRow
  BY DEF NoWorker, WorkerRow, Modes, Endings
<1>2. Types
  BY <1>1, Silent DEF Init, Types, JobStates, Untried
<1>3. Started /\ Tracked
  BY DEF Init, Started, Tracked, Idle, NoWorker, Loop, Launch, Handling, Deciding
<1>4. InputsHeld /\ InOrder
  BY DEF Init, InputsHeld, InOrder, Live, NoWorker, Attempting
<1> QED
  BY <1>2, <1>3, <1>4 DEF Inv

-----------------------------------------------------------------------------
(* A step that is refused. *)

\* A transition from a state it may start in is refused for a request only.
LEMMA Refusals ==
  ASSUME Inv, pc \in Loop, NEW j \in Jobs, NEW from, NEW to, job[j] \in from
  PROVE  /\ Refusal(j, from, to) \in {"none", "canceled"}
         /\ to \in Finished => Refusal(j, from, to) = "none"
BY DEF Refusal, Inv, Started

\* An error leaves the rows and the leases of what still runs.
LEMMA FailStep ==
  ASSUME Inv, pc \in Loop, NEW cause, cause \notin {"illegal", "fence"}, Fail(cause),
         UNCHANGED <<job, lease>>, Types',
         \A j \in Jobs : worker'[j].mode = worker[j].mode \/ worker[j].mode \notin {"none", "sent", "exited"}
  PROVE  Inv'
<1>1. Started'
  BY DEF Fail, HangUp, Inv, Started, Loop, Launch, Handling, Deciding
<1>2. Tracked'
  BY DEF Fail, Tracked, Loop, Launch, Handling, Deciding
<1>3. Live' \subseteq Live
  BY DEF Live
<1>4. InputsHeld'
  BY <1>3 DEF Inv, InputsHeld, Fail, Loop, Launch, Handling, Deciding
<1>5. InOrder'
  BY DEF Fail, InOrder
<1> QED
  BY <1>1, <1>2, <1>4, <1>5 DEF Inv

\* The same where no thread is touched.
LEMMA FailOnly ==
  ASSUME Inv, pc \in Loop, NEW cause, cause \notin {"illegal", "fence"}, Fail(cause),
         UNCHANGED <<job, lease, worker>>
  PROVE  Inv'
<1>1. Types'
  BY Silent DEF Fail, HangUp, Inv, Types
<1> QED
  BY <1>1, FailStep

-----------------------------------------------------------------------------
(* The surroundings, and the dispatch before and after its loop. *)

LEMMA WorldStep ==
  ASSUME Inv, Cancel \/ Withdraw \/ Vacate \/ Done \/ \E j \in Jobs : Backoff(j)
  PROVE  Inv'
<1>1. UNCHANGED <<build, job, lease, pc, at, current, abort, verdict, failure, worker, inbox, frames, open>>
  BY DEF Cancel, Withdraw, Vacate, Done, Backoff, rows, thread, threads, world
<1>2. Types' /\ Started'
  BY <1>1 DEF Inv, Types, Started, Idle
<1>3. Tracked'
  BY <1>1 DEF Inv, Tracked, Launched, Launching, Mailbox, Fits, Attended, Following, Asking
<1>4. InputsHeld' /\ InOrder'
  BY <1>1 DEF Inv, InputsHeld, InOrder, Live
<1> QED
  BY <1>2, <1>3, <1>4 DEF Inv

\* A build that has not started can be settled: the coordinator is not at it.
LEMMA SettleStep ==
  ASSUME Inv, Settle \/ PrepareFails \/ Prepare
  PROVE  Inv'
<1>1. UNCHANGED <<lease, at, current, abort, verdict, worker, inbox, frames, open>>
      /\ (UNCHANGED <<build, job>> \/ (build = "QUEUED" /\ build' = "CANCELED" /\ job' = [j \in Jobs |-> "CANCELED"]))
      /\ \/ UNCHANGED <<pc, failure>>
         \/ pc = "prepare" /\ pc' = "failed" /\ failure' = "preparation"
         \/ pc = "prepare" /\ pc' = "begin" /\ UNCHANGED <<failure, build, job>>
  BY DEF Settle, Unstarted, PrepareFails, Prepare, thread, threads, rows
<1>2. pc \notin Loop \cup {"failing"} \/ UNCHANGED <<build, job, pc, failure>>
  BY <1>1 DEF Inv, Started, Loop, Launch, Handling, Deciding
<1>3. Types'
  BY <1>1 DEF Inv, Types, JobStates, Finished
<1>4. Started'
  BY <1>1, <1>2 DEF Inv, Started, Idle, Loop, Launch, Handling, Deciding
<1>5. Tracked'
  <2>1. CASE UNCHANGED <<build, job, pc, failure>>
    BY <1>1, <2>1 DEF Inv, Tracked, Launched, Launching, Mailbox, Fits, Attended, Following, Asking
  <2>2. CASE pc \notin Loop \cup {"failing"}
    BY <1>1, <2>2 DEF Tracked, Loop, Launch, Handling, Deciding
  <2> QED
    BY <1>2, <2>1, <2>2
<1>6. InputsHeld'
  BY <1>1, <1>2 DEF Inv, InputsHeld, Live, Attempting
<1>7. InOrder'
  BY <1>1 DEF Inv, InOrder
<1> QED
  BY <1>3, <1>4, <1>5, <1>6, <1>7 DEF Inv

LEMMA BeginStep == Inv /\ StartDispatch => Inv'
<1> SUFFICES ASSUME Inv, StartDispatch PROVE Inv'
  OBVIOUS
<1>1. UNCHANGED <<job, lease, at, current, abort, verdict, worker, inbox, frames, open>>
  BY DEF StartDispatch, threads
<1>2. Types'
  BY <1>1 DEF Inv, Types
<1>3. Started'
  BY <1>1 DEF StartDispatch, Inv, Started, Idle, Loop, Launch, Handling, Deciding
<1>4. Tracked'
  BY <1>1 DEF StartDispatch, Inv, Started, Idle, Tracked, Launched, Mailbox, Attended, Asking,
              Launch, Handling, Deciding, Attempting
<1>5. InputsHeld' /\ InOrder'
  BY <1>1 DEF StartDispatch, Inv, InputsHeld, InOrder, Live
<1> QED
  BY <1>2, <1>3, <1>4, <1>5 DEF Inv

LEMMA FinishStep == Inv /\ (FinishDispatch \/ Failing) => Inv'
<1> SUFFICES ASSUME Inv, FinishDispatch \/ Failing PROVE Inv'
  OBVIOUS
<1>1. UNCHANGED <<job, at, current, abort, worker, inbox, frames, open>> /\ pc' \in {"failed", "returned"}
  BY DEF FinishDispatch, Failing, threads, rows
<1>2. Types'
  BY <1>1 DEF FinishDispatch, Failing, rows, Inv, Types
<1>3. ASSUME pc = "finish" PROVE Idle
  BY <1>3 DEF Inv, Tracked, Mailbox, Attended, Idle, Loop, Finished, Successful, Attempting
<1>4. Started'
  BY <1>1, <1>3 DEF FinishDispatch, Failing, Inv, Started, Idle, Loop, Launch, Handling, Deciding
<1>5. Tracked' /\ InputsHeld'
  BY <1>1 DEF Tracked, InputsHeld, Loop, Launch, Handling, Deciding
<1>6. InOrder'
  BY DEF FinishDispatch, Failing, Inv, InOrder
<1> QED
  BY <1>2, <1>4, <1>5, <1>6 DEF Inv

-----------------------------------------------------------------------------
(* The loop: jobs are visited and launched. *)

\* The coordinator moves on; no row, thread or message changes.
LEMMA MoveStep ==
  ASSUME Inv, pc \in Loop, pc' \in {"poll", "jobs", "drain", "receive", "check", "finish"},
         UNCHANGED <<build, job, lease, failure, current, worker, inbox, frames, open>>,
         pc \in Launch => job[Launching] \notin Attempting \cup {"QUEUED"},
         current = NoMessage \/ pc' = "drain", pc # "join",
         pc' = "finish" => \A j \in Jobs : job[j] \in Finished,
         at' \in Nat, abort' \in BOOLEAN, abort => abort'
  PROVE  Inv'
<1>1. Types' /\ Started'
  BY DEF Inv, Types, Started, Idle, Loop, Launch, Handling, Deciding
<1>2. Launched'
  BY DEF Launched, Launch
<1>3. Mailbox'
  BY DEF Inv, Tracked, Mailbox, Fits, Asking, Handling, Deciding
<1>4. ASSUME NEW j \in Jobs PROVE Attended(j)'
  <2>1. Attended(j)
    BY DEF Inv, Tracked
  <2>2. Following(j) => Following(j)'
    BY DEF Following
  <2> QED
    BY <2>1, <2>2 DEF Attended, Asking, Launch
<1>5. InputsHeld' /\ InOrder'
  BY DEF Inv, InputsHeld, InOrder, Live, Loop, Launch, Handling, Deciding
<1> QED
  BY <1>1, <1>2, <1>3, <1>4, <1>5 DEF Inv, Tracked

LEMMA PollStep == Inv /\ (\E reads \in BOOLEAN : Poll(reads)) => Inv'
<1> SUFFICES ASSUME Inv, NEW reads \in BOOLEAN, Poll(reads) PROVE Inv'
  OBVIOUS
<1>1. pc = "poll" /\ pc' = "jobs" /\ at' = 1 /\ abort' \in BOOLEAN /\ (abort => abort')
      /\ UNCHANGED <<build, job, lease, failure, current, worker, inbox, frames, open>>
  BY DEF Poll, Request, Inv, Types
<1>2. current = NoMessage
  BY <1>1 DEF Inv, Tracked, Mailbox, Loop, Handling, Deciding
<1> QED
  BY <1>1, <1>2, MoveStep DEF Loop, Launch

LEMMA DoneStep == Inv /\ (JobsDone \/ Check) => Inv'
<1> SUFFICES ASSUME Inv, JobsDone \/ Check PROVE Inv'
  OBVIOUS
<1>1. pc \in {"jobs", "check"} /\ pc \in Loop
  BY DEF JobsDone, Check, Loop
<1>2. current = NoMessage
  BY <1>1 DEF Inv, Tracked, Mailbox, Loop, Handling, Deciding
<1>3. CASE Check /\ pc' # "poll"
  BY <1>1, <1>3, FailOnly DEF Check
<1>4. CASE JobsDone \/ pc' = "poll"
  <2>1. pc' \in {"poll", "drain", "finish"} /\ (pc' = "finish" => \A j \in Jobs : job[j] \in Finished)
        /\ UNCHANGED <<build, job, lease, failure, current, worker, inbox, frames, open, at, abort>>
    BY <1>4 DEF JobsDone, Check, Fail, rows, threads
  <2> QED
    BY <1>1, <1>2, <2>1, MoveStep DEF Launch, Inv, Types
<1> QED
  BY <1>3, <1>4

\* Between two jobs of the order, or at the launch of one, a job without a
\* thread takes a state; its lease may be renewed.
LEMMA LaunchStep ==
  ASSUME Inv, pc \in {"jobs"} \cup Launch, pc' \in {"jobs"} \cup Launch,
         NEW j \in Jobs, worker[j].mode = "none",
         NEW to \in JobStates, job' = [job EXCEPT ![j] = to],
         NEW kind \in {"none", "held", "kept"}, lease' = [lease EXCEPT ![j] = kind],
         pc \in {"attempt", "register"} => j = Launching,
         to \in Attempting => pc' = "register" /\ j = Launching' /\ kind = "held",
         to = "QUEUED" => pc' = "attempt" /\ j = Launching',
         to = "RETRY_WAIT" => kind # "none",
         Launched', at' \in Nat,
         UNCHANGED <<build, current, abort, failure, worker, inbox, frames, open>>
  PROVE  Inv'
<1>1. Types' /\ Started'
  BY DEF Inv, Types, Started, Idle, Loop, Launch, Handling, Deciding
<1>2. current = NoMessage /\ pc \in Loop
  BY DEF Inv, Tracked, Mailbox, Loop, Launch, Handling, Deciding
<1>3. Mailbox'
  BY <1>2 DEF Inv, Tracked, Mailbox, Fits, Asking, Launch, Handling, Deciding
<1>4. ASSUME NEW k \in Jobs PROVE Attended(k)'
  <2>1. Attended(k)
    BY <1>2 DEF Inv, Tracked
  <2>2. CASE k = j
    <3>1. job'[k] = to
      BY <2>2 DEF Inv, Types
    <3> QED
      BY <2>1, <2>2, <3>1 DEF Attended, Asking
  <2>3. CASE k # j
    <3>1. job'[k] = job[k]
      BY <2>3 DEF Inv, Types
    <3>2. Following(k) => Following(k)'
      BY <3>1 DEF Following
    <3> QED
      BY <2>1, <2>3, <3>1, <3>2 DEF Attended, Asking, Launch
  <2> QED
    BY <2>2, <2>3
<1>5. InputsHeld'
  BY <1>2 DEF Inv, InputsHeld, Types, Live, Loop, Launch, Handling, Deciding
<1>6. InOrder'
  BY DEF Inv, InOrder
<1> QED
  BY <1>1, <1>3, <1>4, <1>5, <1>6 DEF Inv, Tracked

\* What the coordinator knows of the job it launches.
LEMMA AtLaunch ==
  ASSUME Inv, pc \in Launch
  PROVE  /\ at \in DOMAIN Order /\ Launching \in Jobs /\ worker[Launching].mode = "none"
         /\ pc \in {"bind", "lease", "queue"} => job[Launching] \in {"PLANNED", "WAITING_DEPENDENCIES", "RETRY_WAIT"}
         /\ pc = "attempt" => job[Launching] \in {"QUEUED", "RETRY_WAIT"}
         /\ pc = "register" => job[Launching] = "STARTING"
         /\ pc \in {"queue", "attempt", "register"} => lease[Launching] = "held"
         /\ (job[Launching] = "RETRY_WAIT" => lease[Launching] # "none")
         /\ lease[Launching] \in {"none", "held", "kept"} /\ job[Launching] \in JobStates
         /\ at \in Nat /\ at + 1 \in Nat
<1>1. pc \in Loop /\ Launched
  BY DEF Inv, Tracked, Loop
<1>2. Launching \in Jobs
  BY <1>1 DEF Launched, Launching, Jobs
<1> QED
  BY <1>1, <1>2 DEF Inv, Types, Launched, InputsHeld, Launch

LEMMA VisitStep == ASSUME Inv, NEW j \in Jobs, Visit(j) PROVE Inv'
<1>1. pc = "jobs" /\ pc \in Loop /\ at \in DOMAIN Order /\ at \in Nat /\ j = Launching /\ job[j] \in JobStates
  BY DEF Visit, Launching, Loop, Inv, Types
<1> DEFINE Waits(s) == s \in Untried \cup {"RETRY_WAIT"}
<1>2. ASSUME Waits(job[j]) PROVE worker[j].mode = "none" /\ job[j] # "QUEUED"
  <2>1. Attended(j) /\ job[j] \notin Attempting
    BY <1>1, <1>2 DEF Inv, Tracked, Untried, Attempting
  <2> QED
    BY <1>1, <2>1 DEF Attended
<1>3. job[j] \in Finished \cup Attempting \/ Waits(job[j])
  BY <1>1 DEF JobStates
<1>4. CASE Visited /\ Stays /\ job' = job
  <2>1. pc' = "jobs" /\ at' \in Nat /\ UNCHANGED <<build, lease, failure, current, worker, inbox, frames, open, abort>>
    BY <1>1, <1>4 DEF Visited, Stays, threads
  <2>2. current = NoMessage
    BY <1>1 DEF Inv, Tracked, Mailbox, Handling, Deciding
  <2> QED
    BY <1>1, <1>4, <2>1, <2>2, MoveStep DEF Launch, Inv, Types
<1>5. ASSUME NEW to \in {"BLOCKED", "CANCELED", "WAITING_DEPENDENCIES"}, Waits(job[j]), Settles(j, to)
      PROVE  Inv'
  <2>1. Refusal(j, Untried \cup {"RETRY_WAIT"}, to) \in {"none", "canceled"}
    BY <1>1, <1>5, Refusals
  <2>2. CASE Refusal(j, Untried \cup {"RETRY_WAIT"}, to) # "none"
    <3>1. Fail("canceled") /\ UNCHANGED <<job, lease, worker>>
      BY <1>5, <2>1, <2>2 DEF Settles
    <3> QED
      BY <1>1, <3>1, FailOnly
  <2>3. CASE Refusal(j, Untried \cup {"RETRY_WAIT"}, to) = "none"
    <3>1. job' = [job EXCEPT ![j] = to] /\ pc' = "jobs" /\ at' \in Nat
          /\ UNCHANGED <<build, lease, failure, current, worker, inbox, frames, open, abort>>
      BY <1>1, <1>5, <2>3 DEF Settles, Becomes, Visited, Stays, threads
    <3>2. to \in JobStates /\ to \notin Attempting \cup {"QUEUED", "RETRY_WAIT"}
      BY DEF JobStates, Finished, Untried, Attempting
    <3>3. Launched'
      BY <3>1 DEF Launched, Launch
    <3>4. lease' = [lease EXCEPT ![j] = lease[j]] /\ lease[j] \in {"none", "held", "kept"}
      BY <3>1 DEF Inv, Types
    <3> QED
      BY <1>1, <1>2, <1>5, <3>1, <3>2, <3>3, <3>4, LaunchStep
  <2> QED
    BY <2>2, <2>3
<1>6. ASSUME Waits(job[j]), pc' = "bind", at' = at, UNCHANGED <<rows, current, abort, failure, worker, inbox, frames, open>>
      PROVE  Inv'
  <2>1. worker[j].mode = "none" /\ job[j] \in {"PLANNED", "WAITING_DEPENDENCIES", "RETRY_WAIT"}
    BY <1>2, <1>6 DEF Untried
  <2>2. Launched'
    BY <1>1, <1>6, <2>1 DEF Launched, Launching, Launch, rows
  <2>3. job' = [job EXCEPT ![j] = job[j]] /\ lease' = [lease EXCEPT ![j] = lease[j]]
        /\ lease[j] \in {"none", "held", "kept"} /\ (job[j] = "RETRY_WAIT" => lease[j] # "none")
    BY <1>1, <1>6 DEF Inv, Types, rows, InputsHeld
  <2> QED
    BY <1>1, <1>6, <2>1, <2>2, <2>3, LaunchStep DEF Launch, rows, Attempting
<1>7. \/ Visited /\ Stays /\ job' = job
      \/ Waits(job[j]) /\ \E to \in {"BLOCKED", "CANCELED", "WAITING_DEPENDENCIES"} : Settles(j, to)
      \/ Waits(job[j]) /\ pc' = "bind" /\ at' = at /\ UNCHANGED <<rows, current, abort, failure, worker, inbox, frames, open>>
      \/ Visited /\ UNCHANGED <<rows, current, abort, verdict, frozen, withdrawn, failure, worker, token, inbox, frames, open, world>>
  BY <1>3 DEF Visit
<1>8. CASE Visited /\ UNCHANGED <<rows, current, abort, verdict, frozen, withdrawn, failure, worker, token, inbox, frames, open, world>>
  <2>1. pc' = "jobs" /\ at' \in Nat
        /\ UNCHANGED <<build, job, lease, failure, current, worker, inbox, frames, open, abort>>
    BY <1>1, <1>8 DEF Visited, rows
  <2>2. current = NoMessage
    BY <1>1 DEF Inv, Tracked, Mailbox, Handling, Deciding
  <2> QED
    BY <1>1, <2>1, <2>2, MoveStep DEF Launch, Inv, Types
<1> QED
  BY <1>4, <1>5, <1>6, <1>7, <1>8

LEMMA BindStep == Inv /\ (Bind \/ BindRefused) => Inv'
<1> SUFFICES ASSUME Inv, Bind \/ BindRefused PROVE Inv'
  OBVIOUS
<1>1. pc = "bind" /\ pc \in Launch /\ pc \in Loop
  BY DEF Bind, BindRefused, Launch, Loop
<1>2. CASE BindRefused
  BY <1>1, <1>2, FailOnly DEF BindRefused
<1>3. CASE Bind
  <2> DEFINE to == job'[Launching]
  <2>1. /\ \/ pc' = "jobs" /\ at' = at + 1 /\ (job' = job \/ job' = [job EXCEPT ![Launching] = "CACHED"])
           \/ pc' = "lease" /\ at' = at /\ job' = job
        /\ UNCHANGED <<build, lease, current, abort, failure, worker, inbox, frames, open>>
    BY <1>3 DEF Bind, NextJob, Reused, Executed, Becomes
  <2>2. job' = [job EXCEPT ![Launching] = to] /\ to \in {"PLANNED", "WAITING_DEPENDENCIES", "RETRY_WAIT", "CACHED"}
        /\ (to # "CACHED" => job' = job) /\ lease' = [lease EXCEPT ![Launching] = lease[Launching]]
    BY <1>1, <2>1, AtLaunch DEF Inv, Types
  <2>3. Launched'
    BY <1>1, <2>1, AtLaunch DEF Launched, Launching, Launch
  <2>4. to \in JobStates /\ to \notin Attempting
    BY <2>2 DEF JobStates, Finished, Successful, Untried, Attempting
  <2>5. pc' \in {"jobs"} \cup Launch /\ at' \in Nat /\ (to = "RETRY_WAIT" => lease[Launching] # "none")
    BY <1>1, <2>1, <2>2, AtLaunch DEF Launch
  <2> HIDE DEF to
  <2> QED
    BY <1>1, <2>1, <2>2, <2>3, <2>4, <2>5, AtLaunch, LaunchStep
<1> QED
  BY <1>2, <1>3

LEMMA LeaseStep == Inv /\ Lease => Inv'
<1> SUFFICES ASSUME Inv, Lease PROVE Inv'
  OBVIOUS
<1>1. pc = "lease" /\ pc \in Launch /\ pc' = "queue" /\ pc' \in Launch /\ lease' = [lease EXCEPT ![Launching] = "held"]
      /\ UNCHANGED <<build, job, at, current, abort, failure, worker, inbox, frames, open>>
  BY DEF Lease, Launch, threads
<1>2. Launched'
  BY <1>1, AtLaunch DEF Launched, Launching, Launch, Inv, Types
<1>3. job' = [job EXCEPT ![Launching] = job[Launching]] /\ job[Launching] \notin Attempting \cup {"QUEUED"}
  BY <1>1, AtLaunch DEF Inv, Types, Attempting
<1> QED
  BY <1>1, <1>2, <1>3, AtLaunch, LaunchStep

\* A transition of the launch: taken, or refused for a request.
LEMMA TransitionStep ==
  ASSUME Inv, pc \in Launch, NEW from, job[Launching] \in from,
         NEW to \in {"QUEUED", "STARTING"}, NEW then \in {"attempt", "register"},
         to = "QUEUED" <=> then = "attempt", lease[Launching] = "held",
         Step(Launching, from, to, then)
  PROVE  Inv'
<1>1. pc \in Loop /\ Refusal(Launching, from, to) \in {"none", "canceled"}
  BY AtLaunch, Refusals DEF Loop
<1>2. CASE Refusal(Launching, from, to) # "none"
  <2>1. Fail("canceled") /\ UNCHANGED <<job, lease, worker>>
    BY <1>1, <1>2 DEF Step
  <2> QED
    BY <1>1, <2>1, FailOnly
<1>3. CASE Refusal(Launching, from, to) = "none"
  <2>1. job' = [job EXCEPT ![Launching] = to] /\ pc' = then
        /\ UNCHANGED <<build, lease, at, current, abort, failure, worker, inbox, frames, open>>
    BY <1>1, <1>3 DEF Step, Becomes, threads
  <2>2. to \in JobStates /\ job'[Launching] = to /\ pc' \in Launch /\ lease' = [lease EXCEPT ![Launching] = "held"]
    BY <2>1, AtLaunch DEF Inv, Types, JobStates, Untried, Attempting, Launch
  <2>3. Launched'
    BY <2>1, <2>2, AtLaunch DEF Launched, Launching, Launch
  <2> QED
    BY <2>1, <2>2, <2>3, AtLaunch, LaunchStep DEF Launching, Attempting
<1> QED
  BY <1>2, <1>3

LEMMA QueueStep == Inv /\ Queue => Inv'
<1> SUFFICES ASSUME Inv, Queue PROVE Inv'
  OBVIOUS
<1>1. pc = "queue" /\ pc \in Launch
  BY DEF Queue, Launch
<1>2. CASE job[Launching] = "RETRY_WAIT"
  <2>1. pc' = "attempt" /\ UNCHANGED <<build, job, lease, at, current, abort, failure, worker, inbox, frames, open>>
    BY <1>2 DEF Queue, threads
  <2>2. Launched' /\ pc' \in Launch
    BY <1>1, <1>2, <2>1, AtLaunch DEF Launched, Launching, Launch
  <2>3. job' = [job EXCEPT ![Launching] = "RETRY_WAIT"] /\ lease' = [lease EXCEPT ![Launching] = "held"]
        /\ "RETRY_WAIT" \notin Attempting
    BY <1>1, <1>2, <2>1, AtLaunch DEF Inv, Types, Attempting
  <2> QED
    BY <1>1, <1>2, <2>1, <2>2, <2>3, AtLaunch, LaunchStep
<1>3. CASE job[Launching] # "RETRY_WAIT"
  <2>1. Step(Launching, {"PLANNED", "WAITING_DEPENDENCIES"}, "QUEUED", "attempt")
    BY <1>3 DEF Queue
  <2> QED
    BY <1>1, <1>3, <2>1, AtLaunch, TransitionStep
<1> QED
  BY <1>2, <1>3

LEMMA AttemptStep == Inv /\ StartAttempt => Inv'
<1> SUFFICES ASSUME Inv, StartAttempt PROVE Inv'
  OBVIOUS
<1>1. pc = "attempt" /\ pc \in Launch /\ Step(Launching, {"QUEUED", "RETRY_WAIT"}, "STARTING", "register")
  BY DEF StartAttempt, Launch
<1> QED
  BY <1>1, AtLaunch, TransitionStep

\* A message that is not answered comes from a thread that waits or is done.
LEMMA Letters ==
  ASSUME Inv, pc \in Loop
  PROVE  /\ \A i \in DOMAIN inbox : /\ inbox[i] \in Messages /\ inbox[i].job \in Jobs /\ Fits(inbox[i])
                                   /\ worker[inbox[i].job].mode \in {"wait", "sent", "exited"}
         /\ current # NoMessage => /\ current \in Messages /\ current.job \in Jobs /\ Fits(current)
                                  /\ worker[current.job].mode \in {"wait", "sent", "exited"}
<1>1. ASSUME NEW m \in Messages, Fits(m)
      PROVE  m.job \in Jobs /\ worker[m.job].mode \in {"wait", "sent", "exited"}
  BY <1>1 DEF Fits, Asking, Messages
<1>2. \A i \in DOMAIN inbox : inbox[i] \in Messages /\ Fits(inbox[i])
  BY DEF Inv, Types, Tracked, Mailbox
<1>3. current # NoMessage => current \in Messages /\ Fits(current)
  BY DEF Inv, Types, Tracked, Mailbox
<1> QED
  BY <1>1, <1>2, <1>3

\* The thread is told the contract; its attempt has started.
LEMMA RegisterStep == Inv /\ Register => Inv'
<1> SUFFICES ASSUME Inv, Register PROVE Inv'
  OBVIOUS
<1>1. pc = "register" /\ pc \in Launch /\ pc \in Loop
  BY DEF Register, Launch, Loop
<1>2. CASE ~Authorized
  BY <1>1, <1>2, FailOnly DEF Register
<1>3. CASE Authorized
  <2> DEFINE l == Launching
  <2>1. worker' = [worker EXCEPT ![l] = Requested] /\ pc' = "jobs" /\ at' = at + 1
        /\ UNCHANGED <<build, job, lease, current, abort, failure, inbox, frames, open>>
    BY <1>3 DEF Register, NextJob, rows
  <2>2. l \in Jobs /\ worker[l].mode = "none" /\ job[l] = "STARTING" /\ lease[l] = "held" /\ at + 1 \in Nat
    BY <1>1, AtLaunch
  <2>3. Requested = [mode |-> "work", done |-> 0, end |-> "none"] /\ Requested \in WorkerRow
    BY DEF Requested, NoWorker, WorkerRow, Modes, Endings
  <2>4. worker'[l] = Requested /\ \A k \in Jobs \ {l} : worker'[k] = worker[k]
    BY <2>1, <2>2 DEF Inv, Types
  <2>5. Types' /\ Started'
    BY <1>1, <2>1, <2>2, <2>3 DEF Inv, Types, Started, Loop, Launch, Handling, Deciding
  <2>6. current = NoMessage /\ pc' \in Loop
    BY <1>1, <2>1 DEF Inv, Tracked, Mailbox, Loop, Launch, Handling, Deciding
  <2>7. Launched'
    BY <2>1 DEF Launched, Launch
  <2>8. Mailbox'
    <3>1. \A i \in DOMAIN inbox : inbox[i].job \in Jobs /\ inbox[i].job # l /\ Fits(inbox[i])'
      BY <1>1, <2>1, <2>2, <2>4, Letters DEF Fits, Asking
    <3> QED
      BY <1>1, <2>1, <2>6, <3>1 DEF Inv, Tracked, Mailbox, Handling, Deciding
  <2>9. ASSUME NEW k \in Jobs PROVE Attended(k)'
    <3>1. Attended(k)
      BY <1>1 DEF Inv, Tracked
    <3>2. CASE k = l
      BY <2>1, <2>2, <2>3, <2>4, <3>1, <3>2 DEF Attended, Asking, Following, Attempting
    <3>3. CASE k # l
      <4>1. Following(k) => Following(k)'
        BY <2>1, <2>4, <3>3 DEF Following
      <4> QED
        BY <1>1, <2>1, <2>4, <3>1, <3>3, <4>1 DEF Attended, Asking
    <3> QED
      BY <3>2, <3>3
  <2>10. InputsHeld' /\ InOrder'
    BY <1>1, <2>1, <2>2, <2>4 DEF Inv, InputsHeld, InOrder, Live
  <2> QED
    BY <2>5, <2>7, <2>8, <2>9, <2>10 DEF Inv, Tracked
<1> QED
  BY <1>2, <1>3

-----------------------------------------------------------------------------
(* The loop: frames and messages are heard. *)

LEMMA DrainStep == Inv /\ Drain => Inv'
<1> SUFFICES ASSUME Inv, Drain PROVE Inv'
  OBVIOUS
<1>1. pc = "drain" /\ pc \in Loop
      /\ UNCHANGED <<build, job, lease, failure, current, worker, inbox, open, at, abort>>
  BY DEF Drain, Loop, rows
<1>2. CASE Drained /\ current = NoMessage
  <2>1. pc' = "receive" /\ frames' = frames
    BY <1>2 DEF Drain
  <2> QED
    BY <1>1, <1>2, <2>1, MoveStep DEF Launch, Inv, Types
<1>3. CASE ~(Drained /\ current = NoMessage)
  <2>1. frames' = {} /\ \/ pc' = "handle" /\ frames = {} /\ current # NoMessage
                        \/ pc' = "drain" /\ abort
    BY <1>3 DEF Drain, Drained
  <2>2. Types' /\ Started' /\ Launched' /\ pc' \in Loop
    BY <1>1, <2>1 DEF Inv, Types, Started, Launched, Loop, Launch, Handling, Deciding
  <2>3. Mailbox'
    BY <1>1, <2>1 DEF Inv, Tracked, Mailbox, Fits, Asking, Handling, Deciding
  <2>4. ASSUME NEW j \in Jobs PROVE Attended(j)'
    <3>1. Attended(j)
      BY <1>1 DEF Inv, Tracked
    <3>2. Following(j) => Following(j)'
      BY <1>1, <2>1 DEF Following
    <3> QED
      BY <1>1, <2>1, <3>1, <3>2 DEF Attended, Asking
  <2>5. InputsHeld' /\ InOrder'
    BY <1>1 DEF Inv, InputsHeld, InOrder, Live
  <2> QED
    BY <2>2, <2>3, <2>4, <2>5 DEF Inv, Tracked
<1> QED
  BY <1>2, <1>3

LEMMA FrameStep == ASSUME Inv, NEW j \in Jobs, Materialization(j) PROVE Inv'
<1>1. pc = "drain" /\ pc \in Loop /\ j \in frames
  BY DEF Materialization, Loop
<1>2. worker[j].mode # "none" /\ worker[j].done = 4 /\ job[j] = "RUNNING"
  BY <1>1 DEF Inv, Tracked, Attended
<1>3. Refusal(j, Before.MATERIALIZING, "MATERIALIZING") \in {"none", "canceled"}
  BY <1>1, <1>2, Refusals DEF Before
<1>4. CASE Refusal(j, Before.MATERIALIZING, "MATERIALIZING") # "none"
  <2>1. Fail("canceled") /\ UNCHANGED <<job, lease, worker>>
    BY <1>3, <1>4 DEF Materialization
  <2> QED
    BY <1>1, <2>1, FailOnly
<1>5. CASE Refusal(j, Before.MATERIALIZING, "MATERIALIZING") = "none"
  <2>1. job' = [job EXCEPT ![j] = "MATERIALIZING"] /\ frames' = frames \ {j}
        /\ UNCHANGED <<pc, build, lease, failure, current, verdict, worker, inbox, open, at, abort>>
    BY <1>3, <1>5 DEF Materialization, Becomes, thread
  <2>2. job'[j] = "MATERIALIZING" /\ \A k \in Jobs \ {j} : job'[k] = job[k]
    BY <2>1 DEF Inv, Types
  <2>3. Types' /\ Started' /\ Launched'
    BY <1>1, <2>1 DEF Inv, Types, Started, Idle, Launched, JobStates, Attempting, Loop, Launch
  <2>4. Mailbox'
    BY <1>1, <2>1 DEF Inv, Tracked, Mailbox, Fits, Asking, Handling, Deciding
  <2>5. ASSUME NEW k \in Jobs PROVE Attended(k)'
    <3>1. Attended(k)
      BY <1>1 DEF Inv, Tracked
    <3>2. Following(k) => Following(k)'
      BY <1>2, <2>1, <2>2 DEF Following
    <3> QED
      BY <1>1, <1>2, <2>1, <2>2, <3>1, <3>2 DEF Attended, Asking, Attempting
  <2>6. InputsHeld' /\ InOrder'
    BY <1>1, <1>2, <2>1, <2>2 DEF Inv, InputsHeld, InOrder, Live, Attempting
  <2> QED
    BY <2>3, <2>4, <2>5, <2>6 DEF Inv, Tracked
<1> QED
  BY <1>4, <1>5

LEMMA ReceiveStep == Inv /\ Receive => Inv'
<1> SUFFICES ASSUME Inv, Receive PROVE Inv'
  OBVIOUS
<1>1. pc = "receive" /\ pc \in Loop
      /\ UNCHANGED <<build, job, lease, failure, worker, frames, open, at, abort>>
  BY DEF Receive, Loop, rows
<1>2. current = NoMessage
  BY <1>1 DEF Inv, Tracked, Mailbox, Loop, Handling, Deciding
<1>3. CASE inbox = <<>>
  <2>1. pc' = "check" /\ UNCHANGED <<current, inbox>>
    BY <1>3 DEF Receive
  <2> QED
    BY <1>1, <1>2, <2>1, MoveStep DEF Launch, Inv, Types
<1>4. CASE inbox # <<>>
  <2>1. current' = Head(inbox) /\ inbox' = Tail(inbox) /\ pc' = "drain"
    BY <1>4 DEF Receive
  <2>2. inbox \in Seq(Messages)
    BY DEF Inv, Types
  <2>3. /\ 1 \in DOMAIN inbox /\ current' = inbox[1] /\ inbox' \in Seq(Messages)
        /\ \A i \in DOMAIN inbox' : i + 1 \in DOMAIN inbox /\ inbox'[i] = inbox[i + 1] /\ i \in Nat \ {0}
    BY <1>4, <2>1, <2>2
  <2>4. \A i \in DOMAIN inbox : /\ inbox[i] \in Messages /\ Fits(inbox[i])
                                /\ \A k \in DOMAIN inbox : inbox[i].job = inbox[k].job => i = k
    BY <1>1, Letters DEF Inv, Tracked, Mailbox
  <2>5. Types' /\ Started' /\ Launched'
    BY <1>1, <2>1, <2>3, <2>4 DEF Inv, Types, Started, Launched, Loop, Launch, Handling, Deciding
  <2>6. Mailbox'
    <3>1. \A m \in Messages : Fits(m) => Fits(m)'
      BY <1>1 DEF Fits, Asking
    <3>2. Fits(current)' /\ \A i \in DOMAIN inbox' : Fits(inbox[i])' /\ inbox'[i].job # current'.job
      <4>1. Fits(current)'
        BY <2>3, <2>4, <1>1 DEF Fits, Asking
      <4>2. ASSUME NEW i \in DOMAIN inbox' PROVE Fits(inbox[i])' /\ inbox'[i].job # current'.job
        <5>1. inbox'[i] = inbox[i + 1] /\ i + 1 \in DOMAIN inbox /\ i + 1 # 1
          BY <2>3
        <5>2. Fits(inbox[i + 1]) /\ inbox[i + 1].job # inbox[1].job
          BY <2>3, <2>4, <5>1
        <5> QED
          BY <1>1, <2>3, <5>1, <5>2 DEF Fits, Asking
      <4> QED
        BY <4>1, <4>2
    <3>3. \A i, k \in DOMAIN inbox' : inbox'[i].job = inbox'[k].job => i = k
      <4> SUFFICES ASSUME NEW i \in DOMAIN inbox', NEW k \in DOMAIN inbox', inbox'[i].job = inbox'[k].job
                   PROVE  i = k
        OBVIOUS
      <4>1. i + 1 = k + 1
        BY <2>3, <2>4
      <4> QED
        BY <2>3, <4>1
    <3> QED
      BY <2>1, <3>2, <3>3 DEF Mailbox, Handling, Deciding
  <2>7. ASSUME NEW j \in Jobs PROVE Attended(j)'
    <3>1. Attended(j) /\ (Following(j) => Following(j)')
      BY <1>1 DEF Inv, Tracked, Following
    <3> QED
      BY <1>1, <2>1, <3>1 DEF Attended, Asking
  <2>8. InputsHeld' /\ InOrder'
    BY <1>1, <2>1 DEF Inv, InputsHeld, InOrder, Live
  <2> QED
    BY <2>5, <2>6, <2>7, <2>8 DEF Inv, Tracked
<1> QED
  BY <1>3, <1>4

\* The message that is handled and the attempt that sent it.
LEMMA AtMessage ==
  ASSUME Inv, pc \in Handling
  PROVE  /\ pc \in Loop /\ current # NoMessage /\ current \in Messages /\ current.job \in Jobs
         /\ current.job \notin frames /\ Fits(current) /\ Attended(current.job)
         /\ worker[current.job].mode \in {"wait", "sent", "exited"}
         /\ pc # "join" => job[current.job] \in Attempting /\ lease[current.job] = "held"
         /\ pc \in Deciding => current.what = "finished"
         /\ current.what = "finished" => current.job \notin Live
         /\ \A i \in DOMAIN inbox : inbox[i] \in Messages /\ inbox[i].job # current.job /\ Fits(inbox[i])
<1>1. pc \in Loop /\ pc \notin {"failed", "returned"}
  BY DEF Loop, Handling, Deciding
<1>2. current # NoMessage /\ current.job \notin frames /\ (pc \in Deciding => current.what = "finished")
      /\ \A i \in DOMAIN inbox : inbox[i].job # current.job
  BY <1>1 DEF Inv, Tracked, Mailbox
<1>3. current \in Messages /\ current.job \in Jobs /\ Fits(current)
      /\ worker[current.job].mode \in {"wait", "sent", "exited"}
  BY <1>1, <1>2, Letters
<1>4. Attended(current.job)
  BY <1>1, <1>3 DEF Inv, Tracked
<1>5. pc # "join" => job[current.job] \in Attempting
  BY <1>3, <1>4 DEF Attended
<1>6. current.what = "finished" => current.job \notin Live
  BY <1>3 DEF Fits, Live
<1> QED
  BY <1>1, <1>2, <1>3, <1>4, <1>5, <1>6, Letters DEF Inv, InputsHeld

\* A message is answered: the thread goes on, or reports.
LEMMA AnswerStep ==
  ASSUME Inv, pc = "handle", current.what # "finished", NEW j \in Jobs, j = current.job,
         NEW r \in WorkerRow, worker' = [worker EXCEPT ![j] = r],
         NEW to \in Attempting, job' = [job EXCEPT ![j] = to],
         r.mode \in {"work", "report"}, r.mode = "work" => r.end = "none" /\ Following(j)',
         pc' = "poll", current' = NoMessage,
         UNCHANGED <<build, lease, at, abort, failure, inbox, frames, open>>
  PROVE  Inv'
<1>1. pc \in Handling /\ pc \in Loop
  BY DEF Handling, Loop
<1>2. worker[j].mode = "wait" /\ j \notin frames
  BY <1>1, AtMessage DEF Fits, Asking
<1>3. worker'[j] = r /\ job'[j] = to /\ \A k \in Jobs \ {j} : worker'[k] = worker[k] /\ job'[k] = job[k]
  BY <1>2 DEF Inv, Types
<1>4. Types' /\ Started' /\ Launched'
  BY <1>1, <1>2 DEF Inv, Types, Started, Launched, JobStates, Loop, Launch, Handling, Deciding
<1>5. Mailbox'
  <2>1. \A i \in DOMAIN inbox : Fits(inbox[i])'
    BY <1>1, <1>3, AtMessage, Letters DEF Fits, Asking
  <2> QED
    BY <1>1, <2>1 DEF Inv, Tracked, Mailbox, Handling, Deciding
<1>6. ASSUME NEW k \in Jobs PROVE Attended(k)'
  <2>1. Attended(k)
    BY <1>1, <1>6 DEF Inv, Tracked
  <2>2. CASE k = j
    BY <1>2, <1>3, <2>2 DEF Attended, Asking
  <2>3. CASE k # j
    <3>1. Following(k) => Following(k)'
      BY <1>3, <2>3 DEF Following
    <3> QED
      BY <1>3, <2>1, <2>3, <3>1 DEF Attended, Asking
  <2> QED
    BY <2>2, <2>3
<1>7. InputsHeld'
  BY <1>1, <1>2, <1>3 DEF Inv, InputsHeld, Live, Attempting
<1>8. InOrder'
  BY DEF Inv, InOrder
<1> QED
  BY <1>4, <1>5, <1>6, <1>7, <1>8 DEF Inv, Tracked

\* What a thread is told, whether it may go on or not.
LEMMA Answered ==
  ASSUME Inv, pc = "handle", current.what # "finished", NEW accepted \in BOOLEAN,
         Answer(current.job, accepted)
  PROVE  \E r \in WorkerRow :
           /\ worker' = [worker EXCEPT ![current.job] = r]
           /\ IF accepted /\ worker[current.job].end = "none"
              THEN r.mode = "work" /\ r.end = "none" /\ r.done = worker[current.job].done + 1
              ELSE r.mode = "report"
<1> DEFINE w == worker[current.job]
<1>1. current.job \in Jobs /\ w \in WorkerRow /\ (w.end = "none" => w.done \in {0, 1, 2, 4, 5})
  BY AtMessage DEF Handling, Fits, Asking, Inv, Types
<1>2. w = [mode |-> w.mode, done |-> w.done, end |-> w.end] /\ w.done \in 0..6 /\ w.end \in Endings
  BY <1>1 DEF WorkerRow
<1>3. CASE ~accepted
  <2> DEFINE r == [w EXCEPT !.mode = "report", !.end = "refused"]
  <2>1. worker' = [worker EXCEPT ![current.job] = r]
    BY <1>3 DEF Answer
  <2>2. r.mode = "report" /\ r \in WorkerRow
    BY <1>2 DEF WorkerRow, Modes, Endings
  <2> HIDE DEF r
  <2> QED
    BY <1>3, <2>1, <2>2
<1>4. CASE accepted /\ w.end # "none"
  <2> DEFINE r == [w EXCEPT !.mode = "report"]
  <2>1. worker' = [worker EXCEPT ![current.job] = r]
    BY <1>4 DEF Answer
  <2>2. r.mode = "report" /\ r \in WorkerRow
    BY <1>2 DEF WorkerRow, Modes
  <2> HIDE DEF r
  <2> QED
    BY <1>4, <2>1, <2>2
<1>5. CASE accepted /\ w.end = "none"
  <2> DEFINE r == [w EXCEPT !.mode = "work", !.done = w.done + 1]
  <2>1. worker' = [worker EXCEPT ![current.job] = r]
    BY <1>5 DEF Answer
  <2>2. r.mode = "work" /\ r.end = "none" /\ r.done = w.done + 1
    BY <1>2, <1>5
  <2>3. w.done + 1 \in 0..6
    BY <1>1, <1>5
  <2>4. r \in WorkerRow
    BY <1>2, <2>3 DEF WorkerRow, Modes
  <2> HIDE DEF r
  <2> QED
    BY <1>5, <2>1, <2>2, <2>4
<1> QED
  BY <1>3, <1>4, <1>5

LEMMA ObserveStep == Inv /\ Observe => Inv'
<1> SUFFICES ASSUME Inv, Observe PROVE Inv'
  OBVIOUS
<1> DEFINE what == current.what
<1>0. PICK j : j = current.job
  OBVIOUS
<1>1. pc = "handle" /\ pc \in Handling /\ pc \in Loop /\ what # "finished"
  BY DEF Observe, Handling, Loop
<1>2. j \in Jobs /\ job[j] \in Attempting /\ lease[j] = "held" /\ j \notin frames /\ worker[j].mode = "wait"
  BY <1>0, <1>1, AtMessage DEF Fits, Asking
<1>3. worker[j].end = "none" =>
        Following(j) /\ worker[j].done \in {0, 1, 2, 4, 5} /\ what = Script[worker[j].done + 1]
  BY <1>0, <1>1, <1>2, AtMessage DEF Attended, Fits, Asking
<1>4. what \in Phases => worker[j].end = "none"
  BY <1>0, <1>1, AtMessage DEF Fits, Asking, Phases, Attempting
<1>5. /\ Script[1] = "VALIDATING_INPUTS" /\ Script[2] = "inputs" /\ Script[3] = "RUNNING"
      /\ Script[5] = "VALIDATING_OUTPUTS" /\ Script[6] = "outputs"
  BY DEF Script
<1>6. what \in Phases /\ ~abort => job[j] \in Before[what]
  <2> SUFFICES ASSUME what \in Phases, ~abort PROVE job[j] \in Before[what]
    OBVIOUS
  <2>1. worker[j].done \in {0, 2, 4}
    BY <1>3, <1>4, <1>5 DEF Phases, Attempting
  <2> QED
    BY <1>2, <1>3, <1>4, <1>5, <2>1 DEF Following, Before
<1>7. ASSUME Answer(j, FALSE), Handled, UNCHANGED <<build, job, lease, at, abort, failure, inbox, frames, open>>
      PROVE  Inv'
  <2>1. PICK r \in WorkerRow : worker' = [worker EXCEPT ![j] = r] /\ r.mode = "report"
    BY <1>0, <1>1, <1>7, Answered
  <2>2. job' = [job EXCEPT ![j] = job[j]]
    BY <1>7 DEF Inv, Types
  <2> QED
    BY <1>0, <1>1, <1>2, <1>7, <2>1, <2>2, AnswerStep, ZenonT(40) DEF Handled
<1>8. ASSUME what \notin Phases, Answer(j, TRUE), Handled,
             UNCHANGED <<build, job, lease, at, abort, failure, inbox, frames, open>>
      PROVE  Inv'
  <2>1. PICK r \in WorkerRow :
          /\ worker' = [worker EXCEPT ![j] = r]
          /\ IF worker[j].end = "none"
             THEN r.mode = "work" /\ r.end = "none" /\ r.done = worker[j].done + 1
             ELSE r.mode = "report"
    BY <1>0, <1>1, <1>8, Answered
  <2>2. job' = [job EXCEPT ![j] = job[j]] /\ worker'[j] = r
    BY <1>2, <1>8, <2>1 DEF Inv, Types
  <2>3. ASSUME r.mode = "work" PROVE Following(j)'
    <3>1. worker[j].end = "none" /\ r.done = worker[j].done + 1
      BY <2>1, <2>3
    <3>2. worker[j].done \in {1, 5}
      BY <1>3, <1>5, <1>8, <3>1 DEF Phases, Attempting
    <3>3. job[j] = (IF worker[j].done = 1 THEN "VALIDATING_INPUTS" ELSE "VALIDATING_OUTPUTS")
      BY <1>3, <3>1, <3>2 DEF Following
    <3> QED
      BY <1>8, <2>2, <3>1, <3>2, <3>3 DEF Following, Handled
  <2>4. r.mode \in {"work", "report"} /\ (r.mode = "work" => r.end = "none" /\ Following(j)')
    BY <2>1, <2>3
  <2>5. pc' = "poll" /\ current' = NoMessage
        /\ UNCHANGED <<build, lease, at, abort, failure, inbox, frames, open>>
    BY <1>8 DEF Handled
  <2>6. worker' = [worker EXCEPT ![j] = r]
    BY <2>1
  <2> HIDE <1>8
  <2> QED
    BY <1>0, <1>1, <1>2, <2>2, <2>4, <2>5, <2>6, AnswerStep
<1>9. ASSUME what \in Phases, ~abort, Becomes(j, what), Answer(j, TRUE), Handled,
             UNCHANGED <<build, lease, at, abort, failure, inbox, frames, open>>
      PROVE  Inv'
  <2>1. PICK r \in WorkerRow :
          /\ worker' = [worker EXCEPT ![j] = r]
          /\ r.mode = "work" /\ r.end = "none" /\ r.done = worker[j].done + 1
    BY <1>0, <1>1, <1>4, <1>9, Answered
  <2>2. job' = [job EXCEPT ![j] = what] /\ what \in Attempting /\ worker'[j] = r /\ job'[j] = what
    BY <1>2, <1>9, <2>1 DEF Inv, Types, Becomes, Phases
  <2>3. Following(j)'
    <3>1. worker[j].done \in {0, 2, 4}
      BY <1>3, <1>4, <1>5, <1>9 DEF Phases, Attempting
    <3> QED
      BY <1>3, <1>4, <1>5, <1>9, <2>1, <2>2, <3>1 DEF Following, Handled
  <2> QED
    BY <1>0, <1>1, <1>2, <1>9, <2>1, <2>2, <2>3, AnswerStep DEF Handled
<1>10. ASSUME NEW cause, cause \notin {"illegal", "fence"}, Answer(j, FALSE), Fail(cause),
              UNCHANGED <<job, lease>>
       PROVE  Inv'
  <2>1. PICK r \in WorkerRow : worker' = [worker EXCEPT ![j] = r]
    BY <1>0, <1>1, <1>10, Answered
  <2>2. Types'
    BY <1>10, <2>1, Silent DEF Fail, HangUp, Inv, Types
  <2>3. \A k \in Jobs \ {j} : worker'[k] = worker[k]
    BY <1>2, <2>1 DEF Inv, Types
  <2> QED
    BY <1>0, <1>1, <1>2, <1>10, <2>2, <2>3, FailStep
<1>11. /\ what \in Phases /\ ~abort => Refusal(j, Before[what], what) \in {"none", "canceled"}
       /\ \/ /\ Handled
             /\ UNCHANGED <<build, lease, at, abort, failure, inbox, frames, open>>
             /\ \/ Answer(j, FALSE) /\ job' = job
                \/ what \notin Phases /\ Answer(j, TRUE) /\ job' = job
                \/ what \in Phases /\ ~abort /\ Becomes(j, what) /\ Answer(j, TRUE)
          \/ /\ Answer(j, FALSE) /\ UNCHANGED <<job, lease>>
             /\ Fail(IF what \in Phases THEN Refusal(j, Before[what], what) ELSE "none")
             /\ ~abort
  <2>1. what \in Phases /\ ~abort => Refusal(j, Before[what], what) \in {"none", "canceled"}
    BY <1>0, <1>1, <1>2, <1>6, Refusals
  <2> QED
    BY <1>0, <2>1 DEF Observe, rows
<1> QED
  BY <1>7, <1>8, <1>9, <1>10, <1>11

-----------------------------------------------------------------------------
(* The loop: completions are decided. *)

\* The evidence of the attempt is decided on, one transaction after the other.
LEMMA DecideStep ==
  ASSUME Inv, pc \in Handling \ {"join"}, pc' \in Deciding, current.what = "finished",
         NEW j \in Jobs, j = current.job,
         NEW to \in JobStates, job' = [job EXCEPT ![j] = to],
         NEW kind \in {"none", "held", "kept"}, lease' = [lease EXCEPT ![j] = kind],
         IF pc' = "join" THEN to \in Finished \cup {"RETRY_WAIT"} ELSE to \in Attempting,
         to \in Attempting => kind = "held", to = "RETRY_WAIT" => kind # "none",
         pc' = "record" => verdict' \in {"CANCELED", "RETRY_WAIT", "FAILED"},
         abort' \in BOOLEAN, abort => abort',
         UNCHANGED <<build, at, current, failure, worker, inbox, frames, open>>
  PROVE  Inv'
<1>1. pc \in Loop /\ pc \in Handling /\ j \notin Live /\ j \notin frames /\ worker[j].mode \in {"sent", "exited"}
  BY AtMessage DEF Fits
<1>2. job'[j] = to /\ lease'[j] = kind /\ \A k \in Jobs \ {j} : job'[k] = job[k] /\ lease'[k] = lease[k]
  BY DEF Inv, Types
<1>3. Types' /\ Started' /\ Launched'
  BY <1>1 DEF Inv, Types, Started, Launched, Loop, Launch, Handling, Deciding
<1>4. Mailbox'
  BY <1>1, <1>2 DEF Inv, Tracked, Mailbox, Fits, Asking, Handling, Deciding
<1>5. ASSUME NEW k \in Jobs PROVE Attended(k)'
  <2>1. Attended(k)
    BY <1>1 DEF Inv, Tracked
  <2>2. CASE k = j
    BY <1>1, <1>2, <2>2 DEF Attended, Asking
  <2>3. CASE k # j
    <3>1. Following(k) => Following(k)'
      BY <1>2, <2>3 DEF Following
    <3> QED
      BY <1>1, <1>2, <2>1, <2>3, <3>1 DEF Attended, Asking, Handling, Deciding
  <2> QED
    BY <2>2, <2>3
<1>6. InputsHeld'
  BY <1>1, <1>2 DEF Inv, InputsHeld, Live, Loop, Handling, Deciding
<1>7. InOrder'
  BY DEF Inv, InOrder
<1> QED
  BY <1>3, <1>4, <1>5, <1>6, <1>7 DEF Inv, Tracked

LEMMA CompletionStep == Inv /\ (Completed \/ Publish \/ Commit \/ Decide) => Inv'
<1> SUFFICES ASSUME Inv, Completed \/ Publish \/ Commit \/ Decide PROVE Inv'
  OBVIOUS
<1>0. PICK j : j = current.job
  OBVIOUS
<1>1. /\ pc \in Handling \ {"join"} /\ pc' \in Deciding
      /\ \/ job' = job
         \/ pc' = "commit" /\ job' = [job EXCEPT ![j] = "COMMITTING"]
         \/ pc' = "join" /\ job' = [job EXCEPT ![j] = "SUCCEEDED"]
      /\ pc' = "join" => job' = [job EXCEPT ![j] = "SUCCEEDED"]
      /\ \/ lease' = lease
         \/ pc' = "join" /\ lease' = [lease EXCEPT ![j] = "none"]
      /\ pc' = "record" => verdict' \in {"CANCELED", "RETRY_WAIT", "FAILED"}
      /\ UNCHANGED <<build, at, current, failure, worker, inbox, frames, open>>
  BY <1>0 DEF Completed, Publish, Commit, Decide, Becomes, rows, threads, Handling, Deciding
<1>2. abort' \in BOOLEAN /\ (abort => abort')
  BY DEF Completed, Publish, Commit, Decide, Request, Inv, Types
<1>3. current.what = "finished"
  BY <1>1, AtMessage DEF Completed, Publish, Commit, Decide, Deciding
<1>4. j \in Jobs /\ job[j] \in Attempting /\ lease[j] = "held"
  BY <1>0, <1>1, AtMessage
<1> DEFINE to == IF pc' = "join" THEN "SUCCEEDED" ELSE IF job' = job THEN job[j] ELSE "COMMITTING"
           kind == IF lease' = lease THEN lease[j] ELSE "none"
<1>5. job' = [job EXCEPT ![j] = to] /\ lease' = [lease EXCEPT ![j] = kind]
  BY <1>1, <1>4 DEF Inv, Types
<1>6. /\ to \in JobStates /\ kind \in {"none", "held", "kept"}
      /\ IF pc' = "join" THEN to \in Finished \cup {"RETRY_WAIT"} ELSE to \in Attempting
      /\ to \in Attempting => kind = "held"
      /\ to # "RETRY_WAIT"
  BY <1>1, <1>4 DEF JobStates, Finished, Successful, Attempting
<1> HIDE DEF to, kind
<1> QED
  BY <1>0, <1>1, <1>2, <1>3, <1>4, <1>5, <1>6, DecideStep

LEMMA RecordStep == Inv /\ Record => Inv'
<1> SUFFICES ASSUME Inv, Record PROVE Inv'
  OBVIOUS
<1>0. PICK j : j = current.job
  OBVIOUS
<1>1. pc = "record" /\ pc \in Loop /\ pc \in Handling /\ pc \in Deciding
  BY DEF Record, Loop, Handling, Deciding
<1>2. verdict \in {"CANCELED", "RETRY_WAIT", "FAILED"} /\ current.what = "finished"
  BY <1>1, AtMessage DEF Inv, Tracked, Mailbox
<1>3. j \in Jobs /\ job[j] \in Attempting /\ lease[j] = "held"
  BY <1>0, <1>1, AtMessage
<1>4. Refusal(j, Attempting, verdict) \in {"none", "canceled"}
  BY <1>1, <1>3, Refusals
<1>5. CASE Refusal(j, Attempting, verdict) # "none"
  <2>1. Fail("canceled") /\ UNCHANGED <<job, lease, worker>>
    BY <1>0, <1>4, <1>5 DEF Record
  <2> QED
    BY <1>1, <2>1, FailOnly
<1>6. CASE Refusal(j, Attempting, verdict) = "none"
  <2>1. job' = [job EXCEPT ![j] = verdict] /\ pc' = "join" /\ lease' = [lease EXCEPT ![j] = Kept(verdict)]
        /\ UNCHANGED <<build, at, current, abort, failure, worker, inbox, frames, open>>
    BY <1>0, <1>4, <1>6 DEF Record, Becomes, threads
  <2>2. /\ verdict \in JobStates /\ Kept(verdict) \in {"none", "held", "kept"}
        /\ verdict \in Finished \cup {"RETRY_WAIT"} /\ verdict \notin Attempting
        /\ verdict = "RETRY_WAIT" => Kept(verdict) # "none"
        /\ pc' \in Deciding
    BY <1>2, <2>1 DEF Kept, JobStates, Finished, Attempting, Deciding
  <2> QED
    BY <1>0, <1>1, <1>2, <1>3, <2>1, <2>2, DecideStep DEF Inv, Types
<1> QED
  BY <1>5, <1>6

LEMMA JoinStep == Inv /\ Join => Inv'
<1> SUFFICES ASSUME Inv, Join PROVE Inv'
  OBVIOUS
<1>0. PICK j : j = current.job
  OBVIOUS
<1>1. pc = "join" /\ pc \in Handling /\ pc \in Loop /\ pc' = "poll" /\ current' = NoMessage
      /\ worker' = [worker EXCEPT ![j] = NoWorker]
      /\ UNCHANGED <<build, job, lease, at, failure, inbox, frames, open>>
  BY <1>0 DEF Join, Handled, Handling, Deciding, Loop
<1>2. abort' \in BOOLEAN /\ (abort => abort')
  BY DEF Join, Inv, Types
<1>3. j \in Jobs /\ j \notin frames /\ job[j] \in Finished \cup {"RETRY_WAIT"}
      /\ \A i \in DOMAIN inbox : inbox[i] \in Messages /\ inbox[i].job \in Jobs \ {j} /\ Fits(inbox[i])
  BY <1>0, <1>1, AtMessage, Letters DEF Inv, Tracked, Mailbox
<1>4. job[j] \notin Attempting /\ job[j] # "QUEUED"
  BY <1>3 DEF Finished, Successful, Attempting
<1>5. NoWorker \in WorkerRow /\ NoWorker.mode = "none"
  BY DEF NoWorker, WorkerRow, Modes, Endings
<1>6. worker'[j] = NoWorker /\ \A k \in Jobs \ {j} : worker'[k] = worker[k]
  BY <1>1, <1>3 DEF Inv, Types
<1>7. Types' /\ Started' /\ Launched'
  BY <1>1, <1>2, <1>3, <1>5 DEF Inv, Types, Started, Launched, Loop, Launch, Handling, Deciding
<1>8. Mailbox'
  <2>1. \A i \in DOMAIN inbox : Fits(inbox[i])'
    BY <1>1, <1>3, <1>6 DEF Fits, Asking
  <2> QED
    BY <1>1, <2>1 DEF Inv, Tracked, Mailbox, Handling, Deciding
<1>9. ASSUME NEW k \in Jobs PROVE Attended(k)'
  <2>1. Attended(k)
    BY <1>1 DEF Inv, Tracked
  <2>2. CASE k = j
    BY <1>1, <1>3, <1>4, <1>5, <1>6, <2>2 DEF Attended, Asking
  <2>3. CASE k # j
    <3>1. Following(k) => Following(k)'
      BY <1>1, <1>2, <1>6, <2>3 DEF Following
    <3> QED
      BY <1>0, <1>1, <1>6, <2>1, <2>3, <3>1 DEF Attended, Asking
  <2> QED
    BY <2>2, <2>3
<1>10. InputsHeld' /\ InOrder'
  BY <1>1, <1>5, <1>6 DEF Inv, InputsHeld, InOrder, Live
<1> QED
  BY <1>7, <1>8, <1>9, <1>10 DEF Inv, Tracked

-----------------------------------------------------------------------------
(* The worker threads. *)

\* What a step of a thread leaves alone; its messages are looked at below.
LEMMA ThreadStep ==
  ASSUME Inv, NEW j \in Jobs, NEW r \in WorkerRow, worker' = [worker EXCEPT ![j] = r],
         worker[j].mode # "none", r.mode # "none",
         r.mode \in {"sent", "exited"} \/ worker[j].mode \notin {"sent", "exited"},
         frames' \subseteq frames \cup {j}, frames \subseteq frames', inbox' \in Seq(Messages),
         pc \in Loop => Mailbox' /\ Attended(j)',
         UNCHANGED <<build, job, lease, pc, at, current, abort, failure, open>>
  PROVE  Inv'
<1>1. worker'[j] = r /\ \A k \in Jobs \ {j} : worker'[k] = worker[k]
  BY DEF Inv, Types
<1>2. Types'
  BY DEF Inv, Types
<1>3. Started'
  BY <1>1 DEF Inv, Started, Idle, Loop, Launch, Handling, Deciding
<1>4. ASSUME pc \in Loop PROVE Launched'
  <2>1. pc \in Launch => Launching \in Jobs /\ worker[Launching].mode = "none"
    BY AtLaunch
  <2> QED
    BY <1>1, <1>4, <2>1 DEF Inv, Tracked, Launched, Launching, Launch
<1>5. ASSUME pc \in Loop, NEW k \in Jobs \ {j} PROVE Attended(k)'
  <2>1. Attended(k)
    BY <1>5 DEF Inv, Tracked
  <2>2. Following(k) => Following(k)'
    BY <1>1, <1>5 DEF Following
  <2> QED
    BY <1>1, <1>5, <2>1, <2>2 DEF Attended, Asking, Launching
<1>6. InputsHeld' /\ InOrder'
  <2>1. Live' \subseteq Live
    BY <1>1 DEF Live
  <2> QED
    BY <2>1 DEF Inv, InputsHeld, InOrder
<1> QED
  BY <1>2, <1>3, <1>4, <1>5, <1>6 DEF Inv, Tracked

\* A thread that works or reports has no message under way.
LEMMA NothingSaid ==
  ASSUME Inv, pc \in Loop, NEW j \in Jobs, worker[j].mode \in {"work", "reject", "report"}
  PROVE  /\ \A i \in DOMAIN inbox : inbox[i].job # j
         /\ current # NoMessage => current.job # j
BY Letters

LEMMA SilentMail ==
  ASSUME Inv, pc \in Loop, NEW j \in Jobs, worker[j].mode \in {"work", "reject", "report"},
         NEW r, worker' = [worker EXCEPT ![j] = r],
         frames' \subseteq frames \cup {j}, UNCHANGED <<inbox, job, current, pc, verdict>>
  PROVE  Mailbox'
<1>1. \A k \in Jobs \ {j} : worker'[k] = worker[k]
  BY DEF Inv, Types
<1>2. \A i \in DOMAIN inbox : Fits(inbox[i])'
  BY <1>1, Letters, NothingSaid DEF Fits, Asking
<1>3. current # NoMessage => Fits(current)' /\ current.job # j
  BY <1>1, Letters, NothingSaid DEF Fits, Asking
<1> QED
  BY <1>2, <1>3 DEF Inv, Tracked, Mailbox, Handling, Deciding

LEMMA SaidMail ==
  ASSUME Inv, pc \in Loop, NEW j \in Jobs, worker[j].mode \in {"work", "reject", "report"},
         NEW r, worker' = [worker EXCEPT ![j] = r],
         NEW what \in Said, Says(j, what), Fits([job |-> j, what |-> what])',
         UNCHANGED <<frames, job, current, pc, verdict>>
  PROVE  inbox' \in Seq(Messages) /\ Mailbox'
<1> DEFINE m == [job |-> j, what |-> what]
<1>1. inbox \in Seq(Messages) /\ m \in Messages /\ m.job = j /\ inbox' = Append(inbox, m)
  BY DEF Inv, Types, Messages, Says
<1> HIDE DEF m
<1>0. PICK n \in Nat : n = Len(inbox)
  BY <1>1
<1>2. /\ inbox' \in Seq(Messages) /\ DOMAIN inbox = 1..n /\ DOMAIN inbox' = 1..(n + 1)
      /\ inbox'[n + 1] = m
      /\ \A i \in DOMAIN inbox : inbox'[i] = inbox[i]
  BY <1>0, <1>1
<1>3. \A k \in Jobs \ {j} : worker'[k] = worker[k]
  BY DEF Inv, Types
<1>4. \A i \in DOMAIN inbox : Fits(inbox[i])' /\ inbox'[i].job # j /\ inbox'[i] = inbox[i]
  <2> SUFFICES ASSUME NEW i \in DOMAIN inbox PROVE Fits(inbox[i])' /\ inbox'[i].job # j /\ inbox'[i] = inbox[i]
    OBVIOUS
  <2>1. inbox'[i] = inbox[i] /\ inbox[i].job \in Jobs \ {j} /\ Fits(inbox[i])
    BY <1>2, Letters, NothingSaid
  <2> QED
    BY <1>3, <2>1 DEF Fits, Asking
<1>5. Fits(inbox[n + 1])'
  BY <1>2 DEF Fits, Asking, m
<1>6. current # NoMessage => Fits(current)' /\ current.job # j
  BY <1>3, Letters, NothingSaid DEF Fits, Asking
<1>7. \A i \in DOMAIN inbox' : i \in DOMAIN inbox \/ i = n + 1
  BY <1>2
<1>8. \A i \in DOMAIN inbox' : Fits(inbox[i])'
  BY <1>4, <1>5, <1>7
<1>9. current # NoMessage => \A i \in DOMAIN inbox' : inbox'[i].job # current.job
  BY <1>1, <1>2, <1>4, <1>6, <1>7 DEF Inv, Tracked, Mailbox
<1>10. \A i, k \in DOMAIN inbox' : inbox'[i].job = inbox'[k].job => i = k
  BY <1>1, <1>2, <1>4, <1>7 DEF Inv, Tracked, Mailbox
<1> QED
  BY <1>2, <1>6, <1>8, <1>9, <1>10 DEF Inv, Tracked, Mailbox, Handling, Deciding

\* A row of a thread after its mode, or its outcome too, is set.
LEMMA Turned ==
  ASSUME NEW w \in WorkerRow, NEW m \in Modes
  PROVE  \E r \in WorkerRow : r = [w EXCEPT !.mode = m] /\ r.mode = m /\ r.end = w.end /\ r.done = w.done
<1> DEFINE r == [w EXCEPT !.mode = m]
<1>1. w = [mode |-> w.mode, done |-> w.done, end |-> w.end] /\ w.done \in 0..6 /\ w.end \in Endings
  BY DEF WorkerRow
<1>2. r \in WorkerRow /\ r.mode = m /\ r.end = w.end /\ r.done = w.done
  BY <1>1 DEF WorkerRow
<1> QED
  BY <1>2, Zenon

LEMMA Refusing ==
  ASSUME NEW w \in WorkerRow
  PROVE  \E r \in WorkerRow : /\ r = [w EXCEPT !.mode = "report", !.end = "refused"]
                              /\ r.mode = "report" /\ r.end = "refused" /\ r.done = w.done
<1> DEFINE r == [w EXCEPT !.mode = "report", !.end = "refused"]
<1>1. w = [mode |-> w.mode, done |-> w.done, end |-> w.end] /\ w.done \in 0..6
  BY DEF WorkerRow
<1>2. r \in WorkerRow /\ r.mode = "report" /\ r.end = "refused" /\ r.done = w.done
  BY <1>1 DEF WorkerRow, Modes, Endings
<1> QED
  BY <1>2, Zenon

LEMMA SaidTyped ==
  ASSUME Inv, NEW j \in Jobs, NEW what \in Said, Says(j, what) PROVE inbox' \in Seq(Messages)
<1>1. [job |-> j, what |-> what] \in Messages /\ inbox \in Seq(Messages)
  BY DEF Messages, Inv, Types
<1> QED
  BY <1>1 DEF Says

LEMMA RowTyped == ASSUME Inv, NEW j \in Jobs PROVE worker[j] \in WorkerRow /\ worker[j].done \in 0..6
BY DEF Inv, Types, WorkerRow

LEMMA EndStep == ASSUME Inv, NEW j \in Jobs, End(j) PROVE Inv'
<1>1. worker[j].mode = "work" /\ worker[j].end = "none"
  BY DEF End, Working
<1>2. UNCHANGED <<build, job, lease, pc, at, current, abort, verdict, failure, open, inbox, frames>>
  BY DEF End, Apart, rows, thread
<1>3. PICK e \in Outcomes(j) :
        Sets(j, [worker[j] EXCEPT !.end = e,
                     !.mode = IF e # "approved" /\ worker[j].done > 4 THEN "reject" ELSE "report"])
  BY DEF End
<1>4. e \in Endings \ {"none"}
  BY RowTyped DEF Outcomes, Preflight, Gate, Process, Endings
<1>5. PICK m \in {"reject", "report"} : worker' = [worker EXCEPT ![j] = [worker[j] EXCEPT !.end = e, !.mode = m]]
  BY <1>3 DEF Sets
<1> DEFINE r == [worker[j] EXCEPT !.end = e, !.mode = m]
<1>6. r \in WorkerRow /\ r.mode = m /\ r.end = e /\ r.done = worker[j].done
  <2>1. worker[j] = [mode |-> worker[j].mode, done |-> worker[j].done, end |-> worker[j].end]
    BY RowTyped DEF WorkerRow
  <2> QED
    BY <1>4, <2>1, RowTyped DEF WorkerRow, Modes
<1>7. worker' = [worker EXCEPT ![j] = r] /\ worker'[j] = r
  BY <1>5, <1>6 DEF Inv, Types
<1> HIDE DEF r
<1>8. ASSUME pc \in Loop PROVE Mailbox'
  BY <1>1, <1>2, <1>7, <1>8, SilentMail
<1>9. ASSUME pc \in Loop PROVE Attended(j)'
  <2>1. Attended(j)
    BY <1>9 DEF Inv, Tracked
  <2> QED
    BY <1>1, <1>2, <1>4, <1>6, <1>7, <2>1 DEF Attended, Asking
<1> QED
  BY <1>1, <1>2, <1>6, <1>7, <1>8, <1>9, ThreadStep DEF Inv, Types

LEMMA MaterializeStep == ASSUME Inv, NEW j \in Jobs, Materialize(j) PROVE Inv'
<1>1. worker[j].mode = "work" /\ worker[j].end = "none" /\ worker[j].done = 3 /\ frames' = frames \cup {j}
  BY DEF Materialize, Working
<1>2. UNCHANGED <<build, job, lease, pc, at, current, abort, verdict, failure, open, inbox>>
  BY DEF Materialize, Apart, rows, thread
<1> DEFINE r == [worker[j] EXCEPT !.done = 4]
<1>3. worker' = [worker EXCEPT ![j] = r] /\ worker'[j] = r
  BY DEF Materialize, Sets, Inv, Types
<1>4. r \in WorkerRow /\ r.mode = "work" /\ r.end = "none" /\ r.done = 4
  BY <1>1, RowTyped DEF WorkerRow
<1> HIDE DEF r
<1>5. ASSUME pc \in Loop PROVE Mailbox'
  BY <1>1, <1>2, <1>3, <1>5, SilentMail
<1>6. ASSUME pc \in Loop PROVE Attended(j)'
  <2>1. Attended(j)
    BY <1>6 DEF Inv, Tracked
  <2>2. job[j] = "RUNNING" /\ job[j] \in Attempting
    BY <1>1, <2>1 DEF Attended, Following, Attempting
  <2> QED
    BY <1>1, <1>2, <1>3, <1>4, <2>2 DEF Attended, Asking, Following
<1> QED
  BY <1>1, <1>2, <1>3, <1>4, <1>5, <1>6, ThreadStep DEF Inv, Types

LEMMA SendStep == ASSUME Inv, NEW j \in Jobs, Send(j) PROVE Inv'
<1>1. worker[j].mode = "work" /\ worker[j].end = "none" /\ worker[j].done \in {0, 1, 2, 4, 5}
      /\ Says(j, Script[worker[j].done + 1])
  BY RowTyped DEF Send, Working
<1>2. UNCHANGED <<build, job, lease, pc, at, current, abort, verdict, failure, open, frames>>
  BY DEF Send, Apart, rows, thread
<1>3. PICK r \in WorkerRow :
        r = [worker[j] EXCEPT !.mode = "wait"] /\ r.mode = "wait" /\ r.end = "none" /\ r.done = worker[j].done
  <2>1. worker[j] \in WorkerRow /\ "wait" \in Modes /\ "none" \in Endings
    BY RowTyped DEF Modes, Endings
  <2>2. \E r \in WorkerRow :
          r = [worker[j] EXCEPT !.mode = "wait"] /\ r.mode = "wait" /\ r.end = worker[j].end /\ r.done = worker[j].done
    BY <2>1, Turned, Zenon
  <2> QED
    BY <1>1, <2>2
<1>4. worker' = [worker EXCEPT ![j] = r] /\ worker'[j] = r
  BY <1>3 DEF Send, Sets, Awaited, Inv, Types
<1>5. PICK what : what = Script[worker[j].done + 1]
  OBVIOUS
<1>6. what \in Said /\ what \notin {"finished", "rejected"}
  BY <1>1, <1>5 DEF Said, Script
<1>7. Fits([job |-> j, what |-> what])'
  BY <1>1, <1>3, <1>4, <1>5, <1>6 DEF Fits, Asking
<1>8. inbox' \in Seq(Messages)
  BY <1>1, <1>5, <1>6, SaidTyped
<1>9. ASSUME pc \in Loop PROVE Mailbox'
  BY <1>1, <1>2, <1>4, <1>5, <1>6, <1>7, <1>9, SaidMail
<1>10. ASSUME pc \in Loop PROVE Attended(j)'
  <2>1. Attended(j)
    BY <1>10 DEF Inv, Tracked
  <2>2. Following(j) => Following(j)'
    BY <1>2, <1>3, <1>4 DEF Following
  <2> QED
    BY <1>1, <1>2, <1>3, <1>4, <2>1, <2>2 DEF Attended, Asking
<1> QED
  BY <1>1, <1>2, <1>3, <1>4, <1>8, <1>9, <1>10, ThreadStep

LEMMA RejectStep == ASSUME Inv, NEW j \in Jobs, Reject(j) PROVE Inv'
<1>1. worker[j].mode = "reject"
  BY DEF Reject
<1>2. UNCHANGED <<build, job, lease, pc, at, current, abort, verdict, failure, open, frames>>
  BY DEF Reject, Apart, rows, thread
<1>3. PICK m \in {"wait", "report"} :
        /\ worker' = [worker EXCEPT ![j] = [worker[j] EXCEPT !.mode = m]]
        /\ IF m = "wait" THEN Says(j, "rejected") ELSE ~open /\ inbox' = inbox
  BY DEF Reject, Sets
<1>4. PICK r \in WorkerRow :
        r = [worker[j] EXCEPT !.mode = m] /\ r.mode = m /\ r.end = worker[j].end /\ r.done = worker[j].done
  <2>1. worker[j] \in WorkerRow /\ m \in Modes
    BY RowTyped DEF Modes
  <2> QED
    BY <2>1, Turned
<1>5. worker' = [worker EXCEPT ![j] = r] /\ worker'[j] = r
  BY <1>3, <1>4 DEF Inv, Types
<1>6. inbox' \in Seq(Messages)
  BY <1>3, SaidTyped DEF Said, Inv, Types
<1>7. ASSUME pc \in Loop PROVE Mailbox' /\ Attended(j)'
  <2>1. m = "wait" /\ Says(j, "rejected") /\ Attended(j)
    BY <1>3, <1>7 DEF Inv, Started, Tracked
  <2>2. r.end # "none"
    BY <1>1, <1>4, <2>1 DEF Attended
  <2>3. Fits([job |-> j, what |-> "rejected"])'
    BY <1>4, <1>5, <2>1, <2>2 DEF Fits
  <2>4. Mailbox'
    BY <1>1, <1>2, <1>5, <1>7, <2>1, <2>3, SaidMail DEF Said
  <2> QED
    BY <1>1, <1>2, <1>4, <1>5, <2>1, <2>2, <2>4 DEF Attended, Asking
<1> QED
  BY <1>1, <1>2, <1>4, <1>5, <1>6, <1>7, ThreadStep

\* Once the coordinator has hung up, a thread that waits or works is refused.
LEMMA RefusedStep == ASSUME Inv, NEW j \in Jobs, Orphaned(j) \/ Refused(j) PROVE Inv'
<1>1. worker[j].mode \in {"wait", "work"} /\ ~open /\ pc \notin Loop
  BY DEF Orphaned, Refused, Working, Inv, Started
<1>2. UNCHANGED <<build, job, lease, pc, at, current, abort, failure, open, frames, inbox>>
  BY DEF Orphaned, Refused, Apart, rows, thread
<1>3. PICK r \in WorkerRow : /\ r = [worker[j] EXCEPT !.mode = "report", !.end = "refused"]
                             /\ r.mode = "report" /\ r.end = "refused" /\ r.done = worker[j].done
  BY RowTyped, Refusing, Zenon
<1>4. worker' = [worker EXCEPT ![j] = r]
  BY <1>3 DEF Orphaned, Refused, Sets
<1> QED
  BY <1>1, <1>2, <1>3, <1>4, ThreadStep DEF Inv, Types

LEMMA ReportStep == ASSUME Inv, NEW j \in Jobs, Report(j) PROVE Inv'
<1>1. worker[j].mode = "report" /\ (IF open THEN Says(j, "finished") ELSE inbox' = inbox)
  BY DEF Report
<1>2. UNCHANGED <<build, job, lease, pc, at, current, abort, verdict, failure, open, frames>>
  BY DEF Report, Apart, rows, thread
<1>3. PICK r \in WorkerRow :
        r = [worker[j] EXCEPT !.mode = "sent"] /\ r.mode = "sent" /\ r.end = worker[j].end /\ r.done = worker[j].done
  BY RowTyped, Turned, Zenon DEF Modes
<1>4. worker' = [worker EXCEPT ![j] = r] /\ worker'[j] = r
  BY <1>3 DEF Report, Sets, Inv, Types
<1>5. inbox' \in Seq(Messages)
  BY <1>1, SaidTyped DEF Said, Inv, Types
<1>6. ASSUME pc \in Loop PROVE Mailbox' /\ Attended(j)'
  <2>1. Says(j, "finished") /\ Attended(j)
    BY <1>1, <1>6 DEF Inv, Started, Tracked
  <2>2. Fits([job |-> j, what |-> "finished"])'
    BY <1>3, <1>4 DEF Fits
  <2>3. Mailbox'
    BY <1>1, <1>2, <1>4, <1>6, <2>1, <2>2, SaidMail DEF Said
  <2> QED
    BY <1>1, <1>2, <1>3, <1>4, <2>1, <2>3 DEF Attended, Asking
<1> QED
  BY <1>1, <1>2, <1>3, <1>4, <1>5, <1>6, ThreadStep

LEMMA ExitStep == ASSUME Inv, NEW j \in Jobs, Exit(j) PROVE Inv'
<1>1. worker[j].mode = "sent"
  BY DEF Exit
<1>2. UNCHANGED <<build, job, lease, pc, at, current, abort, verdict, failure, open, frames, inbox>>
  BY DEF Exit, Apart, rows, thread
<1>3. PICK r \in WorkerRow :
        r = [worker[j] EXCEPT !.mode = "exited"] /\ r.mode = "exited" /\ r.end = worker[j].end /\ r.done = worker[j].done
  BY RowTyped, Turned, Zenon DEF Modes
<1>4. worker' = [worker EXCEPT ![j] = r] /\ worker'[j] = r /\ \A k \in Jobs \ {j} : worker'[k] = worker[k]
  BY <1>3 DEF Exit, Sets, Inv, Types
<1>5. ASSUME pc \in Loop PROVE Mailbox' /\ Attended(j)'
  <2>1. \A i \in DOMAIN inbox : Fits(inbox[i])'
    BY <1>1, <1>2, <1>3, <1>4, <1>5, Letters DEF Fits, Asking
  <2>2. current # NoMessage => Fits(current)'
    BY <1>1, <1>2, <1>3, <1>4, <1>5, Letters DEF Fits, Asking
  <2>3. Mailbox'
    BY <1>2, <1>5, <2>1, <2>2 DEF Inv, Tracked, Mailbox, Handling, Deciding
  <2>4. Attended(j)
    BY <1>5 DEF Inv, Tracked
  <2> QED
    BY <1>1, <1>2, <1>3, <1>4, <2>3, <2>4 DEF Attended, Asking
<1> QED
  BY <1>1, <1>2, <1>3, <1>4, <1>5, ThreadStep DEF Inv, Types

-----------------------------------------------------------------------------
(* The theorems. *)

LEMMA InvStep == Inv /\ [Next]_vars => Inv'
<1> SUFFICES ASSUME Inv, [Next]_vars PROVE Inv'
  OBVIOUS
<1>1. CASE UNCHANGED vars
  <2>1. UNCHANGED <<build, job, lease, pc, at, current, abort, verdict, failure, worker, inbox, frames, open>>
    BY <1>1 DEF vars, rows, thread, threads
  <2>2. Types' /\ Started' /\ InputsHeld' /\ InOrder'
    BY <2>1 DEF Inv, Types, Started, Idle, InputsHeld, InOrder, Live
  <2>3. Tracked'
    BY <2>1 DEF Inv, Tracked, Launched, Launching, Mailbox, Fits, Attended, Following, Asking
  <2> QED
    BY <2>2, <2>3 DEF Inv
<1>2. CASE Coordinate
  <2>1. CASE \/ Prepare \/ PrepareFails \/ StartDispatch \/ (\E reads \in BOOLEAN : Poll(reads)) \/ Visits
             \/ Bind \/ BindRefused \/ Lease \/ Queue \/ StartAttempt \/ Register
    BY <2>1, SettleStep, BeginStep, PollStep, VisitStep, BindStep, LeaseStep, QueueStep,
       AttemptStep, RegisterStep DEF Visits
  <2>2. CASE \/ JobsDone \/ Drain \/ (\E j \in Jobs : Materialization(j)) \/ Receive \/ Check \/ Observe
    BY <2>2, DoneStep, DrainStep, FrameStep, ReceiveStep, ObserveStep
  <2>3. CASE \/ Completed \/ Publish \/ Commit \/ Decide \/ Record \/ Join \/ FinishDispatch \/ Failing
    BY <2>3, CompletionStep, RecordStep, JoinStep, FinishStep
  <2> QED
    BY <1>2, <2>1, <2>2, <2>3 DEF Coordinate
<1>3. ASSUME NEW j \in Jobs, Work(j) PROVE Inv'
  BY <1>3, EndStep, MaterializeStep, SendStep, RejectStep, RefusedStep, ReportStep, ExitStep DEF Work
<1>4. CASE Cancel \/ Settle \/ Withdraw \/ Vacate \/ Done \/ \E j \in Jobs : Backoff(j)
  BY <1>4, WorldStep, SettleStep
<1> QED
  BY <1>1, <1>2, <1>3, <1>4 DEF Next

LEMMA Invariance == Spec => []Inv
BY InitInv, InvStep, PTL DEF Spec

\* A phase is durable before its work starts: what Coordinator::observe has
\* acknowledged is what lifecycle::run goes on from, for every number of jobs.
THEOREM EvidenceGoesFirst == Spec => []EvidenceFirst
<1>1. Inv => EvidenceFirst
  <2> SUFFICES ASSUME Inv, NEW j \in Jobs, Working(j), open
               PROVE  CASE worker[j].done = 0 -> job[j] = "STARTING"
                        [] worker[j].done \in {1, 2} -> job[j] = "VALIDATING_INPUTS"
                        [] worker[j].done = 3 -> job[j] = "RUNNING"
                        [] worker[j].done = 4 -> job[j] \in {"RUNNING", "MATERIALIZING"}
                        [] OTHER -> job[j] = "VALIDATING_OUTPUTS"
    BY DEF EvidenceFirst
  <2>1. pc \in Loop
    BY DEF Working, Inv, Started, Idle
  <2>2. Following(j)
    BY <2>1 DEF Working, Inv, Tracked, Attended
  <2> QED
    BY <2>2 DEF Following
<1> QED
  BY <1>1, Invariance, PTL

\* The leases of an attempt are held from launch to outcome, and kept while it
\* waits to be retried, whatever fails or is canceled between.
THEOREM InputsStayLeased == Spec => []InputsHeld
<1>1. Inv => InputsHeld
  BY DEF Inv
<1> QED
  BY <1>1, Invariance, PTL

\* The dispatcher never asks the store for a transition that its own state
\* forbids: frames, observations and completions are handled in order.
THEOREM HandledInOrder == Spec => []InOrder
<1>1. Inv => InOrder
  BY DEF Inv
<1> QED
  BY <1>1, Invariance, PTL
=============================================================================
