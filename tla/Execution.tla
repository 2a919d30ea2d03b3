----------------------------- MODULE Execution -----------------------------
(***************************************************************************)
(* The pure execution state of one accepted build: the Job aggregate, its  *)
(* Attempts and the Build that collects them (crates/tf-domain/execution). *)
(*                                                                         *)
(* Every action is one accepted method call.  A rejected call returns a    *)
(* StateError and changes nothing, so it is a stuttering step; what the    *)
(* methods refuse is in the guards.  The callers are unconstrained: they   *)
(* may call any method with any attempt, fence and time, in any order.     *)
(*                                                                         *)
(* Time is the caller's EventTime in units of the shortest retry delay.    *)
(***************************************************************************)
EXTENDS Naturals, Sequences, FiniteSets

CONSTANTS
    Jobs,            \* the jobs of the accepted plan
    Mandatory,       \* the jobs the build cannot do without
    AttemptIds,      \* identities a caller may give to an attempt
    Versions,        \* publication identities a caller may plan
    Sessions,        \* coordinator sessions
    MaxFence,        \* bound: largest reservation generation of a fence
    MaxAttempts,     \* RetryPolicy.max_attempts of every job
    RetryClasses,    \* RetryPolicy.classes of every job
    MaxTime,         \* largest representable EventTime (u64::MAX in the code)
    ExpectedHead,    \* OutputTarget.expected_generation of every job
    MaxHead,         \* largest representable head generation (u64::MAX)
    NoVersion, NoJob, NoTime   \* absent values

FailureClasses == {"transient", "deterministic"}

ASSUME JobsAssumption ==
    /\ IsFiniteSet(Jobs) /\ Mandatory \subseteq Jobs /\ Mandatory # {}
    /\ NoJob \notin Jobs /\ NoVersion \notin Versions /\ NoTime \notin Nat
ASSUME RetryAssumption ==
    /\ MaxAttempts \in [Jobs -> Nat \ {0}] /\ MaxTime \in Nat /\ MaxFence \in Nat
    /\ RetryClasses \in [Jobs -> SUBSET {"transient"}]
    /\ MaxHead \in Nat /\ ExpectedHead \in [Jobs -> 0..MaxHead]

VARIABLES
    state,           \* state[j]: JobState by its stable name
    attempts,        \* attempts[j]: every real attempt, oldest first
    cancelRequested, \* cancelRequested[j]: independent request flag
    fence,           \* fence[j]: owning session and reservation generation
    lastEvent,       \* lastEvent[j]: time of the last accepted transition
    retryAt,         \* retryAt[j]: RetryWait(ready), NoTime elsewhere
    blockedBy,       \* blockedBy[j]: the upstream job of a BLOCKED outcome
    buildState, buildCancel, buildLast

jobVars == <<state, attempts, cancelRequested, fence, lastEvent, retryAt, blockedBy>>
buildVars == <<buildState, buildCancel, buildLast>>
executionVars == <<jobVars, buildVars>>

Time == 0..MaxTime
Fence == [session : Sessions, generation : 0..MaxFence]
Phases == {"STARTING", "VALIDATING_INPUTS", "RUNNING", "MATERIALIZING",
           "VALIDATING_OUTPUTS", "COMMITTING"}
Waiting == {"PLANNED", "WAITING_DEPENDENCIES", "QUEUED"}
Unsuccessful == {"FAILED", "BLOCKED", "CANCELED", "INTERRUPTED"}
Finished == {"SUCCEEDED", "CACHED"} \cup Unsuccessful
JobStates == Waiting \cup Phases \cup {"RETRY_WAIT"} \cup Finished
BuildStates == {"QUEUED", "RUNNING", "SUCCEEDED", "FAILED", "CANCELED", "INTERRUPTED"}
BuildTerminal == BuildStates \ {"QUEUED", "RUNNING"}
Outcomes == {"OPEN", "SUCCEEDED", "FAILED", "CANCELED", "INTERRUPTED"}

Attempt == [id : AttemptIds, fence : Fence, phase : Phases, started : Time,
            finished : Time \cup {NoTime}, outcome : Outcomes,
            class : FailureClasses \cup {"none"}, version : Versions \cup {NoVersion}]

\* Phase::next: COMMITTING is entered by prepare_publication only.
NextPhase(p) ==
    CASE p = "STARTING" -> "VALIDATING_INPUTS"
      [] p = "VALIDATING_INPUTS" -> "RUNNING"
      [] p = "RUNNING" -> "MATERIALIZING"
      [] p = "MATERIALIZING" -> "VALIDATING_OUTPUTS"
      [] OTHER -> "none"

\* Fence::supersedes
Supersedes(new, old) ==
    new.session # old.session \/ new.generation > old.generation

\* RetryPolicy::permits and delay_ms, after count tries; the delay is 1, 2, 4,
\* 8, 16 and then 30 units.
Permits(j, class, count) == count < MaxAttempts[j] /\ class \in RetryClasses[j]
Delay(count) ==
    CASE count <= 1 -> 1 [] count = 2 -> 2 [] count = 3 -> 4
      [] count = 4 -> 8 [] count = 5 -> 16 [] OTHER -> 30

----------------------------------------------------------------------------
\* The jobs of a build start under the session that accepted it.
ExecutionInit ==
    /\ state = [j \in Jobs |-> "PLANNED"]
    /\ attempts = [j \in Jobs |-> <<>>]
    /\ cancelRequested = [j \in Jobs |-> FALSE]
    /\ \E s \in Sessions : fence \in [Jobs -> {f \in Fence : f.session = s}]
    /\ lastEvent = [j \in Jobs |-> 0]
    /\ retryAt = [j \in Jobs |-> NoTime]
    /\ blockedBy = [j \in Jobs |-> NoJob]
    /\ buildState = "QUEUED" /\ buildCancel = FALSE /\ buildLast = 0

\* Mutant: a finished job still accepts events.
GuardOpenEnded(j, f, at) == f = fence[j] /\ at \in Time /\ at >= lastEvent[j]

\* Job::guard: the exact fence, a time that does not go back, a live job.
Guard(j, f, at) ==
    /\ f = fence[j]
    /\ at \in Time /\ at >= lastEvent[j]
    /\ state[j] \notin Finished

Last(j) == attempts[j][Len(attempts[j])]
HasOpenAttempt(j) == attempts[j] # <<>> /\ Last(j).outcome = "OPEN"

\* Job::active: the event is for the attempt that is executing now.
Active(j, a, f, at) ==
    /\ Guard(j, f, at)
    /\ HasOpenAttempt(j) /\ Last(j).id = a
    /\ state[j] \in Phases

\* Job::pre_execution
PreExecution(j) == state[j] \in Waiting /\ attempts[j] = <<>>

SetState(j, s, at) ==
    /\ state' = [state EXCEPT ![j] = s]
    /\ lastEvent' = [lastEvent EXCEPT ![j] = at]

\* The last attempt ends with outcome o; an attempt that is closed already
\* keeps its evidence.
CloseLast(j, o, class, at) ==
    attempts' = IF HasOpenAttempt(j)
                THEN [attempts EXCEPT ![j][Len(attempts[j])] =
                        [@ EXCEPT !.finished = at, !.outcome = o, !.class = class]]
                ELSE attempts

WaitDependencies(j, f, at) ==
    /\ Guard(j, f, at) /\ state[j] = "PLANNED" /\ ~cancelRequested[j]
    /\ SetState(j, "WAITING_DEPENDENCIES", at)
    /\ UNCHANGED <<attempts, cancelRequested, fence, retryAt, blockedBy, buildVars>>

Queue(j, f, at) ==
    /\ Guard(j, f, at) /\ state[j] \in {"PLANNED", "WAITING_DEPENDENCIES"}
    /\ ~cancelRequested[j]
    /\ SetState(j, "QUEUED", at)
    /\ UNCHANGED <<attempts, cancelRequested, fence, retryAt, blockedBy, buildVars>>

Cache(j, f, at) ==
    /\ Guard(j, f, at) /\ PreExecution(j) /\ ~cancelRequested[j]
    /\ SetState(j, "CACHED", at)
    /\ UNCHANGED <<attempts, cancelRequested, fence, retryAt, blockedBy, buildVars>>

Block(j, upstream, f, at) ==
    /\ Guard(j, f, at) /\ PreExecution(j) /\ upstream # j
    /\ state[upstream] \in Unsuccessful
    /\ at >= lastEvent[upstream]
    /\ SetState(j, "BLOCKED", at)
    /\ blockedBy' = [blockedBy EXCEPT ![j] = upstream]
    /\ UNCHANGED <<attempts, cancelRequested, fence, retryAt, buildVars>>

StartAttempt(j, a, f, at) ==
    /\ Guard(j, f, at)
    /\ \/ state[j] = "QUEUED"
       \/ state[j] = "RETRY_WAIT" /\ at >= retryAt[j]
    /\ ~cancelRequested[j]
    /\ Len(attempts[j]) < MaxAttempts[j]
    /\ \A i \in 1..Len(attempts[j]) : attempts[j][i].id # a
    /\ attempts' = [attempts EXCEPT ![j] = Append(@,
            [id |-> a, fence |-> fence[j], phase |-> "STARTING", started |-> at,
             finished |-> NoTime, outcome |-> "OPEN", class |-> "none",
             version |-> NoVersion])]
    /\ SetState(j, "STARTING", at)
    /\ retryAt' = [retryAt EXCEPT ![j] = NoTime]
    /\ UNCHANGED <<cancelRequested, fence, blockedBy, buildVars>>

Advance(j, a, f, next, at) ==
    /\ Active(j, a, f, at)
    /\ NextPhase(Last(j).phase) = next
    /\ ~cancelRequested[j]
    /\ attempts' = [attempts EXCEPT ![j][Len(attempts[j])].phase = next]
    /\ SetState(j, next, at)
    /\ UNCHANGED <<cancelRequested, fence, retryAt, blockedBy, buildVars>>

Representable(t) == t \in Time

\* The attempt fails; the job waits for a retry the policy permits, else it
\* fails.  A retry time that overflows rejects the whole event.
Fail(j, a, f, class, at) ==
    /\ Active(j, a, f, at)
    /\ LET count == Len(attempts[j])
           ready == at + Delay(count)
       IN \/ /\ ~cancelRequested[j] /\ Permits(j, class, count)
             /\ Representable(ready)
             /\ SetState(j, "RETRY_WAIT", at)
             /\ retryAt' = [retryAt EXCEPT ![j] = ready]
          \/ /\ cancelRequested[j] \/ ~Permits(j, class, count)
             /\ SetState(j, "FAILED", at)
             /\ UNCHANGED retryAt
    /\ CloseLast(j, "FAILED", class, at)
    /\ UNCHANGED <<cancelRequested, fence, blockedBy, buildVars>>

\* Mutant: a finished job records the request too.
RequestCancelLate(j) ==
    /\ ~cancelRequested[j]
    /\ cancelRequested' = [cancelRequested EXCEPT ![j] = TRUE]
    /\ UNCHANGED <<state, attempts, fence, lastEvent, retryAt, blockedBy, buildVars>>

RequestCancel(j) ==
    /\ state[j] \notin Finished /\ ~cancelRequested[j]
    /\ cancelRequested' = [cancelRequested EXCEPT ![j] = TRUE]
    /\ UNCHANGED <<state, attempts, fence, lastEvent, retryAt, blockedBy, buildVars>>

FinishCanceled(j, f, at) ==
    /\ Guard(j, f, at) /\ cancelRequested[j]
    /\ CloseLast(j, "CANCELED", "none", at)
    /\ SetState(j, "CANCELED", at)
    /\ retryAt' = [retryAt EXCEPT ![j] = NoTime]
    /\ UNCHANGED <<cancelRequested, fence, blockedBy, buildVars>>

\* No attempt of the job has planned version v.
Unused(j, v) == \A i \in 1..Len(attempts[j]) : attempts[j][i].version # v

PreparePublication(j, a, f, v, at) ==
    /\ Active(j, a, f, at)
    /\ Last(j).phase = "VALIDATING_OUTPUTS" /\ ~cancelRequested[j]
    /\ Unused(j, v)
    /\ attempts' = [attempts EXCEPT ![j][Len(attempts[j])] =
                        [@ EXCEPT !.phase = "COMMITTING", !.version = v]]
    /\ SetState(j, "COMMITTING", at)
    /\ UNCHANGED <<cancelRequested, fence, retryAt, blockedBy, buildVars>>

Commit(j, a, f, v, observedHead, at) ==
    /\ Active(j, a, f, at)
    /\ Last(j).phase = "COMMITTING" /\ Last(j).version = v
    /\ ~cancelRequested[j]
    /\ observedHead = ExpectedHead[j] /\ observedHead + 1 <= MaxHead
    /\ CloseLast(j, "SUCCEEDED", "none", at)
    /\ SetState(j, "SUCCEEDED", at)
    /\ UNCHANGED <<cancelRequested, fence, retryAt, blockedBy, buildVars>>

InterruptForRecovery(j, new, at) ==
    /\ Guard(j, fence[j], at)
    /\ Supersedes(new, fence[j])
    /\ CloseLast(j, "INTERRUPTED", "none", at)
    /\ SetState(j, "INTERRUPTED", at)
    /\ fence' = [fence EXCEPT ![j] = new]
    /\ retryAt' = [retryAt EXCEPT ![j] = NoTime]
    /\ UNCHANGED <<cancelRequested, blockedBy, buildVars>>

StartBuild(at) ==
    /\ buildState = "QUEUED" /\ at >= buildLast /\ ~buildCancel
    /\ buildState' = "RUNNING" /\ buildLast' = at
    /\ UNCHANGED <<buildCancel, jobVars>>

RequestBuildCancel ==
    /\ buildState \notin BuildTerminal /\ ~buildCancel
    /\ buildCancel' = TRUE
    /\ UNCHANGED <<buildState, buildLast, jobVars>>

\* Mutant: an interrupted build with a canceled job reads as canceled, and
\* blocked work is not a failure.
VerdictLenient(outcome) ==
    LET Seen(s) == \E j \in Mandatory : outcome[j] \in s
    IN IF Seen({"FAILED"}) THEN "FAILED"
       ELSE IF Seen({"CANCELED"}) THEN "CANCELED"
       ELSE IF Seen({"INTERRUPTED"}) THEN "INTERRUPTED" ELSE "SUCCEEDED"

\* The verdict of the mandatory jobs: failure, then interruption, then
\* cancellation take precedence.
Verdict(outcome) ==
    LET Seen(s) == \E j \in Mandatory : outcome[j] \in s
    IN IF Seen({"FAILED", "BLOCKED"}) THEN "FAILED"
       ELSE IF Seen({"INTERRUPTED"}) THEN "INTERRUPTED"
       ELSE IF Seen({"CANCELED"}) THEN "CANCELED" ELSE "SUCCEEDED"

FinishBuild(at) ==
    /\ buildState \notin BuildTerminal /\ at >= buildLast
    /\ \A j \in Jobs : lastEvent[j] <= at /\ state[j] \in Finished
    /\ buildState = "QUEUED" => \A j \in Jobs : attempts[j] = <<>>
    /\ buildState' = Verdict(state) /\ buildLast' = at
    /\ UNCHANGED <<buildCancel, jobVars>>

JobEvent(j, f, at) ==
    /\ Guard(j, f, at)
    /\ \/ WaitDependencies(j, f, at)
       \/ Queue(j, f, at)
       \/ Cache(j, f, at)
       \/ \E u \in Jobs : Block(j, u, f, at)
       \/ \E a \in AttemptIds : StartAttempt(j, a, f, at)
       \/ \E a \in AttemptIds, p \in Phases : Advance(j, a, f, p, at)
       \/ \E a \in AttemptIds, c \in FailureClasses : Fail(j, a, f, c, at)
       \/ FinishCanceled(j, f, at)
       \/ \E a \in AttemptIds, v \in Versions : PreparePublication(j, a, f, v, at)
       \/ \E a \in AttemptIds, v \in Versions, h \in 0..MaxHead : Commit(j, a, f, v, h, at)
       \/ \E new \in Fence : InterruptForRecovery(j, new, at)

ExecutionNext ==
    \/ \E j \in Jobs, f \in Fence, at \in Time : JobEvent(j, f, at)
    \/ \E j \in Jobs : RequestCancel(j)
    \/ \E at \in Time : StartBuild(at)
    \/ RequestBuildCancel
    \/ \E at \in Time : FinishBuild(at)

ExecutionSpec == ExecutionInit /\ [][ExecutionNext]_executionVars

----------------------------------------------------------------------------
\* Every field holds a value the Rust types and the bounds allow.
ExecutionTypeOK ==
    /\ state \in [Jobs -> JobStates]
    /\ attempts \in [Jobs -> Seq(Attempt)]
    /\ cancelRequested \in [Jobs -> BOOLEAN]
    /\ fence \in [Jobs -> Fence]
    /\ lastEvent \in [Jobs -> Time]
    /\ retryAt \in [Jobs -> Time \cup {NoTime}]
    /\ blockedBy \in [Jobs -> Jobs \cup {NoJob}]
    /\ buildState \in BuildStates /\ buildCancel \in BOOLEAN /\ buildLast \in Time

\* The job executes phase p exactly when its last attempt is the one open
\* attempt and is in phase p; no earlier attempt is ever open (Job.state and
\* Attempt.phase are two copies kept equal by every method).
PhaseAgreement == \A j \in Jobs :
    /\ (state[j] \in Phases) <=> HasOpenAttempt(j)
    /\ HasOpenAttempt(j) => Last(j).phase = state[j]
    /\ \A i \in 1..Len(attempts[j]) : i < Len(attempts[j]) =>
            attempts[j][i].outcome # "OPEN"

\* Once a cancellation is recorded the job never succeeds nor reuses a version.
CancelExcludesSuccess == \A j \in Jobs :
    cancelRequested[j] => state[j] \notin {"SUCCEEDED", "CACHED"}

\* A finished build keeps the verdict of its jobs whatever calls arrive later:
\* every job is finished, at or before the build, and no late cancellation
\* turns committed work into a canceled build.
BuildVerdict == buildState \in BuildTerminal =>
    /\ \A j \in Jobs : state[j] \in Finished /\ lastEvent[j] <= buildLast
    /\ LET of == {state[j] : j \in Mandatory} IN
       /\ (buildState = "FAILED") <=> (of \cap {"FAILED", "BLOCKED"} # {})
       /\ (buildState = "SUCCEEDED") <=> (of \subseteq {"SUCCEEDED", "CACHED"})
       /\ buildState = "CANCELED" => "INTERRUPTED" \notin of
       /\ buildState = "INTERRUPTED" => "INTERRUPTED" \in of

\* Terminal evidence is immutable: late events of an old attempt, an old owner
\* or a timer change neither a closed attempt nor a finished job.
EvidenceImmutable == [][\A j \in Jobs :
    /\ Len(attempts'[j]) >= Len(attempts[j])
    /\ \A i \in 1..Len(attempts[j]) :
        attempts[j][i].outcome # "OPEN" => attempts'[j][i] = attempts[j][i]
    /\ state[j] \in Finished =>
        /\ state'[j] = state[j] /\ attempts'[j] = attempts[j]
        /\ fence'[j] = fence[j] /\ lastEvent'[j] = lastEvent[j]]_executionVars
=============================================================================
