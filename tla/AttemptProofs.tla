---------------------------- MODULE AttemptProofs ----------------------------
(***************************************************************************)
(* The attempts of a job, as the domain counts them (Execution) and as the *)
(* processes that run them (Supervision): proofs for every set of jobs,    *)
(* attempts, fences and directories, every retry budget, horizon of time,  *)
(* number of sessions and budget of a phase.                               *)
(***************************************************************************)
EXTENDS Execution, Supervision, SequenceTheorems, TLAPS

-----------------------------------------------------------------------------
(* Execution. *)


----------------------------------------------------------------------------
(* Types. *)

\* The delay before a retry is a natural number (RetryPolicy::delay_ms).
LEMMA DelayNat == ASSUME NEW n \in Nat PROVE Delay(n) \in Nat
BY DEF Delay

\* Rewriting the last element of a sequence keeps its length, its other
\* elements and its type.
LEMMA ReplaceLast ==
    ASSUME NEW S, NEW q \in Seq(S), q # <<>>, NEW e \in S
    PROVE  LET r == [q EXCEPT ![Len(q)] = e] IN
           /\ r \in Seq(S) /\ Len(r) = Len(q) /\ r # <<>>
           /\ r[Len(q)] = e
           /\ \A i \in 1..Len(q) : i # Len(q) => r[i] = q[i]
<1>1. Len(q) \in 1..Len(q)
  BY EmptySeq, LenProperties
<1> QED BY <1>1, ExceptSeq, LenProperties, EmptySeq

LEMMA LastTyped ==
    ASSUME ExecutionTypeOK, NEW j \in Jobs, attempts[j] # <<>>
    PROVE  /\ attempts[j] \in Seq(Attempt) /\ Last(j) \in Attempt
           /\ Len(attempts[j]) \in 1..Len(attempts[j])
<1>1. attempts[j] \in Seq(Attempt)
  BY DEF ExecutionTypeOK
<1>2. Len(attempts[j]) \in 1..Len(attempts[j])
  BY <1>1, EmptySeq, LenProperties
<1> QED BY <1>1, <1>2, ElementOfSeq DEF Last

LEMMA CloseLastTyped ==
    ASSUME ExecutionTypeOK, NEW j \in Jobs, NEW o \in Outcomes,
           NEW c \in FailureClasses \cup {"none"}, NEW at \in Time,
           CloseLast(j, o, c, at)
    PROVE  attempts' \in [Jobs -> Seq(Attempt)]
<1>1. CASE HasOpenAttempt(j)
  <2>1. attempts[j] # <<>>
    BY <1>1 DEF HasOpenAttempt
  <2> DEFINE e == [Last(j) EXCEPT !.finished = at, !.outcome = o, !.class = c]
  <2>2. e \in Attempt
    BY <2>1, LastTyped DEF Attempt
  <2>3. [attempts[j] EXCEPT ![Len(attempts[j])] = e] \in Seq(Attempt)
    BY <2>1, <2>2, LastTyped, ReplaceLast
  <2>4. attempts' = [attempts EXCEPT ![j] = [attempts[j] EXCEPT ![Len(attempts[j])] = e]]
    BY <1>1, <2>1, LastTyped DEF CloseLast, Last, ExecutionTypeOK
  <2> QED BY <2>3, <2>4 DEF ExecutionTypeOK
<1>2. CASE ~HasOpenAttempt(j)
  BY <1>2 DEF CloseLast, ExecutionTypeOK
<1> QED BY <1>1, <1>2

\* Changing the phase of the last attempt, with or without its intent.
LEMMA RewriteLastTyped ==
    ASSUME ExecutionTypeOK, NEW j \in Jobs, attempts[j] # <<>>, NEW e \in Attempt
    PROVE  [attempts EXCEPT ![j] = [attempts[j] EXCEPT ![Len(attempts[j])] = e]]
                \in [Jobs -> Seq(Attempt)]
BY LastTyped, ReplaceLast DEF ExecutionTypeOK

LEMMA InitTyped == ExecutionInit => ExecutionTypeOK
<1> SUFFICES ASSUME ExecutionInit PROVE ExecutionTypeOK
  OBVIOUS
<1>1. <<>> \in Seq(Attempt)
  BY EmptySeq
<1>2. attempts \in [Jobs -> Seq(Attempt)]
  BY <1>1 DEF ExecutionInit
<1>3. 0 \in Time
  BY RetryAssumption DEF Time
<1> QED BY <1>2, <1>3 DEF ExecutionInit, ExecutionTypeOK, JobStates, Waiting, BuildStates

LEMMA StepTyped == ExecutionTypeOK /\ [ExecutionNext]_executionVars => ExecutionTypeOK'
<1> SUFFICES ASSUME ExecutionTypeOK, [ExecutionNext]_executionVars PROVE ExecutionTypeOK'
  OBVIOUS
<1> USE DEF Guard, SetState
<1>1. ASSUME NEW j \in Jobs, NEW f \in Fence, NEW at \in Time, JobEvent(j, f, at)
      PROVE  ExecutionTypeOK'
  <2>1. CASE WaitDependencies(j, f, at)
    BY <2>1 DEF WaitDependencies, ExecutionTypeOK, JobStates, Waiting, buildVars
  <2>2. CASE Queue(j, f, at)
    BY <2>2 DEF Queue, ExecutionTypeOK, JobStates, Waiting, buildVars
  <2>3. CASE Cache(j, f, at)
    BY <2>3 DEF Cache, ExecutionTypeOK, JobStates, Finished, buildVars
  <2>4. ASSUME NEW u \in Jobs, Block(j, u, f, at) PROVE ExecutionTypeOK'
    BY <2>4 DEF Block, ExecutionTypeOK, JobStates, Finished, Unsuccessful, buildVars
  <2>5. ASSUME NEW a \in AttemptIds, StartAttempt(j, a, f, at) PROVE ExecutionTypeOK'
    <3> DEFINE e == [id |-> a, fence |-> fence[j], phase |-> "STARTING", started |-> at,
             finished |-> NoTime, outcome |-> "OPEN", class |-> "none",
             version |-> NoVersion]
    <3>1. e \in Attempt
      BY DEF Attempt, Phases, Outcomes, ExecutionTypeOK
    <3>2. Append(attempts[j], e) \in Seq(Attempt)
      BY <3>1, AppendProperties DEF ExecutionTypeOK
    <3>3. attempts' \in [Jobs -> Seq(Attempt)]
      BY <2>5, <3>2 DEF StartAttempt, ExecutionTypeOK
    <3> HIDE DEF e
    <3> QED BY <2>5, <3>3 DEF StartAttempt, ExecutionTypeOK, JobStates, Phases, buildVars
  <2>6. ASSUME NEW a \in AttemptIds, NEW p \in Phases, Advance(j, a, f, p, at)
        PROVE  ExecutionTypeOK'
    <3>1. attempts[j] # <<>>
      BY <2>6 DEF Advance, Active, HasOpenAttempt
    <3> DEFINE e == [Last(j) EXCEPT !.phase = p]
    <3>2. e \in Attempt
      BY <3>1, LastTyped DEF Attempt
    <3>3. attempts' = [attempts EXCEPT ![j] = [attempts[j] EXCEPT ![Len(attempts[j])] = e]]
      BY <2>6 DEF Advance, Last
    <3> HIDE DEF e
    <3>4. attempts' \in [Jobs -> Seq(Attempt)]
      BY <3>1, <3>2, <3>3, RewriteLastTyped
    <3> QED BY <2>6, <3>4 DEF Advance, ExecutionTypeOK, JobStates, buildVars
  <2>7. ASSUME NEW a \in AttemptIds, NEW c \in FailureClasses, Fail(j, a, f, c, at)
        PROVE  ExecutionTypeOK'
    <3>1. attempts' \in [Jobs -> Seq(Attempt)]
      BY <2>7, CloseLastTyped DEF Fail, Outcomes
    <3>2. state' \in [Jobs -> JobStates] /\ lastEvent' \in [Jobs -> Time]
      BY <2>7 DEF Fail, ExecutionTypeOK, JobStates, Finished, Unsuccessful
    <3>3. retryAt' \in [Jobs -> Time \cup {NoTime}]
      BY <2>7 DEF Fail, ExecutionTypeOK, Representable
    <3> QED BY <2>7, <3>1, <3>2, <3>3 DEF Fail, ExecutionTypeOK, buildVars
  <2>8. CASE FinishCanceled(j, f, at)
    <3>1. attempts' \in [Jobs -> Seq(Attempt)]
      BY <2>8, CloseLastTyped DEF FinishCanceled, Outcomes
    <3> QED BY <2>8, <3>1 DEF FinishCanceled, ExecutionTypeOK, JobStates, Finished, Unsuccessful, buildVars
  <2>9. ASSUME NEW a \in AttemptIds, NEW v \in Versions, PreparePublication(j, a, f, v, at)
        PROVE  ExecutionTypeOK'
    <3>1. attempts[j] # <<>>
      BY <2>9 DEF PreparePublication, Active, HasOpenAttempt
    <3> DEFINE e == [Last(j) EXCEPT !.phase = "COMMITTING", !.version = v]
    <3>2. e \in Attempt
      BY <3>1, LastTyped DEF Attempt, Phases
    <3>3. attempts' = [attempts EXCEPT ![j] = [attempts[j] EXCEPT ![Len(attempts[j])] = e]]
      BY <2>9 DEF PreparePublication, Last
    <3> HIDE DEF e
    <3>4. attempts' \in [Jobs -> Seq(Attempt)]
      BY <3>1, <3>2, <3>3, RewriteLastTyped
    <3> QED BY <2>9, <3>4 DEF PreparePublication, ExecutionTypeOK, JobStates, Phases, buildVars
  <2>10. ASSUME NEW a \in AttemptIds, NEW v \in Versions, NEW h \in 0..MaxHead,
                Commit(j, a, f, v, h, at)
         PROVE  ExecutionTypeOK'
    <3>1. attempts' \in [Jobs -> Seq(Attempt)]
      BY <2>10, CloseLastTyped DEF Commit, Outcomes
    <3> QED BY <2>10, <3>1 DEF Commit, ExecutionTypeOK, JobStates, Finished, buildVars
  <2>11. ASSUME NEW new \in Fence, InterruptForRecovery(j, new, at) PROVE ExecutionTypeOK'
    <3>1. attempts' \in [Jobs -> Seq(Attempt)]
      BY <2>11, CloseLastTyped DEF InterruptForRecovery, Outcomes
    <3> QED BY <2>11, <3>1
            DEF InterruptForRecovery, ExecutionTypeOK, JobStates, Finished, Unsuccessful, buildVars
  <2> QED BY <1>1, <2>1, <2>2, <2>3, <2>4, <2>5, <2>6, <2>7, <2>8, <2>9, <2>10, <2>11
          DEF JobEvent
<1>2. ASSUME NEW j \in Jobs, RequestCancel(j) PROVE ExecutionTypeOK'
  BY <1>2 DEF RequestCancel, ExecutionTypeOK, buildVars
<1>3. ASSUME NEW at \in Time, StartBuild(at) PROVE ExecutionTypeOK'
  BY <1>3 DEF StartBuild, ExecutionTypeOK, BuildStates, jobVars
<1>4. CASE RequestBuildCancel
  BY <1>4 DEF RequestBuildCancel, ExecutionTypeOK, jobVars
<1>5. ASSUME NEW at \in Time, FinishBuild(at) PROVE ExecutionTypeOK'
  BY <1>5 DEF FinishBuild, ExecutionTypeOK, BuildStates, jobVars, Verdict
<1>6. CASE UNCHANGED executionVars
  BY <1>6 DEF executionVars, jobVars, buildVars, ExecutionTypeOK
<1> QED BY <1>1, <1>2, <1>3, <1>4, <1>5, <1>6 DEF ExecutionNext

\* Every reachable state is well typed; in particular no retry time ever
\* overflows the representable times (Job::fail's checked addition).
THEOREM TypeCorrect == ExecutionSpec => []ExecutionTypeOK
BY InitTyped, StepTyped, PTL DEF ExecutionSpec

----------------------------------------------------------------------------
(* The four ways in which an accepted event changes its job.  The three     *)
(* results below only look at this shape of a step.                         *)

Others(j) == \A k \in Jobs : k # j =>
    /\ state'[k] = state[k] /\ attempts'[k] = attempts[k]
    /\ fence'[k] = fence[k] /\ lastEvent'[k] = lastEvent[k]
    /\ cancelRequested'[k] = cancelRequested[k]

\* No attempt is touched (wait, queue, cache, block).
Moved(j) == state[j] \notin Phases /\ state'[j] \notin Phases /\ attempts'[j] = attempts[j]

\* A fresh attempt is appended after closed ones.
Opened(j) ==
    /\ state[j] \notin Phases /\ state'[j] = "STARTING"
    /\ \E e \in Attempt : /\ e.outcome = "OPEN" /\ e.phase = "STARTING"
                          /\ attempts'[j] = Append(attempts[j], e)

\* The open attempt changes phase with its job.
Progressed(j) ==
    /\ state[j] \in Phases /\ state'[j] \in Phases
    /\ \E e \in Attempt : /\ e.outcome = "OPEN" /\ e.phase = state'[j]
                          /\ attempts'[j] = [attempts[j] EXCEPT ![Len(attempts[j])] = e]

\* The job leaves execution and whatever was open is closed.
Closed(j) ==
    /\ state'[j] \notin Phases
    /\ \/ ~HasOpenAttempt(j) /\ attempts'[j] = attempts[j]
       \/ HasOpenAttempt(j) /\ \E e \in Attempt :
            /\ e.outcome # "OPEN"
            /\ attempts'[j] = [attempts[j] EXCEPT ![Len(attempts[j])] = e]

LEMMA CloseLastCloses ==
    ASSUME ExecutionTypeOK, NEW j \in Jobs, NEW o \in Outcomes \ {"OPEN"},
           NEW c \in FailureClasses \cup {"none"}, NEW at \in Time,
           CloseLast(j, o, c, at), state'[j] \notin Phases
    PROVE  Closed(j) /\ \A k \in Jobs : k # j => attempts'[k] = attempts[k]
<1>1. CASE HasOpenAttempt(j)
  <2>1. attempts[j] # <<>>
    BY <1>1 DEF HasOpenAttempt
  <2> DEFINE e == [Last(j) EXCEPT !.finished = at, !.outcome = o, !.class = c]
  <2>2. e \in Attempt /\ e.outcome # "OPEN"
    BY <2>1, LastTyped DEF Attempt
  <2>3. attempts' = [attempts EXCEPT ![j] = [attempts[j] EXCEPT ![Len(attempts[j])] = e]]
    BY <1>1 DEF CloseLast, Last
  <2> HIDE DEF e
  <2>4. attempts'[j] = [attempts[j] EXCEPT ![Len(attempts[j])] = e]
    BY <2>3 DEF ExecutionTypeOK
  <2>5. \A k \in Jobs : k # j => attempts'[k] = attempts[k]
    BY <2>3 DEF ExecutionTypeOK
  <2> QED BY <1>1, <2>2, <2>4, <2>5 DEF Closed
<1>2. CASE ~HasOpenAttempt(j)
  BY <1>2 DEF CloseLast, Closed
<1> QED BY <1>1, <1>2

LEMMA ShapeOfEvent ==
    ASSUME ExecutionTypeOK, NEW j \in Jobs, NEW f \in Fence, NEW at \in Time,
           JobEvent(j, f, at)
    PROVE  /\ Moved(j) \/ Opened(j) \/ Progressed(j) \/ Closed(j)
           /\ state[j] \notin Finished /\ Others(j)
<1> USE DEF Guard, SetState
<1>1. CASE WaitDependencies(j, f, at)
  BY <1>1 DEF WaitDependencies, ExecutionTypeOK, Moved, Others, Phases
<1>2. CASE Queue(j, f, at)
  BY <1>2 DEF Queue, ExecutionTypeOK, Moved, Others, Phases
<1>3. CASE Cache(j, f, at)
  BY <1>3 DEF Cache, PreExecution, Waiting, ExecutionTypeOK, Moved, Others, Phases
<1>4. ASSUME NEW u \in Jobs, Block(j, u, f, at)
      PROVE  Moved(j) /\ state[j] \notin Finished /\ Others(j)
  BY <1>4 DEF Block, PreExecution, Waiting, ExecutionTypeOK, Moved, Others, Phases
<1>5. ASSUME NEW a \in AttemptIds, StartAttempt(j, a, f, at)
      PROVE  Opened(j) /\ state[j] \notin Finished /\ Others(j)
  <2> DEFINE e == [id |-> a, fence |-> fence[j], phase |-> "STARTING", started |-> at,
           finished |-> NoTime, outcome |-> "OPEN", class |-> "none",
           version |-> NoVersion]
  <2>1. e \in Attempt /\ e.outcome = "OPEN" /\ e.phase = "STARTING"
    BY DEF Attempt, Phases, Outcomes, ExecutionTypeOK
  <2>2. attempts' = [attempts EXCEPT ![j] = Append(attempts[j], e)]
    BY <1>5 DEF StartAttempt
  <2> HIDE DEF e
  <2>3. /\ attempts'[j] = Append(attempts[j], e)
        /\ \A k \in Jobs : k # j => attempts'[k] = attempts[k]
    BY <2>2 DEF ExecutionTypeOK
  <2>4. state[j] \notin Phases /\ state'[j] = "STARTING" /\ state[j] \notin Finished
    BY <1>5 DEF StartAttempt, ExecutionTypeOK, Phases
  <2>5. Others(j)
    BY <1>5, <2>3 DEF StartAttempt, ExecutionTypeOK, Others
  <2> QED BY <2>1, <2>3, <2>4, <2>5 DEF Opened
<1>6. ASSUME NEW a \in AttemptIds, NEW p \in Phases, Advance(j, a, f, p, at)
      PROVE  Progressed(j) /\ state[j] \notin Finished /\ Others(j)
  <2>1. attempts[j] # <<>> /\ Last(j).outcome = "OPEN" /\ state[j] \in Phases
    BY <1>6 DEF Advance, Active, HasOpenAttempt
  <2> DEFINE e == [Last(j) EXCEPT !.phase = p]
  <2>2. e \in Attempt /\ e.outcome = "OPEN" /\ e.phase = p
    BY <2>1, LastTyped DEF Attempt
  <2>3. attempts' = [attempts EXCEPT ![j] = [attempts[j] EXCEPT ![Len(attempts[j])] = e]]
    BY <1>6 DEF Advance, Last
  <2> HIDE DEF e
  <2>4. /\ attempts'[j] = [attempts[j] EXCEPT ![Len(attempts[j])] = e]
        /\ \A k \in Jobs : k # j => attempts'[k] = attempts[k]
    BY <2>3 DEF ExecutionTypeOK
  <2>5. state'[j] = p /\ state[j] \notin Finished /\ Others(j)
    BY <1>6, <2>4 DEF Advance, Active, ExecutionTypeOK, Others
  <2> QED BY <2>1, <2>2, <2>4, <2>5 DEF Progressed
<1>7. ASSUME NEW a \in AttemptIds, NEW c \in FailureClasses, Fail(j, a, f, c, at)
      PROVE  Closed(j) /\ state[j] \notin Finished /\ Others(j)
  <2>1. state'[j] \notin Phases
    BY <1>7 DEF Fail, ExecutionTypeOK, Phases
  <2>2. Closed(j) /\ \A k \in Jobs : k # j => attempts'[k] = attempts[k]
    BY <1>7, <2>1, CloseLastCloses DEF Fail, Outcomes
  <2> QED BY <1>7, <2>2 DEF Fail, Active, ExecutionTypeOK, Others
<1>8. CASE FinishCanceled(j, f, at)
  <2>1. state'[j] \notin Phases
    BY <1>8 DEF FinishCanceled, ExecutionTypeOK, Phases
  <2>2. Closed(j) /\ \A k \in Jobs : k # j => attempts'[k] = attempts[k]
    BY <1>8, <2>1, CloseLastCloses DEF FinishCanceled, Outcomes
  <2> QED BY <1>8, <2>2 DEF FinishCanceled, ExecutionTypeOK, Others
<1>9. ASSUME NEW a \in AttemptIds, NEW v \in Versions, PreparePublication(j, a, f, v, at)
      PROVE  Progressed(j) /\ state[j] \notin Finished /\ Others(j)
  <2>1. attempts[j] # <<>> /\ Last(j).outcome = "OPEN" /\ state[j] \in Phases
    BY <1>9 DEF PreparePublication, Active, HasOpenAttempt
  <2> DEFINE e == [Last(j) EXCEPT !.phase = "COMMITTING", !.version = v]
  <2>2. e \in Attempt /\ e.outcome = "OPEN" /\ e.phase = "COMMITTING"
    BY <2>1, LastTyped DEF Attempt, Phases
  <2>3. attempts' = [attempts EXCEPT ![j] = [attempts[j] EXCEPT ![Len(attempts[j])] = e]]
    BY <1>9 DEF PreparePublication, Last
  <2> HIDE DEF e
  <2>4. /\ attempts'[j] = [attempts[j] EXCEPT ![Len(attempts[j])] = e]
        /\ \A k \in Jobs : k # j => attempts'[k] = attempts[k]
    BY <2>3 DEF ExecutionTypeOK
  <2>5. state'[j] = "COMMITTING" /\ state[j] \notin Finished /\ Others(j)
    BY <1>9, <2>4 DEF PreparePublication, Active, ExecutionTypeOK, Others
  <2> QED BY <2>1, <2>2, <2>4, <2>5 DEF Progressed, Phases
<1>10. ASSUME NEW a \in AttemptIds, NEW v \in Versions, NEW h \in 0..MaxHead,
              Commit(j, a, f, v, h, at)
       PROVE  Closed(j) /\ state[j] \notin Finished /\ Others(j)
  <2>1. state'[j] \notin Phases
    BY <1>10 DEF Commit, ExecutionTypeOK, Phases
  <2>2. Closed(j) /\ \A k \in Jobs : k # j => attempts'[k] = attempts[k]
    BY <1>10, <2>1, CloseLastCloses DEF Commit, Outcomes
  <2> QED BY <1>10, <2>2 DEF Commit, Active, ExecutionTypeOK, Others
<1>11. ASSUME NEW new \in Fence, InterruptForRecovery(j, new, at)
       PROVE  Closed(j) /\ state[j] \notin Finished /\ Others(j)
  <2>1. state'[j] \notin Phases
    BY <1>11 DEF InterruptForRecovery, ExecutionTypeOK, Phases
  <2>2. Closed(j) /\ \A k \in Jobs : k # j => attempts'[k] = attempts[k]
    BY <1>11, <2>1, CloseLastCloses DEF InterruptForRecovery, Outcomes
  <2> QED BY <1>11, <2>2 DEF InterruptForRecovery, ExecutionTypeOK, Others
<1> QED BY <1>1, <1>2, <1>3, <1>4, <1>5, <1>6, <1>7, <1>8, <1>9, <1>10, <1>11 DEF JobEvent

----------------------------------------------------------------------------
(* Phases agree. *)

\* PhaseAgreement of one job, over its state and its attempts.
Agree(st, q) ==
    /\ (st \in Phases) <=> (q # <<>> /\ q[Len(q)].outcome = "OPEN")
    /\ (q # <<>> /\ q[Len(q)].outcome = "OPEN") => q[Len(q)].phase = st
    /\ \A i \in 1..Len(q) : i < Len(q) => q[i].outcome # "OPEN"

LEMMA EventAgrees ==
    ASSUME ExecutionTypeOK, NEW j \in Jobs, Agree(state[j], attempts[j]),
           Moved(j) \/ Opened(j) \/ Progressed(j) \/ Closed(j)
    PROVE  Agree(state'[j], attempts'[j])
<1> DEFINE q == attempts[j]
<1>0. q \in Seq(Attempt) /\ Len(q) \in Nat
  BY LenProperties DEF ExecutionTypeOK
<1>1. CASE Moved(j)
  BY <1>1 DEF Moved, Agree
<1>2. CASE Opened(j)
  <2>1. PICK e \in Attempt : /\ e.outcome = "OPEN" /\ e.phase = "STARTING"
                             /\ attempts'[j] = Append(q, e)
    BY <1>2 DEF Opened
  <2>2. /\ Len(Append(q, e)) = Len(q) + 1
        /\ Append(q, e)[Len(q) + 1] = e
        /\ \A i \in 1..Len(q) : Append(q, e)[i] = q[i]
        /\ Append(q, e) # <<>>
    BY <1>0, AppendProperties
  <2>3. \A i \in 1..Len(q) : q[i].outcome # "OPEN"
    BY <1>0, <1>2, EmptySeq DEF Opened, Agree
  <2> QED BY <1>0, <1>2, <2>1, <2>2, <2>3 DEF Opened, Agree, Phases
<1>3. CASE Progressed(j)
  <2>1. PICK e \in Attempt : /\ e.outcome = "OPEN" /\ e.phase = state'[j]
                             /\ attempts'[j] = [q EXCEPT ![Len(q)] = e]
    BY <1>3 DEF Progressed
  <2>2. q # <<>>
    BY <1>3 DEF Progressed, Agree
  <2> QED BY <1>0, <1>3, <2>1, <2>2, ReplaceLast DEF Agree, Progressed
<1>4. CASE Closed(j)
  <2>1. CASE ~HasOpenAttempt(j) /\ attempts'[j] = q
    BY <1>4, <2>1 DEF Closed, Agree, HasOpenAttempt, Last
  <2>2. ASSUME HasOpenAttempt(j), NEW e \in Attempt, e.outcome # "OPEN",
               attempts'[j] = [q EXCEPT ![Len(q)] = e]
        PROVE  Agree(state'[j], attempts'[j])
    <3>1. q # <<>>
      BY <2>2 DEF HasOpenAttempt
    <3> QED BY <1>0, <1>4, <2>2, <3>1, ReplaceLast DEF Agree, Closed
  <2> QED BY <1>4, <2>1, <2>2 DEF Closed
<1> QED BY <1>1, <1>2, <1>3, <1>4

LEMMA StepAgrees == ExecutionTypeOK /\ PhaseAgreement /\ [ExecutionNext]_executionVars => PhaseAgreement'
<1> SUFFICES ASSUME ExecutionTypeOK, \A j \in Jobs : Agree(state[j], attempts[j]), [ExecutionNext]_executionVars
             PROVE  \A j \in Jobs : Agree(state'[j], attempts'[j])
  BY DEF PhaseAgreement, Agree, HasOpenAttempt, Last
<1>1. ASSUME NEW j \in Jobs, NEW f \in Fence, NEW at \in Time, JobEvent(j, f, at)
      PROVE  \A k \in Jobs : Agree(state'[k], attempts'[k])
  BY <1>1, ShapeOfEvent, EventAgrees DEF Others
<1>2. CASE UNCHANGED <<state, attempts>>
  BY <1>2
<1> QED BY <1>1, <1>2 DEF ExecutionNext, RequestCancel, StartBuild, RequestBuildCancel,
           FinishBuild, executionVars, jobVars, buildVars

\* A job executes a phase exactly while its last attempt is open in that phase
\* (Job.state against Attempt.phase), for any number of attempts.
THEOREM PhasesAgree == ExecutionSpec => []PhaseAgreement
<1>1. ExecutionInit => PhaseAgreement
  BY DEF ExecutionInit, PhaseAgreement, HasOpenAttempt, Phases
<1> QED BY <1>1, InitTyped, StepTyped, StepAgrees, PTL DEF ExecutionSpec

----------------------------------------------------------------------------
(* Terminal evidence, cancellation and the verdict of the build. *)

\* The body of EvidenceImmutable.
Kept ==
    \A j \in Jobs :
        /\ Len(attempts'[j]) >= Len(attempts[j])
        /\ \A i \in 1..Len(attempts[j]) :
            attempts[j][i].outcome # "OPEN" => attempts'[j][i] = attempts[j][i]
        /\ state[j] \in Finished =>
            /\ state'[j] = state[j] /\ attempts'[j] = attempts[j]
            /\ fence'[j] = fence[j] /\ lastEvent'[j] = lastEvent[j]

LEMMA StepKeeps == ExecutionTypeOK /\ PhaseAgreement /\ [ExecutionNext]_executionVars => Kept
<1> SUFFICES ASSUME ExecutionTypeOK, PhaseAgreement, [ExecutionNext]_executionVars PROVE Kept
  OBVIOUS
<1>0. \A k \in Jobs : Len(attempts[k]) \in Nat
  BY LenProperties DEF ExecutionTypeOK
<1>1. ASSUME NEW j \in Jobs, NEW f \in Fence, NEW at \in Time, JobEvent(j, f, at)
      PROVE  Kept
  <2>1. /\ Moved(j) \/ Opened(j) \/ Progressed(j) \/ Closed(j)
        /\ state[j] \notin Finished /\ Others(j)
    BY <1>1, ShapeOfEvent
  <2> DEFINE Grows == /\ Len(attempts'[j]) >= Len(attempts[j])
                      /\ \A i \in 1..Len(attempts[j]) :
                            attempts[j][i].outcome # "OPEN" =>
                                attempts'[j][i] = attempts[j][i]
  <2>2. ASSUME attempts'[j] = attempts[j] PROVE Grows
    BY <1>0, <2>2
  <2>3. ASSUME NEW e \in Attempt, attempts'[j] = Append(attempts[j], e) PROVE Grows
    <3>1. attempts[j] \in Seq(Attempt)
      BY DEF ExecutionTypeOK
    <3>2. /\ Len(Append(attempts[j], e)) = Len(attempts[j]) + 1
          /\ \A i \in 1..Len(attempts[j]) : Append(attempts[j], e)[i] = attempts[j][i]
      BY <3>1, AppendProperties
    <3> QED BY <1>0, <2>3, <3>2
  <2>4. ASSUME HasOpenAttempt(j), NEW e \in Attempt,
               attempts'[j] = [attempts[j] EXCEPT ![Len(attempts[j])] = e]
        PROVE  Grows
    <3>1. attempts[j] \in Seq(Attempt) /\ attempts[j] # <<>>
      BY <2>4 DEF HasOpenAttempt, ExecutionTypeOK
    <3>2. attempts[j][Len(attempts[j])].outcome = "OPEN"
      BY <2>4 DEF HasOpenAttempt, Last
    <3> QED BY <1>0, <2>4, <3>1, <3>2, ReplaceLast
  <2>5. Grows
    <3>1. CASE Moved(j)
      BY <3>1, <2>2 DEF Moved
    <3>2. CASE Opened(j)
      BY <3>2, <2>3 DEF Opened
    <3>3. CASE Progressed(j)
      BY <3>3, <2>4 DEF Progressed, PhaseAgreement
    <3>4. CASE Closed(j)
      BY <3>4, <2>2, <2>4 DEF Closed
    <3> QED BY <2>1, <3>1, <3>2, <3>3, <3>4
  <2> QED BY <1>0, <2>1, <2>5 DEF Others, Kept
<1>2. CASE UNCHANGED <<state, attempts, fence, lastEvent>>
  BY <1>0, <1>2 DEF Kept
<1> QED BY <1>1, <1>2 DEF ExecutionNext, RequestCancel, StartBuild, RequestBuildCancel,
           FinishBuild, executionVars, jobVars, buildVars

\* No later event, of any caller, rewrites a closed attempt or a finished job
\* (the checks of Job::guard and Job::active).
THEOREM EvidenceIsImmutable == ExecutionSpec => EvidenceImmutable
<1>1. ExecutionTypeOK /\ PhaseAgreement /\ [ExecutionNext]_executionVars =>
        [\A j \in Jobs :
            /\ Len(attempts'[j]) >= Len(attempts[j])
            /\ \A i \in 1..Len(attempts[j]) :
                attempts[j][i].outcome # "OPEN" => attempts'[j][i] = attempts[j][i]
            /\ state[j] \in Finished =>
                /\ state'[j] = state[j] /\ attempts'[j] = attempts[j]
                /\ fence'[j] = fence[j] /\ lastEvent'[j] = lastEvent[j]]_executionVars
  BY StepKeeps DEF Kept
<1> QED BY <1>1, TypeCorrect, PhasesAgree, PTL DEF ExecutionSpec, EvidenceImmutable

LEMMA StepExcludes ==
    ExecutionTypeOK /\ CancelExcludesSuccess /\ [ExecutionNext]_executionVars => CancelExcludesSuccess'
<1> SUFFICES ASSUME ExecutionTypeOK, CancelExcludesSuccess, [ExecutionNext]_executionVars
             PROVE  CancelExcludesSuccess'
  OBVIOUS
<1> USE DEF CancelExcludesSuccess, Guard, SetState
<1>1. ASSUME NEW j \in Jobs, NEW f \in Fence, NEW at \in Time, JobEvent(j, f, at)
      PROVE  CancelExcludesSuccess'
  <2>1. \A k \in Jobs : k # j =>
            state'[k] = state[k] /\ cancelRequested'[k] = cancelRequested[k]
    BY <1>1, ShapeOfEvent DEF Others
  <2>2. cancelRequested'[j] => state'[j] \notin {"SUCCEEDED", "CACHED"}
    BY <1>1, ZenonT(40) DEF JobEvent, WaitDependencies, Queue, Cache, Block, StartAttempt, Advance,
                Fail, FinishCanceled, PreparePublication, Commit, InterruptForRecovery,
                Active, ExecutionTypeOK, Phases
  <2> QED BY <2>1, <2>2
<1>2. ASSUME NEW j \in Jobs, RequestCancel(j) PROVE CancelExcludesSuccess'
  BY <1>2 DEF RequestCancel, Finished, ExecutionTypeOK
<1>3. CASE UNCHANGED <<state, cancelRequested>>
  BY <1>3
<1> QED BY <1>1, <1>2, <1>3 DEF ExecutionNext, StartBuild, RequestBuildCancel, FinishBuild,
           executionVars, jobVars, buildVars

\* A recorded cancellation and a success (or a cache hit) exclude each other,
\* in whichever order they arrive.
THEOREM CancelNeverSucceeds == ExecutionSpec => []CancelExcludesSuccess
<1>1. ExecutionInit => CancelExcludesSuccess
  BY DEF ExecutionInit, CancelExcludesSuccess
<1> QED BY <1>1, TypeCorrect, StepExcludes, PTL DEF ExecutionSpec

LEMMA StepKeepsVerdict == ExecutionTypeOK /\ BuildVerdict /\ [ExecutionNext]_executionVars => BuildVerdict'
<1> SUFFICES ASSUME ExecutionTypeOK, BuildVerdict, [ExecutionNext]_executionVars PROVE BuildVerdict'
  OBVIOUS
<1>1. ASSUME NEW j \in Jobs, NEW f \in Fence, NEW at \in Time, JobEvent(j, f, at)
      PROVE  BuildVerdict'
  <2>1. buildState \notin BuildTerminal
    BY <1>1, ShapeOfEvent DEF BuildVerdict
  <2>2. buildState' = buildState
    BY <1>1 DEF JobEvent, WaitDependencies, Queue, Cache, Block, StartAttempt, Advance,
                Fail, FinishCanceled, PreparePublication, Commit, InterruptForRecovery,
                buildVars
  <2> QED BY <2>1, <2>2 DEF BuildVerdict
<1>2. ASSUME NEW at \in Time, FinishBuild(at) PROVE BuildVerdict'
  <2>1. state' = state /\ lastEvent' = lastEvent /\ buildLast' = at
    BY <1>2 DEF FinishBuild, jobVars
  <2>2. \A k \in Jobs : state[k] \in Finished /\ lastEvent[k] <= at
    BY <1>2 DEF FinishBuild
  <2>3. Mandatory \subseteq Jobs /\ buildState' = Verdict(state)
    BY <1>2, JobsAssumption DEF FinishBuild
  <2> QED BY <2>1, <2>2, <2>3 DEF BuildVerdict, Verdict, Finished, Unsuccessful
<1>3. CASE UNCHANGED <<state, lastEvent, buildLast, buildState>>
  BY <1>3 DEF BuildVerdict
<1>4. ASSUME NEW at \in Time, StartBuild(at) PROVE BuildVerdict'
  BY <1>4 DEF StartBuild, BuildVerdict, BuildTerminal
<1> QED BY <1>1, <1>2, <1>3, <1>4 DEF ExecutionNext, RequestCancel, RequestBuildCancel,
           executionVars, jobVars, buildVars

\* The verdict of a finished build is the verdict of its mandatory jobs, and no
\* later call makes the two disagree (Build::finish).
THEOREM VerdictKept == ExecutionSpec => []BuildVerdict
<1>1. ExecutionInit => BuildVerdict
  BY DEF ExecutionInit, BuildVerdict, BuildTerminal
<1> QED BY <1>1, TypeCorrect, StepKeepsVerdict, PTL DEF ExecutionSpec

-----------------------------------------------------------------------------
(* Supervision. *)


-----------------------------------------------------------------------------
(* The types. *)

LEMMA Scripted == Len(Script) = 6 /\ \A n \in 1..6 : Script[n] \in Frame
BY DEF Script, Frame

\* A process that is moved, or that ends with a code, is a process.
LEMMA ThreadsKept ==
  ASSUME TypeOK, NEW w \in Workers, NEW at \in Places
  PROVE  /\ proc[w] \in ProcessRow /\ [proc[w] EXCEPT !.at = at] \in ProcessRow
         /\ [proc EXCEPT ![w].at = at] \in [Workers -> ProcessRow]
         /\ \A code \in {0, 1} :
              [proc EXCEPT ![w] = [@ EXCEPT !.at = at, !.code = code]] \in [Workers -> ProcessRow]
<1>1. proc[w] \in ProcessRow /\ proc \in [Workers -> ProcessRow]
  BY DEF TypeOK
<1>2. proc[w] = [at |-> proc[w].at, said |-> proc[w].said, code |-> proc[w].code]
      /\ proc[w].said \in 0..Len(Script) /\ proc[w].code \in {0, 1}
  BY <1>1 DEF ProcessRow
<1>3. \A code \in {0, 1} : [proc[w] EXCEPT !.at = at, !.code = code] \in ProcessRow
  BY <1>2 DEF ProcessRow
<1>4. [proc[w] EXCEPT !.at = at] \in ProcessRow
  BY <1>2 DEF ProcessRow
<1>5. [proc EXCEPT ![w].at = at] = [proc EXCEPT ![w] = [proc[w] EXCEPT !.at = at]]
  BY <1>1
<1> QED
  BY <1>1, <1>3, <1>4, <1>5

\* Every step keeps the types: the thread's, the process's and the session's.
LEMMA TypeStep == TypeOK /\ [Next]_vars => TypeOK'
<1> SUFFICES ASSUME TypeOK, [Next]_vars PROVE TypeOK'
  OBVIOUS
<1> USE Parameters
<1>0. CASE UNCHANGED vars
  BY <1>0 DEF TypeOK, vars, sessions, thread, process
<1>1. CASE Acquire
  BY <1>1 DEF Acquire, TypeOK, thread, process
<1>2. CASE Startup
  <2>1. CASE FenceBuilds \/ Reconcile
    BY <1>2, <2>1 DEF FenceBuilds, Reconcile, TypeOK, thread, process
  <2>2. ASSUME NEW w \in Workers, StopStale(w) \/ StopWorker(w) \/ StopFails(w) PROVE TypeOK'
    <3>1. [proc EXCEPT ![w].at = "gone"] \in [Workers -> ProcessRow]
      BY ThreadsKept DEF Places
    <3> QED
      BY <2>2, <3>1 DEF StopStale, StopWorker, StopFails, Forget, Set, TypeOK, sessions, thread, process
  <2> QED
    BY <1>2, <2>1, <2>2 DEF Startup
<1>3. CASE Crash
  <2>1. Lose \in [Workers -> Threads]
    BY SMTT(30) DEF Lose, TypeOK, Threads
  <2>2. \A w \in Workers : [proc[w] EXCEPT !.at = "gone"] \in ProcessRow /\ proc[w] \in ProcessRow
    BY ThreadsKept DEF Places
  <2>3. proc' \in [Workers -> ProcessRow]
    BY <1>3, <2>2 DEF Crash
  <2> QED
    BY <1>3, <2>1, <2>3 DEF Crash, TypeOK
<1>4. CASE Stop \/ Rest
  BY <1>4 DEF Stop, Rest, TypeOK, vars, sessions, thread, process
<1>5. ASSUME NEW w \in Workers, Persist(w) PROVE TypeOK'
  BY <1>5 DEF Persist, Set, TypeOK, sessions, process, Threads
<1>6. ASSUME NEW w \in Workers, Supervise(w) PROVE TypeOK'
  <2>1. CASE Identify(w)
    <3>1. [proc EXCEPT ![w].at = "gone"] \in [Workers -> ProcessRow]
      BY ThreadsKept DEF Places
    <3> QED
      BY <2>1, <3>1 DEF Identify, Set, TypeOK, sessions, process, Threads
  <2>2. CASE Spawn(w)
    <3>1. Process("started") \in ProcessRow
      BY Scripted DEF Process, ProcessRow, Places, Alive
    <3> QED
      <4>1. proc' \in [Workers -> ProcessRow]
        BY <2>2, <3>1, ZenonT(40) DEF Spawn, Set, TypeOK
      <4>2. DOMAIN result' = Workers /\ sup' \in [Workers -> Threads]
        BY <2>2 DEF Spawn, Set, TypeOK, Threads
      <4> QED
        BY <2>2, <4>1, <4>2 DEF Spawn, TypeOK, sessions
  <2>3. CASE Loop(w)
    <3>1. ASSUME NEW o, Cut(w, o) PROVE TypeOK'
      BY <3>1 DEF Cut, Ends, Still, Set, TypeOK, sessions, Threads
    <3>2. CASE Accept(w) \/ Reset(w) \/ Succeeds(w)
      BY <3>2, ZenonT(40) DEF Accept, Reset, Succeeds, Ends, Still, Set, TypeOK, sessions, Threads
    <3>3. CASE Read(w)
      <4> DEFINE f == Head(frames[w])
      <4>1. f \in Frame /\ Tail(frames[w]) \in Seq(Frame)
        BY <3>3 DEF Read, TypeOK
      <4>2. f \in {"hello", "setup", "running", "materializing", "ready", "completed", "error"}
        BY <4>1 DEF Frame, Script
      <4>3. Learnt(heard[w], f) \in Knowledge
        <5>1. heard[w] \in Knowledge
          BY DEF TypeOK
        <5>2. \A p \in {0, 2, 3} : [heard[w] EXCEPT !.phase = p] \in Knowledge
          BY <5>1 DEF Knowledge
        <5>3. /\ [heard[w] EXCEPT !.hello = TRUE] \in Knowledge
              /\ [heard[w] EXCEPT !.ready = TRUE] \in Knowledge
              /\ \A t \in {"completed", "error"} : [heard[w] EXCEPT !.terminal = t] \in Knowledge
          BY <5>1 DEF Knowledge
        <5>4. DOMAIN Rank = {"setup", "running", "materializing"} /\ \A g \in DOMAIN Rank : Rank[g] \in {0, 2, 3}
          BY DEF Rank
        <5>5. CASE f \in DOMAIN Rank
          BY <5>2, <5>4, <5>5 DEF Learnt
        <5>6. CASE f \in {"hello", "ready", "completed", "error"}
          BY <5>3, <5>4, <5>6 DEF Learnt
        <5> QED
          BY <4>2, <5>4, <5>5, <5>6
      <4> QED
        BY <3>3, <4>1, <4>3 DEF Read, Ends, Still, Set, TypeOK, sessions, Threads
    <3>4. CASE ReadEnd(w)
      BY <3>4, ZenonT(40) DEF ReadEnd, Still, Set, TypeOK, sessions, Knowledge
    <3> QED
      BY <2>3, <3>1, <3>2, <3>3, <3>4
      DEF Loop, Canceled, PhaseDeadline, StartupDeadline, TerminalGrace, ExitBound
  <2>4. CASE Term(w)
    <3>1. Set(proc, w, Ended(w, 1)) \in [Workers -> ProcessRow]
      BY ThreadsKept DEF Places, Set, Ended
    <3>2. proc' \in [Workers -> ProcessRow]
      BY <2>4, <3>1 DEF Term, TypeOK
    <3> QED
      BY <2>4, <3>2 DEF Term, Set, TypeOK, sessions, Threads
  <2>5. CASE KillAndReap(w)
    <3>1. [proc EXCEPT ![w].at = "gone"] \in [Workers -> ProcessRow]
      BY ThreadsKept DEF Places
    <3>2. <<>> \in Seq(Frame)
      OBVIOUS
    <3> QED
      BY <2>5, <3>1, <3>2 DEF KillAndReap, Spared, Set, TypeOK, sessions, Threads
  <2>6. CASE Remove(w)
    BY <2>6 DEF Remove, Set, TypeOK, sessions, process, Threads
  <2> QED
    BY <1>6, <2>1, <2>2, <2>3, <2>4, <2>5, <2>6 DEF Supervise
<1>7. ASSUME NEW w \in Workers, Pass(w) \/ Cancel(w) PROVE TypeOK'
  <2>1. CASE Pass(w)
    <3>1. used[w] + 1 \in 0..Limit
      BY <2>1 DEF Pass, TypeOK
    <3> QED
      BY <2>1, <3>1 DEF Pass, Still, TypeOK, sessions
  <2>2. CASE Cancel(w)
    BY <2>2 DEF Cancel, Set, TypeOK, sessions, process
  <2> QED
    BY <1>7, <2>1, <2>2
<1>8. ASSUME NEW w \in Workers, Run(w) PROVE TypeOK'
  <2>r. Reap(w) \in Places /\ {"listening", "sent", "running", "gone"} \subseteq Places
    BY DEF Reap, Places, Alive
  <2>1. CASE Bind(w) \/ Connect(w) \/ Import(w) \/ Rejected(w)
    <3>1. \A at \in {"listening", "sent", "running"} : [proc EXCEPT ![w].at = at] \in [Workers -> ProcessRow]
      BY <2>r, ThreadsKept
    <3>2. [proc EXCEPT ![w] = [@ EXCEPT !.at = Reap(w), !.code = 1]] \in [Workers -> ProcessRow]
      BY <2>r, ThreadsKept
    <3>3. proc' \in [Workers -> ProcessRow] /\ UNCHANGED <<child, frames>> /\ Elsewhere
      BY <2>1, <3>1, <3>2 DEF Bind, Connect, Import, Rejected, Becomes, Fails
    <3> QED
      BY <3>3, SMTT(30) DEF Elsewhere, TypeOK, sessions, thread
  <2>2. CASE Fork(w) \/ Disconnected(w)
    <3>1. [proc EXCEPT ![w].at = "gone"] \in [Workers -> ProcessRow]
      BY <2>r, ThreadsKept
    <3> QED
      BY <2>2, <3>1 DEF Fork, Disconnected, Set, Elsewhere, TypeOK, sessions, thread
  <2>3. CASE Send(w)
    <3>1. proc[w] \in ProcessRow /\ proc[w].said \in 0..5
      BY <2>3, Scripted DEF Send, TypeOK, ProcessRow
    <3>2. \A f \in {Script[proc[w].said + 1], "error", "completed"} : f \in Frame
      BY <3>1, Scripted DEF Frame, Script
    <3>3. \A f \in Frame : Append(frames[w], f) \in Seq(Frame)
      BY DEF TypeOK
    <3>4. frames' \in [Workers -> Seq(Frame)]
      <4>1. \A f \in Frame : Set(frames, w, Append(frames[w], f)) \in [Workers -> Seq(Frame)]
        BY <3>3 DEF Set, TypeOK
      <4> QED
        BY <2>3, <3>2, <4>1 DEF Send
    <3>5. proc' \in [Workers -> ProcessRow]
      <4>0. proc[w] = [at |-> proc[w].at, said |-> proc[w].said, code |-> proc[w].code]
            /\ proc[w].said + 1 \in 0..Len(Script)
        BY <3>1, Scripted DEF ProcessRow
      <4>1. [proc[w] EXCEPT !.said = @ + 1] \in ProcessRow
        <5>1. [proc[w] EXCEPT !.said = @ + 1]
              = [at |-> proc[w].at, said |-> proc[w].said + 1, code |-> proc[w].code]
          BY <4>0
        <5> QED
          BY <3>1, <4>0, <5>1 DEF ProcessRow
      <4>2. [proc[w] EXCEPT !.said = Len(Script), !.code = 1] \in ProcessRow
        <5>1. ASSUME NEW said \in 0..Len(Script)
              PROVE  [proc[w] EXCEPT !.said = said, !.code = 1] \in ProcessRow
          <6>1. proc[w].at \in Places
            BY <3>1 DEF ProcessRow
          <6> QED
            BY <4>0, <6>1 DEF ProcessRow
        <5> QED
          BY <5>1, Scripted
      <4>3. proc' = [proc EXCEPT ![w] = [proc[w] EXCEPT !.said = @ + 1]]
            \/ proc' = [proc EXCEPT ![w] = [proc[w] EXCEPT !.said = Len(Script), !.code = 1]]
        BY <2>3 DEF Send, TypeOK
      <4> QED
        BY <4>1, <4>2, <4>3 DEF TypeOK
    <3> QED
      BY <2>3, <3>4, <3>5 DEF Send, Elsewhere, TypeOK, sessions, thread
  <2>4. CASE Leave(w)
    <3>1. \E code \in {0, 1} : proc' = [proc EXCEPT ![w] = [@ EXCEPT !.at = Reap(w), !.code = code]]
      BY <2>4 DEF Leave, TypeOK, ProcessRow
    <3> QED
      <4>0. \A code \in {0, 1} :
              [proc EXCEPT ![w] = [@ EXCEPT !.at = Reap(w), !.code = code]] \in [Workers -> ProcessRow]
        BY <2>r, ThreadsKept
      <4>1. proc' \in [Workers -> ProcessRow]
        BY <3>1, <4>0
      <4> QED
        BY <2>4, <4>1, SMTT(30) DEF Leave, Elsewhere, TypeOK, sessions, thread
  <2> QED
    BY <1>8, <2>1, <2>2, <2>3, <2>4 DEF Run
<1> QED
  BY <1>0, <1>1, <1>2, <1>3, <1>4, <1>5, <1>6, <1>7, <1>8 DEF Next

LEMMA TypeInit == Init => TypeOK
<1> SUFFICES ASSUME Init PROVE TypeOK
  OBVIOUS
<1>1. Nothing \in Knowledge
  BY DEF Nothing, Knowledge
<1>2. Process("none") \in ProcessRow
  BY Scripted DEF Process, ProcessRow, Places
<1>3. <<>> \in Seq(Frame)
  OBVIOUS
<1> QED
  BY <1>1, <1>2, <1>3, Parameters DEF Init, TypeOK, Threads

-----------------------------------------------------------------------------
(* No orphan.  What a thread has done of a launch says how far its process and
   its record are; a process may run authored code only once its record is
   whole, and startup leaves no record of an earlier session. *)

Stage(w) ==
    /\ launched[w] <= session
    /\ Supervised(w) => coord = "ready" /\ launched[w] = session
    /\ sup[w] \in {"idle", "recorded"} => proc[w].at = "none"
    /\ sup[w] \in {"idle", "recorded", "spawned"} => link[w] = "none"
    /\ sup[w] = "idle" => record[w] = "none"
    /\ sup[w] = "loop" => record[w] = "full"
    /\ sup[w] \in {"reaped", "done"} => proc[w].at \in {"none", "gone"}
    /\ link[w] = "acknowledged" => proc[w].at \in {"sent", "running", "exited", "gone"}
\* It runs authored code, or is about to: it has been answered.
Free(w) == proc[w].at = "running" \/ (proc[w].at = "sent" /\ link[w] = "acknowledged")
Recorded(w) == Free(w) => record[w] = "full"
Swept(w) == coord = "ready" /\ launched[w] < session => record[w] = "none"
\* Only a worker that has been answered starts others; they end with it, except
\* where nobody of its session is left.
Answered(w) == proc[w].at = "running" \/ child[w] => link[w] = "acknowledged"
Descends(w) == proc[w].at = "gone" /\ child[w] => sup[w] = "lost"
Owner(w) == Stage(w) /\ Recorded(w) /\ Swept(w) /\ Answered(w) /\ Descends(w)

LEMMA ProcessOf ==
  ASSUME TypeOK, NEW w \in Workers
  PROVE  /\ proc[w] = [at |-> proc[w].at, said |-> proc[w].said, code |-> proc[w].code]
         /\ proc[w].at \in Places /\ proc[w].said \in 0..6 /\ proc[w].code \in {0, 1}
         /\ w \in DOMAIN proc
BY Scripted DEF TypeOK, ProcessRow

LEMMA AtOf ==
  ASSUME TypeOK, NEW w \in Workers, NEW at, proc' = [proc EXCEPT ![w].at = at]
  PROVE  /\ proc'[w].at = at /\ proc'[w].said = proc[w].said /\ proc'[w].code = proc[w].code
         /\ \A v \in Workers \ {w} : proc'[v] = proc[v]
<1>1. proc \in [Workers -> ProcessRow]
  BY DEF TypeOK
<1>2. proc'[w] = [proc[w] EXCEPT !.at = at] /\ \A v \in Workers \ {w} : proc'[v] = proc[v]
  BY <1>1
<1>3. [proc[w] EXCEPT !.at = at] = [at |-> at, said |-> proc[w].said, code |-> proc[w].code]
  <2>1. proc[w] = [at |-> proc[w].at, said |-> proc[w].said, code |-> proc[w].code]
    BY ProcessOf
  <2> QED
    BY <2>1
<1> QED
  BY <1>2, <1>3

\* A step of one directory leaves the others and the session alone.
LEMMA Apart ==
  ASSUME TypeOK, NEW w \in Workers, NEW v \in Workers, v # w,
         Persist(w) \/ Supervise(w) \/ Pass(w) \/ Cancel(w) \/ Run(w)
  PROVE  UNCHANGED <<sessions, record[v], sup[v], result[v], launched[v], link[v], heard[v], proc[v],
                     frames[v], interrupted[v], child[v]>>
<1>t. /\ v \in DOMAIN record /\ v \in DOMAIN sup /\ v \in DOMAIN result /\ v \in DOMAIN launched
      /\ v \in DOMAIN link /\ v \in DOMAIN heard /\ v \in DOMAIN proc /\ v \in DOMAIN frames
      /\ v \in DOMAIN interrupted /\ v \in DOMAIN child
  BY DEF TypeOK
<1>1. CASE Persist(w) \/ Pass(w) \/ Cancel(w)
  BY <1>t, <1>1 DEF Persist, Pass, Cancel, Still, Set, sessions, process
<1>2. CASE Supervise(w)
  <2>1. ASSUME NEW o, Cut(w, o)
        PROVE  UNCHANGED <<sessions, record[v], sup[v], result[v], launched[v], link[v], heard[v], proc[v],
                           frames[v], interrupted[v], child[v]>>
    BY <1>t, <2>1 DEF Cut, Ends, Still, Set, sessions
  <2>2. CASE Canceled(w) \/ PhaseDeadline(w) \/ StartupDeadline(w) \/ TerminalGrace(w) \/ ExitBound(w)
    BY <2>1, <2>2, Zenon DEF Canceled, PhaseDeadline, StartupDeadline, TerminalGrace, ExitBound
  <2>3. CASE Accept(w) \/ Reset(w) \/ Succeeds(w) \/ ReadEnd(w)
    BY <1>t, <2>3 DEF Accept, Reset, Succeeds, ReadEnd, Ends, Still, Set, sessions
  <2>4. CASE Read(w)
    BY <1>t, <2>4 DEF Read, Ends, Still, Set, sessions
  <2>5. CASE Identify(w) \/ Spawn(w)
    BY <1>t, <2>5 DEF Identify, Spawn, Set, sessions, process
  <2>6. CASE Term(w) \/ KillAndReap(w) \/ Remove(w)
    BY <1>t, <2>6 DEF Term, KillAndReap, Remove, Set, sessions, process
  <2> QED
    BY <1>2, <2>2, <2>3, <2>4, <2>5, <2>6 DEF Supervise, Loop
<1>3. CASE Run(w)
  <2>1. CASE Bind(w) \/ Connect(w) \/ Import(w) \/ Rejected(w) \/ Fork(w) \/ Disconnected(w)
    BY <1>t, <2>1 DEF Bind, Connect, Import, Rejected, Fork, Disconnected, Becomes, Fails, Elsewhere, Set,
      sessions, thread
  <2>2. CASE Send(w)
    BY <1>t, <2>2 DEF Send, Elsewhere, Set, sessions, thread
  <2>3. CASE Leave(w)
    <3>1. \E row : proc' = [proc EXCEPT ![w] = row]
      BY <2>3 DEF Leave
    <3> QED
      BY <1>t, <2>3, <3>1 DEF Leave, Elsewhere, sessions, thread
  <2> QED
    BY <1>3, <2>1, <2>2, <2>3 DEF Run
<1> QED
  BY <1>1, <1>2, <1>3

\* A directory no step touches, while the session stays, is as it was.
LEMMA OwnerSame ==
  ASSUME NEW v, Owner(v),
         UNCHANGED <<sessions, record[v], sup[v], launched[v], link[v], proc[v], child[v]>>
  PROVE  Owner(v)'
BY DEF Owner, Stage, Free, Recorded, Swept, Answered, Descends, Supervised, sessions

\* A thread keeps it, from the record it writes before it launches to the one it
\* removes after it has reaped.
LEMMA OwnerSupervise ==
  ASSUME TypeOK, NEW w \in Workers, Owner(w), Persist(w) \/ Supervise(w) \/ Pass(w) \/ Cancel(w)
  PROVE  Owner(w)'
<1> USE DEF Owner, Stage, Free, Recorded, Swept, Answered, Descends, Supervised
<1>t. /\ session \in Nat /\ launched[w] \in Nat /\ launched[w] \in 0..MaxSession
      /\ w \in DOMAIN record /\ w \in DOMAIN sup /\ w \in DOMAIN launched /\ w \in DOMAIN link
      /\ w \in DOMAIN proc /\ sup[w] \in Threads /\ w \in DOMAIN child /\ child[w] \in BOOLEAN
      /\ proc[w] = [at |-> proc[w].at, said |-> proc[w].said, code |-> proc[w].code]
  BY Parameters, ProcessOf DEF TypeOK
<1>1. CASE Persist(w)
  BY <1>1, <1>t DEF Persist, Set, sessions, process
<1>2. CASE Identify(w)
  BY <1>2, <1>t DEF Identify, Set, sessions, process
<1>3. CASE Spawn(w)
  BY <1>3, <1>t DEF Spawn, Process, Set, sessions
<1>4. CASE Loop(w)
  <2>1. /\ sup[w] = "loop" /\ sup'[w] \in {"loop", "term"} /\ Still
        /\ link'[w] = link[w] \/ (proc[w].at = "sent" /\ link'[w] = "acknowledged")
    BY <1>4, <1>t DEF Loop, Canceled, PhaseDeadline, StartupDeadline, TerminalGrace, ExitBound, Accept, Reset,
      Read, ReadEnd, Succeeds, Cut, Ends, Listens, Set
  <2> QED
    BY <2>1 DEF Still, sessions
<1>5. CASE Term(w)
  <2>1. /\ proc'[w].at \in {proc[w].at, "exited"} /\ sup'[w] = "grace"
        /\ child'[w] => child[w]
    BY <1>5, <1>t DEF Term, Ended, Set
  <2> QED
    BY <1>5, <2>1 DEF Term, sessions
<1>6. CASE KillAndReap(w)
  BY <1>6, <1>t DEF KillAndReap, Spared, Set, sessions
<1>7. CASE Remove(w)
  BY <1>7, <1>t DEF Remove, Set, sessions, process
<1>8. CASE Pass(w) \/ Cancel(w)
  BY <1>8 DEF Pass, Cancel, Still, Set, sessions, process
<1> QED
  BY <1>1, <1>2, <1>3, <1>4, <1>5, <1>6, <1>7, <1>8 DEF Supervise

\* The process keeps it: it imports only once it is answered.
LEMMA OwnerRun ==
  ASSUME TypeOK, NEW w \in Workers, Owner(w), Run(w)
  PROVE  Owner(w)'
<1> USE DEF Owner, Stage, Free, Recorded, Swept, Answered, Descends, Supervised
<1>t. w \in DOMAIN proc /\ proc[w] = [at |-> proc[w].at, said |-> proc[w].said, code |-> proc[w].code]
      /\ w \in DOMAIN child /\ child[w] \in BOOLEAN
  BY ProcessOf, SMTT(30) DEF TypeOK
<1>0. Run(w) => Elsewhere
  BY DEF Run, Bind, Connect, Import, Rejected, Fork, Send, Leave, Disconnected
<1>1. proc[w].at \notin {"none", "exited", "gone"}
  BY DEF Run, Bind, Connect, Import, Rejected, Fork, Send, Leave, Disconnected
<1>2. sup[w] \notin {"idle", "recorded", "reaped", "done"}
  BY <1>1
<1>3. \/ proc'[w].at \in {"exited", "gone"} \/ proc'[w].at = proc[w].at
      \/ proc[w].at = "started" /\ proc'[w].at = "listening"
      \/ proc[w].at = "listening" /\ proc'[w].at = "sent"
      \/ proc[w].at = "sent" /\ link[w] = "acknowledged" /\ proc'[w].at = "running"
  <2>1. CASE Bind(w) \/ Connect(w) \/ Import(w) \/ Rejected(w) \/ Fork(w) \/ Disconnected(w)
    BY <1>t, <2>1 DEF Bind, Connect, Import, Rejected, Fork, Disconnected, Becomes, Fails, Reap
  <2>2. CASE Send(w)
    BY <1>t, <2>2 DEF Send
  <2>3. CASE Leave(w)
    BY <1>t, <2>3 DEF Leave, Reap
  <2> QED
    BY <2>1, <2>2, <2>3 DEF Run
<1>4. /\ child'[w] => child[w] \/ proc[w].at = "running"
      /\ proc'[w].at = "gone" => ~child'[w] \/ sup[w] = "lost"
  <2>1. CASE Bind(w) \/ Connect(w) \/ Import(w) \/ Rejected(w) \/ Fork(w) \/ Disconnected(w)
    BY <1>t, <2>1 DEF Bind, Connect, Import, Rejected, Fork, Disconnected, Becomes, Fails, Reap, Set
  <2>2. CASE Send(w)
    BY <1>t, <2>2 DEF Send
  <2>3. CASE Leave(w)
    BY <1>t, <2>3 DEF Leave, Reap
  <2> QED
    BY <2>1, <2>2, <2>3 DEF Run
<1> QED
  BY <1>0, <1>1, <1>2, <1>3, <1>4 DEF Elsewhere, sessions, thread

\* The session keeps it: it is not ready before no record is left, and it takes
\* its threads with it.
LEMMA OwnerSession ==
  ASSUME TypeOK, NEW v \in Workers, \A w \in Workers : Owner(w), Acquire \/ Startup \/ Crash \/ Stop
  PROVE  Owner(v)'
<1> USE DEF Owner, Stage, Free, Recorded, Swept, Answered, Descends, Supervised
<1>t. /\ session \in Nat /\ launched[v] \in Nat
      /\ \A w \in Workers : w \in DOMAIN record /\ w \in DOMAIN proc /\ w \in DOMAIN sup /\ w \in DOMAIN child
      /\ \A w \in Workers : proc[w] = [at |-> proc[w].at, said |-> proc[w].said, code |-> proc[w].code]
  BY Parameters, ProcessOf, SMTT(30) DEF TypeOK
<1>1. CASE Acquire
  BY <1>1, <1>t DEF Acquire, thread, process
<1>2. CASE Startup
  <2>1. CASE FenceBuilds
    BY <2>1, <1>t DEF FenceBuilds, thread, process
  <2>2. CASE Reconcile
    BY <2>2, <1>t DEF Reconcile, Cleaned, thread, process
  <2>3. ASSUME NEW w \in Workers, StopFails(w) PROVE Owner(v)'
    BY <2>3, <1>t DEF StopFails, thread, process
  <2>4. ASSUME NEW w \in Workers, StopStale(w) PROVE Owner(v)'
    BY <2>4, <1>t DEF StopStale, Matches, Forget, Set, sessions, thread, process
  <2>5. ASSUME NEW w \in Workers, StopWorker(w) PROVE Owner(v)'
    BY <2>5, <1>t DEF StopWorker, Matches, Forget, Set, sessions, thread
  <2> QED
    BY <1>2, <2>1, <2>2, <2>3, <2>4, <2>5 DEF Startup
<1>3. CASE Crash
  <2>1. sup'[v] = IF Supervised(v) THEN "lost" ELSE sup[v]
    BY <1>3 DEF Crash, Lose
  <2>2. proc'[v] = proc[v] \/ (Supervised(v) /\ proc'[v].at = "gone")
    BY <1>3, <1>t DEF Crash
  <2> QED
    BY <1>3, <1>t, <2>1, <2>2 DEF Crash
<1>4. CASE Stop
  BY <1>4, <1>t DEF Stop, thread, process
<1> QED
  BY <1>1, <1>2, <1>3, <1>4

Owners == TypeOK /\ \A w \in Workers : Owner(w)

LEMMA OwnersStep == Owners /\ [Next]_vars => Owners'
<1> SUFFICES ASSUME Owners, [Next]_vars, NEW v \in Workers PROVE Owner(v)'
  BY TypeStep DEF Owners
<1>0. CASE UNCHANGED vars \/ Rest
  BY <1>0, OwnerSame DEF Owners, Rest, vars, sessions, thread, process
<1>1. CASE Acquire \/ Startup \/ Crash \/ Stop
  BY <1>1, OwnerSession DEF Owners
<1>2. ASSUME NEW w \in Workers, Persist(w) \/ Supervise(w) \/ Pass(w) \/ Cancel(w) \/ Run(w)
      PROVE  Owner(v)'
  <2>1. CASE v = w
    BY <1>2, <2>1, OwnerSupervise, OwnerRun DEF Owners
  <2>2. CASE v # w
    <3>1. UNCHANGED <<sessions, record[v], sup[v], launched[v], link[v], proc[v], child[v]>>
      BY <1>2, <2>2, Apart DEF Owners
    <3> QED
      BY <3>1, OwnerSame DEF Owners
  <2> QED
    BY <2>1, <2>2
<1> QED
  BY <1>0, <1>1, <1>2 DEF Next

\* Once startup has succeeded no worker process of an earlier session runs authored
\* code, wherever its coordinator crashed: NoOrphan.  It speaks of the worker itself;
\* of the processes a worker has started it says that they end with it, except
\* where the coordinator was lost during the run.
THEOREM NoneOrphaned == Spec => []NoOrphan
<1>1. Init => Owners
  <2>1. SUFFICES ASSUME Init, NEW w \in Workers PROVE Owner(w)
    BY TypeInit DEF Owners
  <2> QED
    BY <2>1 DEF Init, Process, Owner, Stage, Free, Recorded, Swept, Answered, Descends, Supervised
<1>2. Owners => NoOrphan
  BY DEF Owners, Owner, Free, Recorded, Swept, Descends, NoOrphan
<1> QED
  BY <1>1, <1>2, OwnersStep, PTL DEF Spec

-----------------------------------------------------------------------------
(* The outcome.  What a thread knows of a process is a prefix of what the
   process has said, in order; what is left of it is in the channel.  A process
   that departs from the script has said its last word and leaves with 1. *)

\* What a thread knows once it has read the first k frames of the script.
Knows(h, k) ==
    /\ (h.hello <=> k >= 1)
    /\ h.phase = IF k < 2 THEN 9 ELSE IF k = 2 THEN 0 ELSE IF k = 3 THEN 2 ELSE 3
    /\ (h.ready <=> k >= 5)
    /\ h.terminal = IF k = 6 THEN "completed" ELSE "none"
InStep(w) == \E k \in 0..proc[w].said :
    /\ Len(frames[w]) = proc[w].said - k
    /\ \A n \in 1..Len(frames[w]) : frames[w][n] = Script[k + n]
    /\ Knows(heard[w], k)
Full(w) == proc[w].said = Len(Script) /\ proc[w].code = 0
Departed(w) == proc[w].said = Len(Script) /\ proc[w].code = 1

Heard(w) ==
    /\ link[w] = "none" => proc[w].said = 0
    /\ proc[w].at = "running" => link[w] = "acknowledged"
    /\ heard[w].terminal # "none" => proc[w].said = Len(Script)
    /\ heard[w].eof => proc[w].at \in {"exited", "gone"} /\ frames[w] = <<>>
Told(w) ==
    /\ sup[w] \in {"idle", "recorded"} => heard[w] = Nothing /\ result[w] = "none" /\ frames[w] = <<>>
    /\ sup[w] \in {"spawned", "loop"} => result[w] = "none" /\ (InStep(w) \/ Departed(w))
    /\ sup[w] \in {"term", "grace"} => result[w] # "ok" /\ (result[w] = "none" => Exited(w))
    /\ sup[w] \in {"term", "grace"} /\ ~interrupted[w] => (Outcome(w) = "ok" <=> Full(w))
    /\ sup[w] \in {"reaped", "done"} /\ ~interrupted[w] => (result[w] = "ok" <=> Full(w))
Judged(w) == Owner(w) /\ Heard(w) /\ Told(w)

\* The guard accepts the script frame by frame and learns what it says.
LEMMA NextFrame ==
  ASSUME NEW h \in Knowledge, NEW k \in 0..5, Knows(h, k)
  PROVE  Accepts(h, Script[k + 1]) /\ Knows(Learnt(h, Script[k + 1]), k + 1)
<1>t. DOMAIN Rank = {"setup", "running", "materializing"} /\ Rank["setup"] = 0 /\ Rank["running"] = 2
      /\ Rank["materializing"] = 3
  BY DEF Rank
<1>h. h = [hello |-> h.hello, phase |-> h.phase, ready |-> h.ready, terminal |-> h.terminal, eof |-> h.eof]
      /\ h.hello \in BOOLEAN /\ h.ready \in BOOLEAN
  BY DEF Knowledge
<1>0. CASE k = 0
  <2>1. Script[k + 1] = "hello"
    BY <1>0 DEF Script
  <2>2. ~h.hello /\ h.phase = 9 /\ ~h.ready /\ h.terminal = "none"
    BY <1>0 DEF Knows
  <2>3. Accepts(h, "hello")
    BY <1>t, <1>h, <2>2 DEF Accepts, InSession
  <2>4. Learnt(h, "hello") = [h EXCEPT !.hello = TRUE]
    BY <1>t DEF Learnt
  <2>5. Knows(Learnt(h, "hello"), k + 1)
    BY <1>0, <1>h, <2>2, <2>4 DEF Knows
  <2> QED
    BY <2>1, <2>3, <2>5
<1>1. CASE k = 1
  <2>1. Script[k + 1] = "setup"
    BY <1>1 DEF Script
  <2>2. h.hello /\ h.phase = 9 /\ ~h.ready /\ h.terminal = "none"
    BY <1>1 DEF Knows
  <2>3. Accepts(h, "setup")
    BY <1>t, <1>h, <2>2 DEF Accepts, InSession
  <2>4. Learnt(h, "setup") = [h EXCEPT !.phase = 0]
    BY <1>t DEF Learnt
  <2>5. Knows(Learnt(h, "setup"), k + 1)
    BY <1>1, <1>h, <2>2, <2>4 DEF Knows
  <2> QED
    BY <2>1, <2>3, <2>5
<1>2. CASE k = 2
  <2>1. Script[k + 1] = "running"
    BY <1>2 DEF Script
  <2>2. h.hello /\ h.phase = 0 /\ ~h.ready /\ h.terminal = "none"
    BY <1>2 DEF Knows
  <2>3. Accepts(h, "running")
    BY <1>t, <1>h, <2>2 DEF Accepts, InSession
  <2>4. Learnt(h, "running") = [h EXCEPT !.phase = 2]
    BY <1>t DEF Learnt
  <2>5. Knows(Learnt(h, "running"), k + 1)
    BY <1>2, <1>h, <2>2, <2>4 DEF Knows
  <2> QED
    BY <2>1, <2>3, <2>5
<1>3. CASE k = 3
  <2>1. Script[k + 1] = "materializing"
    BY <1>3 DEF Script
  <2>2. h.hello /\ h.phase = 2 /\ ~h.ready /\ h.terminal = "none"
    BY <1>3 DEF Knows
  <2>3. Accepts(h, "materializing")
    BY <1>t, <1>h, <2>2 DEF Accepts, InSession
  <2>4. Learnt(h, "materializing") = [h EXCEPT !.phase = 3]
    BY <1>t DEF Learnt
  <2>5. Knows(Learnt(h, "materializing"), k + 1)
    BY <1>3, <1>h, <2>2, <2>4 DEF Knows
  <2> QED
    BY <2>1, <2>3, <2>5
<1>4. CASE k = 4
  <2>1. Script[k + 1] = "ready"
    BY <1>4 DEF Script
  <2>2. h.hello /\ h.phase = 3 /\ ~h.ready /\ h.terminal = "none"
    BY <1>4 DEF Knows
  <2>3. Accepts(h, "ready")
    BY <1>t, <1>h, <2>2 DEF Accepts, InSession
  <2>4. Learnt(h, "ready") = [h EXCEPT !.ready = TRUE]
    BY <1>t DEF Learnt
  <2>5. Knows(Learnt(h, "ready"), k + 1)
    BY <1>4, <1>h, <2>2, <2>4 DEF Knows
  <2> QED
    BY <2>1, <2>3, <2>5
<1>5. CASE k = 5
  <2>1. Script[k + 1] = "completed"
    BY <1>5 DEF Script
  <2>2. h.hello /\ h.phase = 3 /\ h.ready /\ h.terminal = "none"
    BY <1>5 DEF Knows
  <2>3. Accepts(h, "completed")
    BY <1>t, <1>h, <2>2 DEF Accepts, InSession
  <2>4. Learnt(h, "completed") = [h EXCEPT !.terminal = "completed"]
    BY <1>t DEF Learnt
  <2>5. Knows(Learnt(h, "completed"), k + 1)
    BY <1>5, <1>h, <2>2, <2>4 DEF Knows
  <2> QED
    BY <2>1, <2>3, <2>5
<1> QED
  BY <1>0, <1>1, <1>2, <1>3, <1>4, <1>5

LEMMA LearntEof ==
  ASSUME NEW h \in Knowledge, NEW f
  PROVE  Learnt(h, f).eof = h.eof
<1>1. h = [hello |-> h.hello, phase |-> h.phase, ready |-> h.ready, terminal |-> h.terminal, eof |-> h.eof]
  BY DEF Knowledge
<1>2. /\ [h EXCEPT !.hello = TRUE].eof = h.eof /\ [h EXCEPT !.phase = Rank[f]].eof = h.eof
      /\ [h EXCEPT !.ready = TRUE].eof = h.eof /\ [h EXCEPT !.terminal = f].eof = h.eof
  BY <1>1
<1> QED
  BY <1>2 DEF Learnt

LEMMA ThreadOf ==
  ASSUME TypeOK, NEW w \in Workers
  PROVE  /\ heard[w] \in Knowledge
         /\ heard[w] = [hello |-> heard[w].hello, phase |-> heard[w].phase, ready |-> heard[w].ready,
                        terminal |-> heard[w].terminal, eof |-> heard[w].eof]
         /\ heard[w].terminal \in {"none", "completed", "error"} /\ heard[w].eof \in BOOLEAN
         /\ frames[w] \in Seq(Frame) /\ link[w] \in {"none", "acknowledged"} /\ sup[w] \in Threads
         /\ interrupted[w] \in BOOLEAN
         /\ w \in DOMAIN sup /\ w \in DOMAIN result /\ w \in DOMAIN link /\ w \in DOMAIN heard
         /\ w \in DOMAIN frames /\ w \in DOMAIN interrupted
BY DEF TypeOK, Knowledge

LEMMA InStepSame ==
  ASSUME NEW w \in Workers, InStep(w),
         proc'[w].said = proc[w].said, frames'[w] = frames[w],
         heard'[w].hello = heard[w].hello, heard'[w].phase = heard[w].phase,
         heard'[w].ready = heard[w].ready, heard'[w].terminal = heard[w].terminal
  PROVE  InStep(w)'
BY SMTT(30) DEF InStep, Knows

LEMMA ToldSame ==
  ASSUME NEW v \in Workers, Heard(v), Told(v),
         UNCHANGED <<sup[v], result[v], link[v], heard[v], proc[v], frames[v], interrupted[v]>>
  PROVE  Heard(v)' /\ Told(v)'
<1>1. InStep(v) => InStep(v)'
  BY InStepSame
<1> QED
  BY <1>1 DEF Heard, Told, Departed, Full, Outcome, Exited

\* A loop that is cut short, or that ends with a failure it has seen.
LEMMA ToldEnds ==
  ASSUME TypeOK, NEW w \in Workers, Heard(w), Told(w), NEW o, o \notin {"none", "ok"}, Ends(w, o),
         UNCHANGED <<link[w], heard[w], proc[w], frames[w]>>,
         interrupted'[w] \/ ~Full(w)
  PROVE  Heard(w)' /\ Told(w)'
<1>1. sup'[w] = "term" /\ result'[w] = o
  BY ThreadOf DEF Ends, Set
<1>2. Outcome(w)' = o
  BY <1>1 DEF Outcome
<1>3. Heard(w)'
  BY DEF Heard
<1> QED
  BY <1>1, <1>2, <1>3 DEF Told, Full

LEMMA ToldLoop ==
  ASSUME TypeOK, NEW w \in Workers, Heard(w), Told(w), Loop(w)
  PROVE  Heard(w)' /\ Told(w)'
<1>l. sup[w] = "loop" /\ result[w] = "none" /\ (InStep(w) \/ Departed(w)) /\ proc' = proc
  BY Zenon DEF Loop, Canceled, PhaseDeadline, StartupDeadline, TerminalGrace, ExitBound, Accept, Reset, Read,
    ReadEnd, Succeeds, Cut, Listens, Told, Still
<1>1. ASSUME NEW o, o \notin {"none", "ok"}, Cut(w, o) PROVE Heard(w)' /\ Told(w)'
  <2>1. interrupted'[w] /\ Ends(w, o) /\ UNCHANGED <<link[w], heard[w], proc[w], frames[w]>>
    BY <1>1, ThreadOf DEF Cut, Set, Still
  <2> QED
    BY <1>1, <2>1, ToldEnds
<1>2. CASE Canceled(w) \/ PhaseDeadline(w) \/ StartupDeadline(w) \/ TerminalGrace(w) \/ ExitBound(w)
  <2>1. \E o \in {"canceled", "phase_deadline", "deadline", "protocol"} : Cut(w, o)
    BY <1>2 DEF Canceled, PhaseDeadline, StartupDeadline, TerminalGrace, ExitBound
  <2> QED
    BY <1>1, <2>1
<1>3. CASE Accept(w)
  <2>1. link'[w] = "acknowledged" /\ UNCHANGED <<sup[w], result[w], heard[w], proc[w], frames[w], interrupted[w]>>
    BY <1>3, ThreadOf DEF Accept, Set, Still
  <2>2. InStep(w) => InStep(w)'
    BY <2>1, InStepSame
  <2> QED
    BY <1>l, <2>1, <2>2 DEF Heard, Told, Departed, Full, Outcome, Exited
<1>4. CASE Reset(w)
  <2>1. \E o \in {"exit", "authentication"} : Ends(w, o)
    BY <1>4 DEF Reset
  <2>2. ~Full(w)
    BY <1>4, Scripted DEF Reset, Heard, Full
  <2>3. UNCHANGED <<link[w], heard[w], proc[w], frames[w]>>
    BY <1>4 DEF Reset, Still
  <2> QED
    BY <2>1, <2>2, <2>3, ToldEnds
<1>5. CASE Read(w)
  <2> DEFINE f == Head(frames[w])
  <2>k. heard[w] \in Knowledge /\ frames[w] \in Seq(Frame)
    BY ThreadOf
  <2>p. proc[w].said \in 0..6
    BY ProcessOf
  <2>a. frames[w] # <<>> /\ frames' = Set(frames, w, Tail(frames[w])) /\ UNCHANGED <<link, interrupted>>
    BY <1>5 DEF Read
  <2>t. /\ frames[w] # <<>> /\ f \in Frame /\ frames'[w] = Tail(frames[w]) /\ ~heard[w].eof
        /\ link'[w] = link[w] /\ interrupted'[w] = interrupted[w]
    <3>1. frames'[w] = Tail(frames[w]) /\ link'[w] = link[w] /\ interrupted'[w] = interrupted[w]
      BY <2>a, ThreadOf DEF Set
    <3>2. f \in Frame
      BY <2>a, <2>k
    <3>3. ~heard[w].eof
      BY <2>a DEF Heard
    <3> QED
      BY <2>a, <3>1, <3>2, <3>3
  <2>1. ASSUME NEW k \in 0..proc[w].said, Len(frames[w]) = proc[w].said - k,
               \A n \in 1..Len(frames[w]) : frames[w][n] = Script[k + n], Knows(heard[w], k)
        PROVE  Heard(w)' /\ Told(w)'
    <3>a. Len(frames[w]) \in Nat \ {0} /\ f = frames[w][1] /\ proc[w].said \in 0..6
      BY <2>a, <2>k, <2>p
    <3>1. k \in 0..5 /\ Len(frames[w]) >= 1 /\ f = Script[k + 1] /\ proc[w].said \in Nat
      BY <2>1, <3>a, SMTT(30)
    <3>2. Accepts(heard[w], f) /\ Knows(Learnt(heard[w], f), k + 1)
      BY <2>1, <3>1, NextFrame, ThreadOf
    <3>3. heard'[w] = Learnt(heard[w], f) /\ UNCHANGED <<sup[w], result[w]>>
      BY <1>5, <3>2, ThreadOf DEF Read, Set
    <3>4. Len(frames'[w]) = proc'[w].said - (k + 1)
          /\ \A n \in 1..Len(frames'[w]) : frames'[w][n] = Script[(k + 1) + n]
      BY <1>l, <2>1, <2>t, <3>1, ThreadOf, SMTT(30)
    <3>5. InStep(w)'
      BY <1>l, <3>1, <3>2, <3>3, <3>4 DEF InStep
    <3>6. heard'[w].eof = heard[w].eof
      BY <3>3, <2>k, LearntEof
    <3>7. heard'[w].terminal # "none" => proc[w].said = 6
      <4>1. heard'[w].terminal = IF k + 1 = 6 THEN "completed" ELSE "none"
        BY <3>2, <3>3 DEF Knows
      <4> QED
        BY <2>1, <3>a, <3>1, <4>1
    <3> QED
      BY <1>l, <2>t, <3>3, <3>5, <3>6, <3>7, Scripted DEF Heard, Told
  <2>2. CASE Departed(w)
    <3>1. CASE Accepts(heard[w], f)
      <4>1. heard'[w] = Learnt(heard[w], f) /\ UNCHANGED <<sup[w], result[w]>>
        BY <1>5, <3>1, ThreadOf DEF Read, Set
      <4>2. heard'[w].eof = heard[w].eof
        BY <4>1, <2>k, LearntEof
      <4> QED
        BY <1>l, <2>t, <2>2, <4>1, <4>2 DEF Heard, Told, Departed
    <3>2. CASE ~Accepts(heard[w], f)
      <4>1. Ends(w, "protocol") /\ UNCHANGED <<link[w], heard[w], proc[w], interrupted[w]>>
        BY <1>5, <3>2 DEF Read, Still
      <4>2. sup'[w] = "term" /\ result'[w] = "protocol" /\ Outcome(w)' = "protocol"
        <5>1. sup'[w] = "term" /\ result'[w] = "protocol"
          BY <4>1, ThreadOf DEF Ends, Set
        <5> QED
          BY <5>1 DEF Outcome
      <4> QED
        BY <1>l, <2>t, <2>2, <4>1, <4>2, Scripted DEF Heard, Told, Departed, Full
    <3> QED
      BY <3>1, <3>2
  <2> QED
    BY <1>l, <2>1, <2>2 DEF InStep
<1>6. CASE ReadEnd(w)
  <2>1. /\ heard' = [heard EXCEPT ![w].eof = TRUE] /\ Exited(w) /\ frames[w] = <<>>
        /\ UNCHANGED <<sup[w], result[w], link[w], proc[w], frames[w], interrupted[w]>>
    BY <1>6 DEF ReadEnd, Drained, Still
  <2>2. heard'[w] = [heard[w] EXCEPT !.eof = TRUE]
    BY <2>1, ThreadOf
  <2>3. heard'[w].hello = heard[w].hello /\ heard'[w].phase = heard[w].phase
        /\ heard'[w].ready = heard[w].ready /\ heard'[w].terminal = heard[w].terminal
    BY <2>2, ThreadOf
  <2>4. InStep(w) => InStep(w)'
    BY <2>1, <2>3, InStepSame
  <2> QED
    BY <1>l, <2>1, <2>3, <2>4 DEF Heard, Told, Departed, Exited
<1>7. CASE Succeeds(w)
  <2>1. /\ sup'[w] = "term" /\ result'[w] = "none" /\ Exited(w) /\ frames[w] = <<>>
        /\ UNCHANGED <<link[w], heard[w], proc[w], frames[w], interrupted[w]>>
    BY <1>7, ThreadOf DEF Succeeds, Ends, Set, Still, HeardOut, Drained, Heard
  <2>2. Outcome(w)' = "ok" <=> heard[w].terminal = "completed" /\ proc[w].code = 0
    BY <2>1, ThreadOf DEF Outcome
  <2>3. InStep(w) => (heard[w].terminal = "completed" <=> proc[w].said = 6)
                     /\ (heard[w].terminal = "none" <=> proc[w].said # 6)
    <3>p. proc[w].said \in 0..6 /\ Len(frames[w]) = 0
      BY <2>1, ProcessOf
    <3>1. ASSUME NEW k \in 0..proc[w].said, Len(frames[w]) = proc[w].said - k PROVE k = proc[w].said
      BY <3>1, <3>p
    <3> QED
      BY <3>1, ProcessOf DEF InStep, Knows
  <2>4. Outcome(w)' = "ok" <=> Full(w)
    BY <1>l, <2>2, <2>3, Scripted DEF Departed, Full
  <2> QED
    BY <2>1, <2>4 DEF Heard, Told, Full, Exited
<1> QED
  BY <1>2, <1>3, <1>4, <1>5, <1>6, <1>7 DEF Loop

\* The launch and the cleanup: the outcome is taken once, when the leader is
\* reaped, from what was known of it and the code it left with.
LEMMA ToldThread ==
  ASSUME TypeOK, NEW w \in Workers, Judged(w),
         Persist(w) \/ Identify(w) \/ Spawn(w) \/ Term(w) \/ KillAndReap(w) \/ Remove(w) \/ Pass(w) \/ Cancel(w)
  PROVE  Heard(w)' /\ Told(w)'
<1>v. Owner(w) /\ Stage(w) /\ Heard(w) /\ Told(w)
  BY DEF Judged, Owner
<1>1. CASE Persist(w)
  <2>1. sup[w] = "idle" /\ sup'[w] = "recorded"
        /\ UNCHANGED <<result[w], link[w], heard[w], proc[w], frames[w], interrupted[w]>>
    BY <1>1, ThreadOf DEF Persist, Set, process
  <2> QED
    BY <1>v, <2>1 DEF Heard, Told
<1>2. CASE Spawn(w)
  <2>1. /\ sup[w] = "recorded" /\ link[w] = "none" /\ proc[w].said = 0 /\ heard[w] = Nothing
        /\ result[w] = "none" /\ frames[w] = <<>>
    BY <1>2, <1>v DEF Spawn, Heard, Told, Stage
  <2>2. UNCHANGED <<link[w], heard[w], frames[w], interrupted[w]>>
    BY <1>2 DEF Spawn
  <2>3. CASE sup' = Set(sup, w, "spawned") /\ proc' = Set(proc, w, Process("started")) /\ result' = result
    <3>1. sup'[w] = "spawned" /\ proc'[w].at = "started" /\ proc'[w].said = 0 /\ result'[w] = "none"
      BY <2>1, <2>3, ThreadOf, ProcessOf DEF Set, Process
    <3>2. Knows(heard[w], 0)
      BY <2>1 DEF Nothing, Knows
    <3>3. InStep(w)'
      <4>1. Len(frames'[w]) = 0 /\ proc'[w].said = 0 /\ Knows(heard'[w], 0)
        BY <2>1, <2>2, <3>1, <3>2
      <4> QED
        <5>1. frames'[w] = <<>> /\ Len(frames'[w]) = proc'[w].said - 0 /\ 0 \in 0..proc'[w].said
          BY <2>1, <2>2, <4>1
        <5>2. \A n \in 1..Len(frames'[w]) : frames'[w][n] = Script[0 + n]
          BY <4>1
        <5> QED
          BY <4>1, <5>1, <5>2 DEF InStep
    <3> QED
      BY <2>1, <2>2, <3>1, <3>3 DEF Heard, Told, Nothing
  <2>4. CASE sup' = Set(sup, w, "reaped") /\ result' = Set(result, w, "unavailable") /\ proc' = proc
    <3>1. sup'[w] = "reaped" /\ result'[w] = "unavailable" /\ proc'[w] = proc[w]
      BY <2>4, ThreadOf DEF Set
    <3> QED
      BY <1>v, <2>1, <2>2, <3>1, Scripted DEF Heard, Told, Full
  <2> QED
    BY <1>2, <2>3, <2>4 DEF Spawn
<1>3. CASE Identify(w)
  <2>1. sup[w] = "spawned" /\ link[w] = "none" /\ proc[w].said = 0
        /\ UNCHANGED <<link[w], heard[w], frames[w], interrupted[w]>>
    BY <1>3, <1>v DEF Identify, Heard, Stage, process
  <2>2. CASE sup' = Set(sup, w, "loop") /\ UNCHANGED <<result, process>>
    <3>1. sup'[w] = "loop" /\ UNCHANGED <<result[w], proc[w]>>
      BY <2>2, ThreadOf DEF Set, process
    <3>2. InStep(w) => InStep(w)'
      BY <2>1, <3>1, InStepSame
    <3> QED
      BY <1>v, <2>1, <3>1, <3>2 DEF Heard, Told, Departed
  <2>3. CASE sup' = Set(sup, w, "reaped") /\ result' = Set(result, w, "identity")
             /\ proc' = [proc EXCEPT ![w].at = "gone"]
    <3>1. sup'[w] = "reaped" /\ result'[w] = "identity" /\ proc'[w].at = "gone" /\ proc'[w].said = 0
      BY <2>1, <2>3, ThreadOf, AtOf DEF Set
    <3> QED
      BY <1>v, <2>1, <3>1, Scripted DEF Heard, Told, Full
  <2> QED
    BY <1>3, <2>2, <2>3 DEF Identify
<1>4. CASE Term(w)
  <2>1. sup[w] = "term" /\ sup'[w] = "grace"
        /\ UNCHANGED <<result[w], link[w], heard[w], frames[w], interrupted[w]>>
    BY <1>4, ThreadOf DEF Term, Set
  <2>2. \/ proc'[w] = proc[w]
        \/ /\ proc[w].at \in Alive /\ proc'[w].at = "exited" /\ proc'[w].said = proc[w].said
           /\ proc'[w].code = 1
    BY <1>4, ProcessOf DEF Term, Ended, Set
  <2>3. CASE proc'[w] = proc[w]
    BY <1>v, <2>1, <2>3 DEF Heard, Told, Outcome, Full, Exited
  <2>4. CASE /\ proc[w].at \in Alive /\ proc'[w].at = "exited" /\ proc'[w].said = proc[w].said
             /\ proc'[w].code = 1
    <3>1. result[w] # "none" /\ result[w] # "ok"
      BY <1>v, <2>1, <2>4 DEF Told, Exited, Alive
    <3>2. Outcome(w)' # "ok" /\ ~Full(w)'
      BY <2>1, <2>4, <3>1 DEF Outcome, Full
    <3> QED
      BY <1>v, <2>1, <2>4, <3>1, <3>2 DEF Heard, Told, Alive
  <2> QED
    BY <2>2, <2>3, <2>4
<1>5. CASE KillAndReap(w)
  <2>1. /\ sup[w] = "grace" /\ sup'[w] = "reaped" /\ result'[w] = Outcome(w) /\ frames'[w] = <<>>
        /\ UNCHANGED <<link[w], heard[w], interrupted[w]>>
    BY <1>5, ThreadOf DEF KillAndReap, Set
  <2>2. proc'[w].at = "gone" /\ proc'[w].said = proc[w].said /\ proc'[w].code = proc[w].code
    <3>1. proc' = [proc EXCEPT ![w].at = "gone"]
      BY <1>5 DEF KillAndReap
    <3> QED
      BY <3>1, AtOf
  <2> QED
    BY <1>v, <2>1, <2>2 DEF Heard, Told, Full
<1>6. CASE Remove(w)
  <2>1. sup[w] = "reaped" /\ sup'[w] = "done"
        /\ UNCHANGED <<result[w], link[w], heard[w], proc[w], frames[w], interrupted[w]>>
    BY <1>6, ThreadOf DEF Remove, Set, process
  <2> QED
    BY <1>v, <2>1 DEF Heard, Told, Full
<1>7. CASE Pass(w) \/ Cancel(w)
  <2>1. UNCHANGED <<sup[w], result[w], link[w], heard[w], proc[w], frames[w], interrupted[w]>>
    BY <1>7 DEF Pass, Cancel, Still, process
  <2> QED
    BY <1>v, <2>1, ToldSame
<1> QED
  BY <1>1, <1>2, <1>3, <1>4, <1>5, <1>6, <1>7

\* What a process does keeps it: it says the script in order, or says its last
\* word and leaves with 1; an outcome that is fixed finds it gone.
LEMMA ToldRun ==
  ASSUME TypeOK, NEW w \in Workers, Judged(w), Run(w)
  PROVE  Heard(w)' /\ Told(w)'
<1>v. Stage(w) /\ Heard(w) /\ Told(w)
  BY DEF Judged, Owner
<1>e. UNCHANGED <<sup[w], result[w], link[w], heard[w], interrupted[w]>>
  BY DEF Run, Bind, Connect, Import, Rejected, Fork, Send, Leave, Disconnected, Elsewhere, thread
<1>a. proc[w].at \in Alive
  BY DEF Run, Bind, Connect, Import, Rejected, Fork, Send, Leave, Disconnected, Alive
<1>s. sup[w] \notin {"idle", "recorded", "reaped", "done"} /\ ~heard[w].eof /\ ~Exited(w)
  BY <1>a, <1>v DEF Stage, Heard, Exited, Alive
<1>1. CASE Send(w)
  <2>1. /\ proc[w].at = "running" /\ sup[w] \in {"spawned", "loop"} /\ proc[w].said \in 0..5
        /\ link[w] = "acknowledged"
    <3>1. proc[w].at = "running" /\ sup[w] \in {"spawned", "loop"} /\ proc[w].said < 6
      BY <1>1, Scripted DEF Send, Owned
    <3>2. proc[w].said \in 0..6
      BY ProcessOf
    <3> QED
      BY <1>v, <3>1, <3>2 DEF Heard
  <2>2. InStep(w)
    BY <1>v, <2>1, Scripted DEF Told, Departed
  <2>3. proc'[w].at = "running"
    BY <1>1, <2>1, ProcessOf DEF Send
  <2>4. heard[w].terminal = "none"
    BY <1>v, <2>1, Scripted DEF Heard
  <2>5. CASE frames' = Set(frames, w, Append(frames[w], Script[proc[w].said + 1]))
             /\ proc' = [proc EXCEPT ![w].said = @ + 1]
    <3>1. frames'[w] = Append(frames[w], Script[proc[w].said + 1]) /\ proc'[w].said = proc[w].said + 1
      <4>1. proc'[w] = [proc[w] EXCEPT !.said = @ + 1]
        BY <2>5, ProcessOf
      <4> QED
        <5>1. frames'[w] = Append(frames[w], Script[proc[w].said + 1])
          BY <2>5, ThreadOf DEF Set
        <5>2. proc'[w].said = proc[w].said + 1
          BY <4>1, ProcessOf
        <5> QED
          BY <5>1, <5>2
    <3>2. PICK k \in 0..proc[w].said :
            /\ Len(frames[w]) = proc[w].said - k
            /\ \A n \in 1..Len(frames[w]) : frames[w][n] = Script[k + n]
            /\ Knows(heard[w], k)
      BY <2>2 DEF InStep
    <3>3. frames[w] \in Seq(Frame) /\ Script[proc[w].said + 1] \in Frame
      <4>1. proc[w].said + 1 \in 1..6
        BY <2>1
      <4> QED
        BY <4>1, ThreadOf, Scripted
    <3>4. /\ Len(frames'[w]) = proc'[w].said - k
          /\ \A n \in 1..Len(frames'[w]) : frames'[w][n] = Script[k + n]
      <4> DEFINE q == frames[w]  said == proc[w].said
      <4>1. q \in Seq(Frame) /\ said \in 0..5 /\ k \in 0..said /\ Len(q) = said - k
        BY <2>1, <3>2, <3>3
      <4>2. Len(frames'[w]) = Len(q) + 1 /\ \A n \in 1..Len(q) : frames'[w][n] = q[n]
        BY <3>1, <3>3, <4>1
      <4>3. frames'[w][Len(q) + 1] = Script[said + 1] /\ said + 1 = k + (Len(q) + 1)
        BY <3>1, <3>3, <4>1, SMTT(30)
      <4>4. ASSUME NEW n \in 1..(Len(q) + 1) PROVE frames'[w][n] = Script[k + n]
        <5>1. CASE n = Len(q) + 1
          BY <4>3, <5>1
        <5>2. CASE n \in 1..Len(q)
          BY <3>2, <4>2, <5>2
        <5> QED
          BY <4>1, <5>1, <5>2, SMTT(30)
      <4> QED
        <5>1. Len(frames'[w]) = proc'[w].said - k
          BY <3>1, <4>1, <4>2
        <5>2. 1..Len(frames'[w]) = 1..(Len(q) + 1)
          BY <4>2
        <5> HIDE DEF q, said
        <5> QED
          BY <4>4, <5>1, <5>2
    <3>5. Knows(heard'[w], k)
      BY <1>e, <3>2 DEF Knows
    <3>6. InStep(w)'
      <4>1. k \in 0..proc'[w].said
        BY <2>1, <3>1, <3>2
      <4> QED
        BY <3>4, <3>5, <4>1 DEF InStep
    <3> QED
      BY <1>v, <1>e, <1>s, <2>1, <2>3, <2>4, <3>6 DEF Heard, Told
  <2>6. CASE proc' = [proc EXCEPT ![w] = [@ EXCEPT !.said = Len(Script), !.code = 1]]
    <3>1. Departed(w)'
      <4>1. proc'[w] = [proc[w] EXCEPT !.said = Len(Script), !.code = 1]
        BY <2>6, ProcessOf
      <4>2. proc'[w].said = Len(Script) /\ proc'[w].code = 1
        BY <4>1, ProcessOf
      <4> QED
        BY <4>2 DEF Departed
    <3> QED
      BY <1>v, <1>e, <1>s, <2>1, <2>3, <2>4, <3>1 DEF Heard, Told
  <2> QED
    BY <1>1, <2>5, <2>6 DEF Send
<1>2. CASE Fork(w)
  <2>1. UNCHANGED <<proc[w], frames[w]>>
    BY <1>2 DEF Fork
  <2> QED
    BY <1>v, <1>e, <2>1, ToldSame
<1>3. CASE Bind(w) \/ Connect(w) \/ Import(w) \/ Rejected(w) \/ Leave(w) \/ Disconnected(w)
  <2>1. frames'[w] = frames[w]
    BY <1>3 DEF Bind, Connect, Import, Rejected, Leave, Disconnected, Becomes, Fails
  <2>2. /\ proc'[w].said = proc[w].said
        /\ proc'[w].code = proc[w].code \/ proc'[w].code = 1 \/ proc[w].said # Len(Script)
        /\ proc'[w].at = "running" => link[w] = "acknowledged"
    <3>1. CASE Bind(w) \/ Connect(w) \/ Import(w) \/ Rejected(w) \/ Disconnected(w)
      BY <3>1, ProcessOf, ZenonT(40) DEF Bind, Connect, Import, Rejected, Disconnected, Becomes, Fails, Reap
    <3>2. CASE Leave(w)
      BY <3>2, ProcessOf, ZenonT(40) DEF Leave, Reap
    <3> QED
      BY <1>3, <3>1, <3>2
  <2>3. Heard(w)'
    BY <1>v, <1>e, <1>s, <2>2 DEF Heard
  <2>4. InStep(w) => InStep(w)'
    BY <1>e, <2>1, <2>2, InStepSame
  <2>5. Departed(w) => Departed(w)'
    BY <2>2 DEF Departed
  <2>6. ~Full(w) => ~Full(w)'
    BY <2>2 DEF Full
  <2>7. sup[w] \in {"term", "grace"} => Outcome(w)' = result[w] /\ result[w] \notin {"none", "ok"}
    BY <1>v, <1>e, <1>s DEF Told, Outcome
  <2>8. sup[w] \in {"term", "grace"} /\ ~interrupted[w] => ~Full(w)
    BY <1>v, <1>s DEF Told, Outcome
  <2> QED
    BY <1>v, <1>e, <1>s, <2>3, <2>4, <2>5, <2>6, <2>7, <2>8 DEF Told
<1> QED
  BY <1>1, <1>2, <1>3 DEF Run

\* A session that ends, or the startup of the next, touches no thread that
\* lives and only what is left of a process.
LEMMA ToldSession ==
  ASSUME TypeOK, NEW v \in Workers, Judged(v), Acquire \/ Startup \/ Crash \/ Stop
  PROVE  Heard(v)' /\ Told(v)'
<1>v. Stage(v) /\ Heard(v) /\ Told(v)
  BY DEF Judged, Owner
<1>1. CASE UNCHANGED <<thread, process>>
  <2>1. UNCHANGED <<sup[v], result[v], link[v], heard[v], proc[v], frames[v], interrupted[v]>>
    BY <1>1 DEF thread, process
  <2> QED
    BY <1>v, <2>1, ToldSame
<1>2. ASSUME NEW w \in Workers, StopWorker(w) PROVE Heard(v)' /\ Told(v)'
  <2>1. coord = "cleaning" /\ UNCHANGED <<sup[v], result[v], link[v], heard[v], frames[v], interrupted[v]>>
        /\ proc' = [proc EXCEPT ![w].at = "gone"]
    BY <1>2 DEF StopWorker, thread
  <2>2. CASE v = w
    <3>1. proc'[v].at = "gone" /\ proc'[v].said = proc[v].said /\ proc'[v].code = proc[v].code
      BY <2>1, <2>2, AtOf
    <3>2. sup[v] \in {"idle", "done", "lost"}
      BY <1>v, <2>1 DEF Stage, Supervised
    <3> QED
      BY <1>v, <2>1, <3>1, <3>2 DEF Heard, Told, Full
  <2>3. CASE v # w
    <3>1. proc'[v] = proc[v]
      BY <2>1, <2>3, ProcessOf
    <3> QED
      BY <1>v, <2>1, <3>1, ToldSame
  <2> QED
    BY <2>2, <2>3
<1>3. CASE Crash
  <2>1. sup'[v] = IF Supervised(v) THEN "lost" ELSE sup[v]
    BY <1>3 DEF Crash, Lose
  <2>2. UNCHANGED <<result[v], link[v], heard[v], frames[v], interrupted[v]>>
    BY <1>3 DEF Crash
  <2>3. \/ proc'[v] = proc[v]
        \/ proc[v].at = "exited" /\ proc'[v].at = "gone" /\ proc'[v].said = proc[v].said
    BY <1>3, ProcessOf DEF Crash, Exited
  <2>4. Heard(v)'
    BY <1>v, <2>2, <2>3 DEF Heard
  <2>5. CASE Supervised(v)
    BY <2>1, <2>4, <2>5 DEF Told
  <2>6. CASE ~Supervised(v)
    <3>1. UNCHANGED <<sup[v], proc[v]>>
      BY <1>3, <2>1, <2>6 DEF Crash
    <3> QED
      BY <1>v, <2>2, <3>1, ToldSame
  <2> QED
    BY <2>5, <2>6
<1>4. Acquire \/ FenceBuilds \/ Reconcile \/ Stop => UNCHANGED <<thread, process>>
  BY DEF Acquire, FenceBuilds, Reconcile, Stop
<1>5. ASSUME NEW w \in Workers, StopStale(w) \/ StopFails(w) PROVE UNCHANGED <<thread, process>>
  BY <1>5 DEF StopStale, StopFails
<1> QED
  BY <1>1, <1>2, <1>3, <1>4, <1>5 DEF Startup

Judgements == Owners /\ \A w \in Workers : Judged(w)

LEMMA VerdictsStep == Judgements /\ [Next]_vars => Judgements'
<1> SUFFICES ASSUME Judgements, [Next]_vars, NEW v \in Workers PROVE Heard(v)' /\ Told(v)'
  BY OwnersStep DEF Judgements, Judged, Owners
<1>t. TypeOK /\ Judged(v) /\ Heard(v) /\ Told(v)
  BY DEF Judgements, Judged, Owners
<1>0. CASE UNCHANGED vars \/ Rest
  <2>1. UNCHANGED <<sup[v], result[v], link[v], heard[v], proc[v], frames[v], interrupted[v]>>
    BY <1>0 DEF Rest, vars, thread, process
  <2> QED
    BY <1>t, <2>1, ToldSame
<1>1. CASE Acquire \/ Startup \/ Crash \/ Stop
  BY <1>1, <1>t, ToldSession
<1>2. ASSUME NEW w \in Workers, Persist(w) \/ Supervise(w) \/ Pass(w) \/ Cancel(w) \/ Run(w)
      PROVE  Heard(v)' /\ Told(v)'
  <2>1. CASE v = w
    <3>1. CASE Loop(w)
      BY <1>t, <2>1, <3>1, ToldLoop
    <3>2. CASE Run(w)
      BY <1>t, <2>1, <3>2, ToldRun
    <3> QED
      BY <1>2, <1>t, <2>1, <3>1, <3>2, ToldThread DEF Supervise
  <2>2. CASE v # w
    <3>1. UNCHANGED <<sup[v], result[v], link[v], heard[v], proc[v], frames[v], interrupted[v]>>
      BY <1>2, <1>t, <2>2, Apart
    <3> QED
      BY <1>t, <3>1, ToldSame
  <2> QED
    BY <2>1, <2>2
<1> QED
  BY <1>0, <1>1, <1>2 DEF Next

\* An outcome is success exactly where the process has said everything, left
\* with 0 and nothing cut its run short, whenever it was heard: Truthful.
THEOREM OutcomeTrue == Spec => []Truthful
<1>1. Init => Judgements
  <2>1. SUFFICES ASSUME Init, NEW w \in Workers PROVE Owner(w) /\ Heard(w) /\ Told(w)
    BY TypeInit DEF Judgements, Judged, Owners
  <2>2. Owner(w)
    BY <2>1 DEF Init, Process, Owner, Stage, Free, Recorded, Swept, Answered, Descends, Supervised
  <2>3. /\ sup[w] = "idle" /\ link[w] = "none" /\ heard[w] = Nothing /\ result[w] = "none" /\ frames[w] = <<>>
        /\ proc[w].at = "none" /\ proc[w].said = 0
    BY <2>1 DEF Init, Process
  <2> QED
    BY <2>2, <2>3 DEF Heard, Told, Nothing
<1>2. Judgements => Truthful
  BY DEF Judgements, Judged, Told, Full, Truthful
<1> QED
  BY <1>1, <1>2, VerdictsStep, PTL DEF Spec

=============================================================================
