------------------------- MODULE PublicationProofs -------------------------
(* Proofs about Publication for every set of builds, jobs, outputs, imports *)
(* and artifacts, every graph of jobs, retry budget and number of owners.   *)
EXTENDS Publication, Checks, FiniteSetTheorems, SequenceTheorems, TLAPS

----------------------------------------------------------------------------
(* Types.  Writing the state of an attempt keeps the table typed only where *)
(* there is an attempt, which the job and the journal must guarantee.       *)

\* A job that executes has its current attempt, in the same state, and belongs
\* to a running build: what recovery relies on to interrupt both together.
Started == \A j \in Jobs : job[j] \in Executing =>
    /\ tries[j] >= 1 /\ attempt[Current(j)] # None
    /\ attempt[Current(j)].state = job[j]
    /\ build[BuildOf[j]] = "RUNNING"

Journaled == \A a \in Attempts : intent[a] # None => attempt[a] # None

FreshHead == \A t \in Targets : head[t].generation = 0 => head[t].version = None

TInv == TypeOK /\ Started /\ Journaled /\ FreshHead

LEMMA PairTyped ==
    /\ \A j \in Jobs, n \in 1..MaxTries : <<j, n>> \in Attempts
    /\ \A a \in Attempts : a[1] \in Jobs /\ a[2] \in 1..MaxTries /\ a = <<a[1], a[2]>>
    /\ \A a \in Attempts : a \in Versions /\ a \in Events /\ a # None
    /\ \A i \in Imports : i \in Versions /\ i \in Events /\ i # None
    /\ \A j \in Jobs : j \in Events /\ BuildOf[j] \in Builds /\ TargetOf[j] \in Targets
BY PlanAssumption, IdentityAssumption DEF Attempts, Versions, Events

\* The attempt of an executing job.
LEMMA CurrentTyped ==
    ASSUME TInv, NEW j \in Jobs, job[j] \in Executing
    PROVE  /\ Current(j) \in Attempts /\ attempt[Current(j)] \in AttemptRow
           /\ attempt[Current(j)].state = job[j]
BY PairTyped, BoundAssumption DEF TInv, Started, Current, TypeOK

\* Writing a state into a row that exists.
LEMMA StateWritten ==
    ASSUME TypeOK, NEW a \in Attempts, attempt[a] # None,
           NEW s \in Executing \cup AttemptEnd,
           attempt' = [attempt EXCEPT ![a].state = s]
    PROVE  /\ attempt' \in [Attempts -> AttemptRow \cup {None}]
           /\ attempt'[a] \in AttemptRow /\ attempt'[a] # None /\ attempt'[a].state = s
           /\ \A c \in Attempts : c # a => attempt'[c] = attempt[c]
<1> DEFINE e == [attempt[a] EXCEPT !.state = s]
<1>1. attempt[a] \in AttemptRow
  BY DEF TypeOK
<1>2. e \in AttemptRow /\ e.state = s
  BY <1>1 DEF AttemptRow
<1>3. attempt' = [attempt EXCEPT ![a] = e]
  OBVIOUS
<1> HIDE DEF e
<1> QED BY <1>2, <1>3, RowAssumption DEF TypeOK

\* A moved head, its history row and its delivery.
LEMMA HeadMoved ==
    ASSUME TypeOK, NEW t \in Targets, NEW v \in Versions, NEW e \in Events,
           NEW n \in Nat, NEW c \in {"publication", "cache_reuse"},
           MoveHead(t, v, e, n, c)
    PROVE  /\ head' \in [Targets -> HeadRow] /\ changes' \subseteq Change
           /\ outbox' \in [Events -> {"NONE", "PENDING", "ACKNOWLEDGED"}]
           /\ head'[t] = [version |-> v, generation |-> n + 1]
           /\ \A u \in Targets : u # t => head'[u] = head[u]
<1>1. [version |-> v, generation |-> n + 1] \in HeadRow
  BY DEF HeadRow
<1>2. head[t].version \in Versions \cup {None}
  BY DEF TypeOK, HeadRow
<1>3. [event |-> e, target |-> t, previous |-> head[t].version, version |-> v,
       generation |-> n + 1, cause |-> c] \in Change
  BY <1>2 DEF Change
<1> QED BY <1>1, <1>3 DEF MoveHead, TypeOK

\* Steps that write neither heads nor attempts nor the state of an executing job.
LEMMA PlanningTyped ==
    ASSUME TInv, NEW b \in Builds,
           Draft(b) \/ Accept(b) \/ StartDispatch(b) \/ FinishDispatch(b) \/ Cancel(b)
    PROVE  TInv'
<1>1. CASE Draft(b)
  <2>1. \A t \in Targets : Captured(t) \in Nat
    BY DEF TInv, TypeOK, Captured, HeadRow
  <2>2. planned' \in [Jobs -> Nat \cup {None}]
    BY <1>1, <2>1, PairTyped DEF Draft, TInv, TypeOK
  <2> QED BY <1>1, <2>2 DEF Draft, TInv, TypeOK, Started, Journaled, FreshHead, heads, Current
<1>2. CASE Accept(b)
  <2>1. job' \in [Jobs -> JobStates] /\ build' \in [Builds -> BuildStates]
    BY <1>2 DEF Accept, TInv, TypeOK, JobStates, BuildStates
  <2>2. \A j \in JobsOf(b) : planned[j] \in Nat
    BY <1>2, PairTyped DEF Accept, TInv, TypeOK, HeadRow, JobsOf
  <2>3. reservation' \in [Targets -> Reservation \cup {None}]
    <3> SUFFICES ASSUME NEW t \in Targets PROVE reservation'[t] \in Reservation \cup {None}
      BY <1>2 DEF Accept
    <3>1. CASE \E j \in JobsOf(b) : TargetOf[j] = t
      <4> DEFINE k == CHOOSE j \in JobsOf(b) : TargetOf[j] = t
      <4>1. k \in JobsOf(b)
        BY <3>1
      <4>2. planned[k] \in Nat /\ owner \in Session
        BY <2>2, <4>1 DEF TInv, TypeOK
      <4>3. reservation'[t] = [build |-> b, session |-> owner, fence |-> 1, expected |-> planned[k]]
        BY <1>2, <3>1 DEF Accept
      <4> HIDE DEF k
      <4> QED BY <4>2, <4>3 DEF Reservation
    <3>2. CASE ~\E j \in JobsOf(b) : TargetOf[j] = t
      BY <1>2, <3>2 DEF Accept, TInv, TypeOK
    <3> QED BY <3>1, <3>2
  <2>4. Started'
    <3> SUFFICES ASSUME NEW j \in Jobs, job'[j] \in Executing
                 PROVE  /\ tries[j] >= 1 /\ attempt[Current(j)] # None
                        /\ attempt[Current(j)].state = job'[j]
                        /\ build'[BuildOf[j]] = "RUNNING"
      BY <1>2 DEF Accept, Started, Current
    <3>1. j \notin JobsOf(b) /\ job'[j] = job[j]
      BY <1>2 DEF Accept, Executing
    <3>2. BuildOf[j] # b
      BY <3>1 DEF JobsOf
    <3> QED BY <1>2, <3>1, <3>2, PairTyped DEF Accept, TInv, Started, TypeOK
  <2> QED BY <1>2, <2>1, <2>3, <2>4 DEF Accept, TInv, TypeOK, Journaled, FreshHead, heads
<1>3. CASE StartDispatch(b)
  BY <1>3, PairTyped DEF StartDispatch, TInv, TypeOK, BuildStates, Started, Journaled, FreshHead, heads, Current
<1>4. CASE FinishDispatch(b)
  <2>1. Verdict(b) \in Ended
    BY DEF Verdict, Ended
  <2>2. build' \in [Builds -> BuildStates]
    BY <1>4, <2>1 DEF FinishDispatch, TInv, TypeOK, BuildStates
  <2>3. reservation' \in [Targets -> Reservation \cup {None}]
    BY <1>4 DEF FinishDispatch, Release, TInv, TypeOK
  <2>4. Started'
    <3> SUFFICES ASSUME NEW j \in Jobs, job[j] \in Executing
                 PROVE  build'[BuildOf[j]] = "RUNNING"
      BY <1>4 DEF FinishDispatch, TInv, Started, Current
    <3>1. BuildOf[j] # b
      BY <1>4 DEF FinishDispatch, JobsOf, Executing, Finished, Successful, Unsuccessful
    <3> QED BY <1>4, <3>1, PairTyped DEF FinishDispatch, TInv, Started, TypeOK
  <2> QED BY <1>4, <2>2, <2>3, <2>4 DEF FinishDispatch, TInv, TypeOK, Journaled, FreshHead, heads
<1>5. CASE Cancel(b)
  BY <1>5 DEF Cancel, TInv, TypeOK, Started, Journaled, FreshHead, heads, Current
<1> QED BY <1>1, <1>2, <1>3, <1>4, <1>5

\* Steps of a job that write its state, and perhaps its current attempt.
LEMMA JobWritten ==
    ASSUME TInv, NEW j \in Jobs, NEW s \in JobStates \ Executing, SetJob(j, s),
           UNCHANGED tries,
           \/ UNCHANGED attempt
           \/ /\ job[j] \in Executing
              /\ \E e \in AttemptEnd : SetAttempt(j, e)
    PROVE  TInv'
<1>1. job' \in [Jobs -> JobStates] /\ job'[j] = s /\ \A k \in Jobs : k # j => job'[k] = job[k]
  BY DEF SetJob, TInv, TypeOK
<1>2. CASE UNCHANGED attempt
  <2>1. Started'
    BY <1>1, <1>2 DEF SetJob, TInv, Started, Current
  <2> QED BY <1>1, <1>2, <2>1 DEF SetJob, TInv, TypeOK, Journaled, FreshHead, heads
<1>3. CASE job[j] \in Executing /\ \E e \in AttemptEnd : SetAttempt(j, e)
  <2>1. PICK e \in AttemptEnd : SetAttempt(j, e)
    BY <1>3
  <2>2. Current(j) \in Attempts /\ attempt[Current(j)] # None
    BY <1>3, CurrentTyped, RowAssumption
  <2>3. /\ attempt' \in [Attempts -> AttemptRow \cup {None}] /\ attempt'[Current(j)] # None
        /\ \A c \in Attempts : c # Current(j) => attempt'[c] = attempt[c]
    BY <2>1, <2>2, StateWritten DEF SetAttempt, TInv
  <2>4. Started'
    <3> SUFFICES ASSUME NEW k \in Jobs, job'[k] \in Executing
                 PROVE  /\ tries[k] >= 1 /\ attempt'[Current(k)] # None
                        /\ attempt'[Current(k)].state = job'[k]
                        /\ build[BuildOf[k]] = "RUNNING"
      BY DEF SetJob, Started, Current
    <3>1. k # j /\ job[k] \in Executing
      BY <1>1
    <3>2. Current(k) \in Attempts /\ Current(k) # Current(j)
      BY <3>1, CurrentTyped DEF Current
    <3> QED BY <1>1, <2>3, <3>1, <3>2 DEF TInv, Started
  <2> QED BY <1>1, <2>2, <2>3, <2>4 DEF SetJob, TInv, TypeOK, Journaled, FreshHead, heads
<1> QED BY <1>2, <1>3

\* Steps of a job that take its current attempt to another open phase.
LEMMA PhaseWritten ==
    ASSUME TInv, NEW j \in Jobs, NEW s \in Executing, job[j] \in Executing,
           job' = [job EXCEPT ![j] = s], SetAttempt(j, s),
           UNCHANGED <<tries, build>>
    PROVE  /\ job' \in [Jobs -> JobStates] /\ attempt' \in [Attempts -> AttemptRow \cup {None}]
           /\ Started' /\ \A a \in Attempts : attempt[a] # None => attempt'[a] # None
<1>1. job' \in [Jobs -> JobStates] /\ job'[j] = s /\ \A k \in Jobs : k # j => job'[k] = job[k]
  BY DEF TInv, TypeOK, JobStates
<1>2. Current(j) \in Attempts /\ attempt[Current(j)] # None
  BY CurrentTyped, RowAssumption
<1>3. /\ attempt' \in [Attempts -> AttemptRow \cup {None}]
      /\ attempt'[Current(j)] # None /\ attempt'[Current(j)].state = s
      /\ \A c \in Attempts : c # Current(j) => attempt'[c] = attempt[c]
  BY <1>2, StateWritten DEF SetAttempt, TInv
<1>4. ASSUME NEW k \in Jobs, job'[k] \in Executing
      PROVE  /\ tries[k] >= 1 /\ attempt'[Current(k)] # None
             /\ attempt'[Current(k)].state = job'[k]
             /\ build[BuildOf[k]] = "RUNNING"
  <2>1. CASE k = j
    BY <1>1, <1>3, <2>1 DEF TInv, Started
  <2>2. CASE k # j
    <3>1. job[k] \in Executing
      BY <1>1, <1>4, <2>2
    <3>2. Current(k) \in Attempts /\ Current(k) # Current(j)
      BY <2>2, <3>1, CurrentTyped DEF Current
    <3> QED BY <1>1, <1>3, <2>2, <3>1, <3>2 DEF TInv, Started
  <2> QED BY <2>1, <2>2
<1>5. Started'
  BY <1>4 DEF Started, Current
<1> QED BY <1>1, <1>3, <1>5

LEMMA AttemptStarted ==
    ASSUME TInv, NEW j \in Jobs, StartAttempt(j)
    PROVE  TInv'
<1> DEFINE n == <<j, tries[j] + 1>>
<1> DEFINE e == [state |-> "RUNNING", session |-> owner, fence |-> reservation[TargetOf[j]].fence]
<1>1. tries[j] + 1 \in 1..MaxTries /\ n \in Attempts /\ tries[j] \in Nat
  BY PairTyped, BoundAssumption DEF StartAttempt, TInv, TypeOK
<1>2. reservation[TargetOf[j]] \in Reservation /\ build[BuildOf[j]] = "RUNNING"
  BY PairTyped DEF StartAttempt, Progressing, Guard, Owns, TInv, TypeOK
<1>3. e \in AttemptRow /\ e.state = "RUNNING"
  BY <1>2 DEF AttemptRow, Reservation, TInv, TypeOK, Executing
<1>4. /\ attempt' = [attempt EXCEPT ![n] = e] /\ tries' = [tries EXCEPT ![j] = tries[j] + 1]
      /\ job' = [job EXCEPT ![j] = "RUNNING"]
  BY DEF StartAttempt, SetJob
<1> HIDE DEF e
<1>5. /\ attempt' \in [Attempts -> AttemptRow \cup {None}] /\ attempt'[n] = e /\ e # None
      /\ \A a \in Attempts : a # n => attempt'[a] = attempt[a]
  BY <1>1, <1>3, <1>4, RowAssumption DEF TInv, TypeOK
<1>6. /\ tries' \in [Jobs -> 0..MaxTries] /\ tries'[j] = tries[j] + 1
      /\ job' \in [Jobs -> JobStates] /\ job'[j] = "RUNNING"
      /\ \A k \in Jobs : k # j => job'[k] = job[k] /\ tries'[k] = tries[k]
  BY <1>1, <1>4 DEF TInv, TypeOK, JobStates, Executing
<1>7. Started'
  <2> SUFFICES ASSUME NEW k \in Jobs, job'[k] \in Executing
               PROVE  /\ tries'[k] >= 1 /\ attempt'[<<k, tries'[k]>>] # None
                      /\ attempt'[<<k, tries'[k]>>].state = job'[k]
                      /\ build[BuildOf[k]] = "RUNNING"
    BY DEF StartAttempt, SetJob, Started, Current
  <2>1. CASE k = j
    BY <1>1, <1>2, <1>3, <1>5, <1>6, <2>1
  <2>2. CASE k # j
    <3>1. job[k] \in Executing /\ tries'[k] = tries[k] /\ job'[k] = job[k]
      BY <1>6, <2>2
    <3>2. <<k, tries[k]>> \in Attempts /\ <<k, tries[k]>> # n
      BY <2>2, <3>1, CurrentTyped DEF Current
    <3> QED BY <1>5, <3>1, <3>2 DEF TInv, Started, Current
  <2> QED BY <2>1, <2>2
<1>8. Journaled'
  BY <1>5 DEF StartAttempt, SetJob, TInv, Journaled
<1> QED BY <1>5, <1>6, <1>7, <1>8 DEF StartAttempt, SetJob, TInv, TypeOK, FreshHead, heads

LEMMA PublicationPrepared ==
    ASSUME TInv, NEW j \in Jobs, NEW d \in Artifacts, PreparePublication(j, d)
    PROVE  TInv'
<1> DEFINE r == reservation[TargetOf[j]]
<1> DEFINE a == Current(j)
<1> DEFINE e == [state |-> "PREPARED", artifact |-> d, session |-> attempt[a].session,
                 fence |-> attempt[a].fence, expected |-> r.expected]
<1>1. job[j] = "VALIDATING_OUTPUTS" /\ job[j] \in Executing
  BY DEF PreparePublication, PublishGuards, Current, Executing
<1>2. a \in Attempts /\ attempt[a] \in AttemptRow /\ attempt[a] # None
  BY <1>1, CurrentTyped, RowAssumption
<1>3. r \in Reservation
  BY PairTyped DEF PreparePublication, TInv, TypeOK
<1>4. e \in Intent
  BY <1>2, <1>3 DEF Intent, AttemptRow, Reservation
<1>5. intent' = [intent EXCEPT ![a] = e] /\ SetAttempt(j, "COMMITTING")
      /\ job' = [job EXCEPT ![j] = "COMMITTING"] /\ UNCHANGED <<tries, build>>
  BY DEF PreparePublication, SetAttempt
<1>6. "COMMITTING" \in Executing
  BY DEF Executing
<1>7. /\ job' \in [Jobs -> JobStates] /\ attempt' \in [Attempts -> AttemptRow \cup {None}]
      /\ Started' /\ \A c \in Attempts : attempt[c] # None => attempt'[c] # None
  BY <1>1, <1>5, <1>6, PhaseWritten
<1> HIDE DEF e
<1>8. intent' \in [Attempts -> Intent \cup {None}] /\ \A c \in Attempts : c # a => intent'[c] = intent[c]
  BY <1>2, <1>4, <1>5 DEF TInv, TypeOK
<1>9. Journaled'
  BY <1>2, <1>7, <1>8 DEF TInv, Journaled
<1> QED BY <1>7, <1>8, <1>9 DEF PreparePublication, TInv, TypeOK, FreshHead, heads

LEMMA JobTyped ==
    ASSUME TInv, NEW j \in Jobs, JobStep(j), \A v \in Attempts : ~AdoptCache(j, v)
    PROVE  TInv'
<1>1. CASE Queue(j)
  <2>1. "QUEUED" \in JobStates \ Executing
    BY DEF JobStates, Executing
  <2> QED BY <1>1, <2>1, JobWritten DEF Queue
<1>2. CASE StartAttempt(j)
  BY <1>2, AttemptStarted
<1>3. CASE Validate(j)
  <2>1. "VALIDATING_OUTPUTS" \in Executing /\ job[j] \in Executing
    BY <1>3 DEF Validate, Executing
  <2>2. /\ job' \in [Jobs -> JobStates] /\ attempt' \in [Attempts -> AttemptRow \cup {None}]
        /\ Started' /\ \A a \in Attempts : attempt[a] # None => attempt'[a] # None
    BY <1>3, <2>1, PhaseWritten DEF Validate, SetJob
  <2> QED BY <1>3, <2>2 DEF Validate, SetJob, TInv, TypeOK, Journaled, FreshHead, heads
<1>4. CASE CancelJob(j)
  <2>1. "CANCELED" \in JobStates \ Executing /\ "CANCELED" \in AttemptEnd
    BY DEF JobStates, Executing, Finished, Unsuccessful, AttemptEnd
  <2> QED BY <1>4, <2>1, JobWritten DEF CancelJob, Open
<1>5. CASE Block(j)
  <2>1. "BLOCKED" \in JobStates \ Executing
    BY DEF JobStates, Executing, Finished, Unsuccessful
  <2> QED BY <1>5, <2>1, JobWritten DEF Block
<1>6. ASSUME NEW retry \in BOOLEAN, FailAttempt(j, retry) PROVE TInv'
  <2> DEFINE s == IF retry THEN "RETRY_WAIT" ELSE "FAILED"
  <2>1. s \in JobStates \ Executing /\ "FAILED" \in AttemptEnd
    BY DEF JobStates, Executing, Finished, Unsuccessful, AttemptEnd
  <2>2. SetJob(j, s) /\ SetAttempt(j, "FAILED") /\ job[j] \in Executing /\ UNCHANGED tries
    BY <1>6 DEF FailAttempt, Open
  <2> QED BY <2>1, <2>2, JobWritten
<1>7. ASSUME NEW d \in Artifacts, PreparePublication(j, d) PROVE TInv'
  BY <1>7, PublicationPrepared
<1> QED BY <1>1, <1>2, <1>3, <1>4, <1>5, <1>6, <1>7 DEF JobStep

\* The three writers of a head.
LEMMA CommitTyped ==
    ASSUME TInv, NEW a \in Attempts, CommitPublication(a)
    PROVE  TInv'
<1> DEFINE i == intent[a]
<1> DEFINE t == TargetOf[a[1]]
<1>1. i \in Intent /\ a[1] \in Jobs /\ t \in Targets /\ a \in Versions /\ a \in Events
  BY PairTyped DEF CommitPublication, TInv, TypeOK
<1>2. attempt[a] # None /\ job[a[1]] = "COMMITTING"
  BY DEF CommitPublication, PublishGuards, TInv, Journaled
<1>3. i.artifact \in Artifacts /\ i.expected \in Nat
  BY <1>1 DEF Intent
<1>4. /\ head' \in [Targets -> HeadRow] /\ changes' \subseteq Change
      /\ outbox' \in [Events -> {"NONE", "PENDING", "ACKNOWLEDGED"}]
      /\ head'[t] = [version |-> a, generation |-> i.expected + 1]
      /\ \A u \in Targets : u # t => head'[u] = head[u]
  BY <1>1, <1>3, HeadMoved DEF CommitPublication, TInv
<1>5. "SUCCEEDED" \in Executing \cup AttemptEnd /\ "SUCCEEDED" \in JobStates /\ "SUCCEEDED" \notin Executing
  BY DEF AttemptEnd, Executing, JobStates, Finished, Successful
<1>6. /\ attempt' \in [Attempts -> AttemptRow \cup {None}] /\ attempt'[a] # None
      /\ \A c \in Attempts : c # a => attempt'[c] = attempt[c]
  BY <1>2, <1>5, StateWritten DEF CommitPublication, TInv
<1>7. [i EXCEPT !.state = "COMMITTED"] \in Intent
  BY <1>1 DEF Intent
<1>8. intent' \in [Attempts -> Intent \cup {None}] /\ \A c \in Attempts : c # a => intent'[c] = intent[c]
  BY <1>7 DEF CommitPublication, TInv, TypeOK
<1>9. /\ job' \in [Jobs -> JobStates] /\ job'[a[1]] = "SUCCEEDED"
      /\ \A k \in Jobs : k # a[1] => job'[k] = job[k]
  BY <1>1, <1>5 DEF CommitPublication, TInv, TypeOK
<1>10. Started'
  <2> SUFFICES ASSUME NEW k \in Jobs, job'[k] \in Executing
               PROVE  /\ tries[k] >= 1 /\ attempt'[Current(k)] # None
                      /\ attempt'[Current(k)].state = job'[k]
                      /\ build[BuildOf[k]] = "RUNNING"
    BY DEF CommitPublication, Started, Current
  <2>1. k # a[1] /\ job[k] \in Executing
    BY <1>5, <1>9
  <2>2. Current(k) \in Attempts /\ Current(k) # a
    BY <2>1, CurrentTyped DEF Current
  <2> QED BY <1>6, <1>9, <2>1, <2>2 DEF TInv, Started
<1>11. Journaled'
  BY <1>6, <1>8 DEF TInv, Journaled
<1>12. FreshHead'
  BY <1>1, <1>3, <1>4 DEF TInv, FreshHead
<1>13. version' \in [Versions -> Artifacts \cup {None}]
  BY <1>3 DEF CommitPublication, TInv, TypeOK
<1> QED BY <1>4, <1>6, <1>8, <1>9, <1>10, <1>11, <1>12, <1>13 DEF CommitPublication, TInv, TypeOK

\* What a cache reuse does to the head: nothing, or a move from the generation
\* its build reserved.
LEMMA Adopted ==
    ASSUME TInv, NEW j \in Jobs, NEW v \in Attempts, AdoptCache(j, v)
    PROVE  /\ TargetOf[j] \in Targets /\ v \in Versions /\ j \in Events /\ v # None
           /\ head[TargetOf[j]].generation \in Nat
           /\ \/ /\ head[TargetOf[j]].version # v
                 /\ MoveHead(TargetOf[j], v, j, head[TargetOf[j]].generation, "cache_reuse")
              \/ head[TargetOf[j]].version = v /\ UNCHANGED <<head, changes, outbox>>
BY PairTyped DEF AdoptCache, CacheGuards, TInv, TypeOK, HeadRow

LEMMA AdoptTyped ==
    ASSUME TInv, NEW j \in Jobs, NEW v \in Attempts, AdoptCache(j, v)
    PROVE  TInv'
<1> DEFINE t == TargetOf[j]
<1>1. /\ t \in Targets /\ v \in Versions /\ j \in Events /\ v # None /\ head[t].generation \in Nat
  BY Adopted
<1>2. /\ head' \in [Targets -> HeadRow] /\ changes' \subseteq Change
      /\ outbox' \in [Events -> {"NONE", "PENDING", "ACKNOWLEDGED"}]
      /\ head'[t].generation \in Nat \ {0} /\ FreshHead'
  <2>1. CASE head[t].version # v /\ MoveHead(t, v, j, head[t].generation, "cache_reuse")
    <3>1. /\ head' \in [Targets -> HeadRow] /\ changes' \subseteq Change
          /\ outbox' \in [Events -> {"NONE", "PENDING", "ACKNOWLEDGED"}]
          /\ head'[t] = [version |-> v, generation |-> head[t].generation + 1]
          /\ \A u \in Targets : u # t => head'[u] = head[u]
      BY <1>1, <2>1, HeadMoved DEF TInv
    <3> QED BY <1>1, <3>1 DEF TInv, FreshHead
  <2>2. CASE head[t].version = v /\ UNCHANGED <<head, changes, outbox>>
    BY <1>1, <2>2 DEF TInv, TypeOK, FreshHead
  <2> QED BY <2>1, <2>2, Adopted
<1>3. [version |-> v, generation |-> head'[t].generation] \in [version : Attempts, generation : Nat \ {0}]
  BY <1>2
<1>4. cached' \in [Jobs -> [version : Attempts, generation : Nat \ {0}] \cup {None}]
  BY <1>3 DEF AdoptCache, TInv, TypeOK
<1>5. job' \in [Jobs -> JobStates] /\ job'[j] \notin Executing /\ \A k \in Jobs : k # j => job'[k] = job[k]
  BY DEF AdoptCache, TInv, TypeOK, JobStates, Finished, Successful, Executing
<1>6. Started'
  BY <1>5 DEF AdoptCache, TInv, Started, Current
<1> QED BY <1>2, <1>4, <1>5, <1>6 DEF AdoptCache, TInv, TypeOK, Journaled

LEMMA ImportTyped ==
    ASSUME TInv, NEW i \in Imports, ImportStep(i)
    PROVE  TInv'
<1>1. ASSUME NEW t \in Targets, NEW d \in Artifacts, PlanImport(i, t, d) PROVE TInv'
  <2>1. [target |-> t, artifact |-> d, session |-> owner, head |-> head[t]] \in ImportPlan
    BY DEF TInv, TypeOK, ImportPlan
  <2>2. importPlan' \in [Imports -> ImportPlan \cup {None}]
    BY <1>1, <2>1 DEF PlanImport, TInv, TypeOK
  <2> QED BY <1>1, <2>2 DEF PlanImport, TInv, TypeOK, Started, Journaled, FreshHead, Current, work, heads
<1>2. CASE CommitImport(i)
  <2> DEFINE p == importPlan[i]
  <2>1. p \in ImportPlan /\ i \in Versions /\ i \in Events
    BY <1>2, PairTyped DEF CommitImport, TInv, TypeOK
  <2>2. p.target \in Targets /\ p.artifact \in Artifacts /\ p.head.generation \in Nat
    BY <2>1 DEF ImportPlan, HeadRow
  <2>3. /\ head' \in [Targets -> HeadRow] /\ changes' \subseteq Change
        /\ outbox' \in [Events -> {"NONE", "PENDING", "ACKNOWLEDGED"}]
        /\ head'[p.target] = [version |-> i, generation |-> p.head.generation + 1]
        /\ \A u \in Targets : u # p.target => head'[u] = head[u]
    BY <1>2, <2>1, <2>2, HeadMoved DEF CommitImport, TInv
  <2>4. version' \in [Versions -> Artifacts \cup {None}]
    BY <1>2, <2>2 DEF CommitImport, TInv, TypeOK
  <2>5. FreshHead'
    BY <2>1, <2>2, <2>3 DEF TInv, FreshHead
  <2> QED BY <1>2, <2>3, <2>4, <2>5 DEF CommitImport, TInv, TypeOK, Started, Journaled, Current, work
<1> QED BY <1>1, <1>2 DEF ImportStep

LEMMA RecoverTyped ==
    ASSUME TInv, Recover
    PROVE  TInv'
<1>1. intent' \in [Attempts -> Intent \cup {None}]
  <2> SUFFICES ASSUME NEW a \in Attempts PROVE intent'[a] \in Intent \cup {None}
    BY DEF Recover
  <2>1. ASSUME intent[a] # None PROVE [intent[a] EXCEPT !.state = "ABANDONED"] \in Intent
    BY <2>1 DEF TInv, TypeOK, Intent
  <2> QED BY <2>1 DEF Recover, TInv, TypeOK
<1>2. /\ attempt' \in [Attempts -> AttemptRow \cup {None}]
      /\ \A a \in Attempts : attempt[a] # None => attempt'[a] # None
  <2> SUFFICES ASSUME NEW a \in Attempts
               PROVE  /\ attempt'[a] \in AttemptRow \cup {None}
                      /\ attempt[a] # None => attempt'[a] # None
    BY DEF Recover
  <2>1. ASSUME attempt[a] # None PROVE [attempt[a] EXCEPT !.state = "INTERRUPTED"] \in AttemptRow
    BY <2>1 DEF TInv, TypeOK, AttemptRow, AttemptEnd
  <2> QED BY <2>1, RowAssumption DEF Recover, TInv, TypeOK
<1>3. job' \in [Jobs -> JobStates]
  BY DEF Recover, InterruptedJob, TInv, TypeOK, JobStates, Finished, Unsuccessful
<1>4. build' \in [Builds -> BuildStates]
  <2>1. \A b \in Builds : Recovered(b) \in Ended
    BY DEF Recovered, Ended
  <2> QED BY <2>1 DEF Recover, TInv, TypeOK, BuildStates
<1>5. owner' \in Session
  <2>1. owner \in 0..MaxSession /\ owner < MaxSession /\ owner' = owner + 1
    BY DEF Recover, Session, TInv, TypeOK
  <2> QED BY <2>1, BoundAssumption DEF Session
<1>6. reservation' \in [Targets -> Reservation \cup {None}]
  <2> SUFFICES ASSUME NEW t \in Targets PROVE reservation'[t] \in Reservation \cup {None}
    BY DEF Recover
  <2> DEFINE r == reservation[t]
  <2>1. ASSUME r # None PROVE [r EXCEPT !.session = owner + 1, !.fence = r.fence + 1] \in Reservation
    <3>1. r \in Reservation /\ owner + 1 \in Session
      BY <1>5, <2>1 DEF Recover, TInv, TypeOK
    <3>2. r.fence + 1 \in Nat \ {0}
      BY <3>1 DEF Reservation
    <3> QED BY <3>1, <3>2 DEF Reservation
  <2> QED BY <2>1 DEF Recover
<1>7. Started'
  <2>1. ASSUME NEW k \in Jobs PROVE job'[k] \notin Executing
    <3>1. job'[k] = InterruptedJob(k)
      BY DEF Recover
    <3>2. CASE build[BuildOf[k]] = "RUNNING" /\ job[k] \notin Finished
      BY <3>1, <3>2 DEF InterruptedJob, Executing
    <3>3. CASE ~(build[BuildOf[k]] = "RUNNING" /\ job[k] \notin Finished)
      BY <3>1, <3>3 DEF InterruptedJob, Executing, Finished, Successful, Unsuccessful, TInv, Started
    <3> QED BY <3>2, <3>3
  <2> QED BY <2>1 DEF Started
<1>8. Journaled'
  BY <1>2 DEF Recover, TInv, Journaled
<1> QED BY <1>1, <1>2, <1>3, <1>4, <1>5, <1>6, <1>7, <1>8 DEF Recover, TInv, TypeOK, FreshHead, heads

LEMMA TInvInit == Init => TInv
<1> SUFFICES ASSUME Init PROVE TInv
  OBVIOUS
<1>1. TypeOK
  BY BoundAssumption DEF Init, TypeOK, Session, BuildStates, JobStates, HeadRow
<1>2. Started /\ Journaled /\ FreshHead
  BY DEF Init, Started, Journaled, FreshHead, Executing
<1> QED BY <1>1, <1>2 DEF TInv

LEMMA TInvStep ==
    ASSUME TInv, [Next]_vars
    PROVE  TInv'
<1>1. ASSUME NEW b \in Builds, BuildStep(b) PROVE TInv'
  BY <1>1, PlanningTyped DEF BuildStep
<1>2. ASSUME NEW j \in Jobs, JobStep(j) PROVE TInv'
  BY <1>2, JobTyped, AdoptTyped
<1>3. ASSUME NEW d \in Artifacts, Install(d) PROVE TInv'
  BY <1>3 DEF Install, TInv, TypeOK, Started, Journaled, FreshHead, Current, work, heads
<1>4. ASSUME NEW e \in Events, Acknowledge(e) PROVE TInv'
  BY <1>4 DEF Acknowledge, TInv, TypeOK, Started, Journaled, FreshHead, Current, work
<1>5. CASE UNCHANGED vars
  BY <1>5 DEF vars, work, heads, TInv, TypeOK, Started, Journaled, FreshHead, Current
<1> QED BY <1>1, <1>2, <1>3, <1>4, <1>5, CommitTyped, ImportTyped, RecoverTyped DEF Next

\* Every row keeps its type, for any instance.
THEOREM TypeCorrect == Spec => []TypeOK
<1>1. TInv => TypeOK
  BY DEF TInv
<1> QED BY <1>1, TInvInit, TInvStep, PTL DEF Spec

----------------------------------------------------------------------------
(* The history of heads.  A writer moves the head of a target by one from   *)
(* the generation it compares with, so the new history row extends the log. *)

LEMMA HistoryExtended ==
    ASSUME TInv, HeadHistory, NEW t \in Targets, NEW v \in Versions, NEW e \in Events,
           NEW c \in {"publication", "cache_reuse"},
           MoveHead(t, v, e, head[t].generation, c)
    PROVE  HeadHistory'
<1> DEFINE n == head[t].generation
<1> DEFINE row == [event |-> e, target |-> t, previous |-> head[t].version, version |-> v,
                   generation |-> n + 1, cause |-> c]
<1>1. n \in Nat
  BY DEF TInv, TypeOK, HeadRow
<1>2. /\ head'[t].version = v /\ head'[t].generation = n + 1
      /\ \A u \in Targets : u # t => head'[u] = head[u]
  <2>1. head'[t] = [version |-> v, generation |-> n + 1]
        /\ \A u \in Targets : u # t => head'[u] = head[u]
    BY <1>1, HeadMoved DEF TInv
  <2> QED BY <2>1
<1>3. changes' = changes \cup {row}
  BY DEF MoveHead
<1>4. \A x \in changes : x.generation \in Nat \ {0}
  BY DEF TInv, TypeOK, Change
<1>5. row.target = t /\ row.generation = n + 1 /\ row.version = v /\ row.previous = head[t].version
  OBVIOUS
<1> HIDE DEF row
<1> SUFFICES ASSUME NEW u \in Targets
             PROVE  /\ \A x \in changes' : x.target = u => x.generation \in 1..head'[u].generation
                    /\ \A g \in 1..head'[u].generation : \E x \in changes' :
                        /\ {y \in changes' : y.target = u /\ y.generation = g} = {x}
                        /\ g = head'[u].generation => x.version = head'[u].version
                        /\ g = 1 => x.previous = None
                        /\ g > 1 => \E p \in {y \in changes' : y.target = u /\ y.generation = g - 1} :
                                        x.previous = p.version
                    /\ head'[u].generation = 0 => head'[u].version = None
  BY DEF HeadHistory
<1>6. CASE u # t
  <2>1. head'[u] = head[u]
    BY <1>2, <1>6
  <2>2. \A g : {y \in changes' : y.target = u /\ y.generation = g}
             = {y \in changes : y.target = u /\ y.generation = g}
    BY <1>3, <1>5, <1>6
  <2>3. \A x \in changes' : x.target = u => x \in changes
    BY <1>3, <1>5, <1>6
  <2> QED BY <1>3, <2>1, <2>2, <2>3 DEF HeadHistory
<1>7. CASE u = t
  <2>1. \A x \in changes : x.target = t => x.generation \in 1..n
    BY DEF HeadHistory
  <2>2. \A g \in 1..n : {y \in changes' : y.target = t /\ y.generation = g}
                     = {y \in changes : y.target = t /\ y.generation = g}
    BY <1>1, <1>3, <1>5
  <2>3. {y \in changes' : y.target = t /\ y.generation = n + 1} = {row}
    BY <1>1, <1>3, <1>5, <2>1
  <2>4. \A x \in changes' : x.target = t => x.generation \in 1..n + 1
    BY <1>1, <1>3, <1>5, <2>1
  <2>5. ASSUME NEW g \in 1..n
        PROVE  \E x \in changes' :
                  /\ {y \in changes' : y.target = t /\ y.generation = g} = {x}
                  /\ g = n + 1 => x.version = v
                  /\ g = 1 => x.previous = None
                  /\ g > 1 => \E p \in {y \in changes' : y.target = t /\ y.generation = g - 1} :
                                  x.previous = p.version
    <3>1. PICK x \in changes :
              /\ {y \in changes : y.target = t /\ y.generation = g} = {x}
              /\ g = 1 => x.previous = None
              /\ g > 1 => \E p \in {y \in changes : y.target = t /\ y.generation = g - 1} :
                              x.previous = p.version
      BY DEF HeadHistory
    <3>2. g > 1 => g - 1 \in 1..n
      BY <1>1
    <3> QED BY <1>1, <1>3, <2>2, <3>1, <3>2
  <2>6. /\ n + 1 = 1 => row.previous = None
        /\ n + 1 > 1 => \E p \in {y \in changes' : y.target = t /\ y.generation = n} :
                            row.previous = p.version
    <3>1. CASE n = 0
      BY <1>5, <3>1 DEF HeadHistory
    <3>2. CASE n # 0
      <4>1. n \in 1..n
        BY <1>1, <3>2
      <4>2. PICK x \in changes :
                /\ {y \in changes : y.target = t /\ y.generation = n} = {x}
                /\ x.version = head[t].version
        BY <4>1 DEF HeadHistory
      <4>3. x \in {y \in changes' : y.target = t /\ y.generation = n}
        BY <2>2, <4>1, <4>2
      <4>4. row.previous = x.version
        BY <1>5, <4>2
      <4>5. n + 1 # 1
        BY <1>1, <3>2
      <4> QED BY <4>3, <4>4, <4>5
    <3> QED BY <3>1, <3>2
  <2>7. ASSUME NEW g, g = n + 1
        PROVE  \E x \in changes' :
                  /\ {y \in changes' : y.target = t /\ y.generation = g} = {x}
                  /\ g = n + 1 => x.version = v
                  /\ g = 1 => x.previous = None
                  /\ g > 1 => \E p \in {y \in changes' : y.target = t /\ y.generation = g - 1} :
                                  x.previous = p.version
    <3>1. g - 1 = n /\ row \in changes'
      BY <1>1, <1>3, <2>7
    <3>2. {y \in changes' : y.target = t /\ y.generation = g - 1}
          = {y \in changes' : y.target = t /\ y.generation = n}
      BY <3>1
    <3>3. {y \in changes' : y.target = t /\ y.generation = g} = {row}
      BY <2>3, <2>7
    <3> WITNESS row \in changes'
    <3> QED BY <1>5, <2>6, <2>7, <3>2, <3>3
  <2>8. 1..n + 1 = 1..n \cup {n + 1} /\ n + 1 # 0
    BY <1>1
  <2>9. ASSUME NEW g \in 1..n + 1
        PROVE  \E x \in changes' :
                  /\ {y \in changes' : y.target = t /\ y.generation = g} = {x}
                  /\ g = n + 1 => x.version = v
                  /\ g = 1 => x.previous = None
                  /\ g > 1 => \E p \in {y \in changes' : y.target = t /\ y.generation = g - 1} :
                                  x.previous = p.version
    <3>1. CASE g = n + 1
      BY <2>7, <3>1
    <3>2. CASE g \in 1..n
      BY <2>5, <3>2
    <3> QED BY <2>8, <3>1, <3>2
  <2>10. head'[u].generation = n + 1 /\ head'[u].version = v /\ head'[u].generation # 0
    BY <1>2, <1>7, <2>8
  <2> QED BY <1>7, <2>4, <2>9, <2>10
<1> QED BY <1>6, <1>7

\* The only ways the tables of versions and heads move: a new version becomes
\* the head of its target, or an older one of the same target does.
Published(t, v, e, c) ==
    /\ MoveHead(t, v, e, head[t].generation, c)
    /\ version[v] = None /\ version'[v] # None
    /\ \A w \in Versions : w # v => version'[w] = version[w]
    /\ v \in Attempts => TargetOf[v[1]] = t

Reused(t, v, e) ==
    /\ MoveHead(t, v, e, head[t].generation, "cache_reuse")
    /\ v \in Attempts /\ version[v] # None /\ TargetOf[v[1]] = t
    /\ head[t].version # v
    /\ UNCHANGED version

\* A version of an attempt belongs to a committed intent: a commit that may be
\* repeated finds that its version is new.
Committed == \A a \in Attempts : version[a] # None =>
    intent[a] # None /\ intent[a].state = "COMMITTED"

LEMMA HeadStep ==
    ASSUME TInv, Committed, [Next]_vars
    PROVE  \/ UNCHANGED <<head, changes, version>>
           \/ \E t \in Targets, v \in Versions, e \in Events :
                \/ Published(t, v, e, "publication")
                \/ Reused(t, v, e)
<1>1. ASSUME NEW a \in Attempts, CommitPublication(a)
      PROVE  \E t \in Targets, v \in Versions, e \in Events : Published(t, v, e, "publication")
  <2> DEFINE t == TargetOf[a[1]]
  <2>1. t \in Targets /\ a \in Versions /\ a \in Events
    BY PairTyped
  <2>2. intent[a] \in Intent /\ intent[a].artifact \in Artifacts
    BY <1>1 DEF CommitPublication, TInv, TypeOK, Intent
  <2>3. MoveHead(t, a, a, head[t].generation, "publication")
    BY <1>1 DEF CommitPublication, PublishGuards
  <2>4. version[a] = None
    BY <1>1 DEF CommitPublication, Committed
  <2>5. version'[a] # None /\ \A w \in Versions : w # a => version'[w] = version[w]
    BY <1>1, <2>1, <2>2, IdentityAssumption DEF CommitPublication, TInv, TypeOK
  <2>6. Published(t, a, a, "publication")
    BY <2>3, <2>4, <2>5 DEF Published
  <2> QED BY <2>1, <2>6
<1>2. ASSUME NEW j \in Jobs, NEW v \in Attempts, AdoptCache(j, v)
      PROVE  \/ UNCHANGED <<head, changes, version>>
             \/ \E t \in Targets, w \in Versions, e \in Events : Reused(t, w, e)
  <2> DEFINE t == TargetOf[j]
  <2>1. t \in Targets /\ v \in Versions /\ j \in Events
    BY PairTyped
  <2>2. UNCHANGED version /\ version[v] # None /\ TargetOf[v[1]] = t
    BY <1>2 DEF AdoptCache, ReusableBy
  <2>3. CASE head[t].version # v /\ MoveHead(t, v, j, head[t].generation, "cache_reuse")
    BY <2>1, <2>2, <2>3 DEF Reused
  <2>4. CASE UNCHANGED <<head, changes, outbox>>
    BY <2>2, <2>4
  <2> QED BY <1>2, <2>3, <2>4, Adopted
<1>3. ASSUME NEW i \in Imports, CommitImport(i)
      PROVE  \E t \in Targets, v \in Versions, e \in Events : Published(t, v, e, "publication")
  <2> DEFINE t == importPlan[i].target
  <2>1. importPlan[i] \in ImportPlan /\ i \in Versions /\ i \in Events /\ i \notin Attempts
    BY <1>3, PairTyped, IdentityAssumption DEF CommitImport, TInv, TypeOK
  <2>2. t \in Targets /\ importPlan[i].artifact \in Artifacts
    BY <2>1 DEF ImportPlan
  <2>3. MoveHead(t, i, i, head[t].generation, "publication")
    BY <1>3 DEF CommitImport
  <2>4. version[i] = None /\ version'[i] # None /\ \A w \in Versions : w # i => version'[w] = version[w]
    BY <1>3, <2>1, <2>2, IdentityAssumption DEF CommitImport, TInv, TypeOK
  <2>5. Published(t, i, i, "publication")
    BY <2>1, <2>3, <2>4 DEF Published
  <2> QED BY <2>1, <2>2, <2>5
<1>4. ASSUME NEW b \in Builds, BuildStep(b) PROVE UNCHANGED <<head, changes, version>>
  BY <1>4 DEF BuildStep, Draft, Accept, StartDispatch, FinishDispatch, Cancel, heads
<1>5. ASSUME NEW j \in Jobs, JobStep(j), \A v \in Attempts : ~AdoptCache(j, v)
      PROVE  UNCHANGED <<head, changes, version>>
  BY <1>5 DEF JobStep, Queue, StartAttempt, Validate, CancelJob, Block, FailAttempt, PreparePublication, SetJob, heads
<1>6. ASSUME NEW i \in Imports, ImportStep(i), ~CommitImport(i) PROVE UNCHANGED <<head, changes, version>>
  BY <1>6 DEF ImportStep, PlanImport, heads
<1>7. ASSUME NEW d \in Artifacts, Install(d) PROVE UNCHANGED <<head, changes, version>>
  BY <1>7 DEF Install, heads
<1>8. ASSUME NEW e \in Events, Acknowledge(e) PROVE UNCHANGED <<head, changes, version>>
  BY <1>8 DEF Acknowledge
<1>9. CASE Recover
  BY <1>9 DEF Recover, heads
<1>10. CASE UNCHANGED vars
  BY <1>10 DEF vars, heads
<1> QED BY <1>1, <1>2, <1>3, <1>4, <1>5, <1>6, <1>7, <1>8, <1>9, <1>10 DEF Next

\* Nothing takes a committed intent back or gives a version to another one.
LEMMA CommittedKept ==
    ASSUME TInv, Committed, [Next]_vars
    PROVE  Committed'
<1>1. ASSUME NEW a \in Attempts, CommitPublication(a) PROVE Committed'
  <2>1. a \in Versions /\ \A c \in Attempts : c \in Versions
    BY PairTyped
  <2>2. intent'[a] = [intent[a] EXCEPT !.state = "COMMITTED"] /\ \A c \in Attempts : c # a => intent'[c] = intent[c]
    BY <1>1 DEF CommitPublication, TInv, TypeOK
  <2>3. intent'[a] \in Intent /\ intent'[a].state = "COMMITTED"
    BY <1>1, <2>2 DEF CommitPublication, TInv, TypeOK, Intent
  <2>4. \A c \in Attempts : c # a => version'[c] = version[c]
    BY <1>1, <2>1 DEF CommitPublication, TInv, TypeOK
  <2> QED BY <2>2, <2>3, <2>4, RowAssumption DEF Committed
<1>2. ASSUME NEW j \in Jobs, NEW d \in Artifacts, PreparePublication(j, d) PROVE Committed'
  BY <1>2 DEF PreparePublication, TInv, TypeOK, Committed, heads
<1>3. CASE Recover
  BY <1>3 DEF Recover, TInv, TypeOK, Committed, heads
<1>4. ASSUME NEW i \in Imports, CommitImport(i) PROVE Committed'
  BY <1>4, IdentityAssumption DEF CommitImport, TInv, TypeOK, Committed, Versions
<1>5. ASSUME UNCHANGED <<intent, version>> PROVE Committed'
  BY <1>5 DEF Committed
<1>6. ASSUME NEW b \in Builds, BuildStep(b) PROVE UNCHANGED <<intent, version>>
  BY <1>6 DEF BuildStep, Draft, Accept, StartDispatch, FinishDispatch, Cancel, heads
<1>7. ASSUME NEW j \in Jobs, JobStep(j), \A d \in Artifacts : ~PreparePublication(j, d)
      PROVE  UNCHANGED <<intent, version>>
  BY <1>7 DEF JobStep, Queue, StartAttempt, Validate, CancelJob, Block, FailAttempt, AdoptCache, SetJob, heads
<1>8. ASSUME NEW i \in Imports, ImportStep(i), ~CommitImport(i) PROVE UNCHANGED <<intent, version>>
  BY <1>8 DEF ImportStep, PlanImport, heads
<1>9. ASSUME NEW d \in Artifacts, Install(d) PROVE UNCHANGED <<intent, version>>
  BY <1>9 DEF Install, heads
<1>10. ASSUME NEW e \in Events, Acknowledge(e) PROVE UNCHANGED <<intent, version>>
  BY <1>10 DEF Acknowledge
<1>11. ASSUME UNCHANGED vars PROVE UNCHANGED <<intent, version>>
  BY <1>11 DEF vars, heads
<1> QED BY <1>1, <1>2, <1>3, <1>4, <1>5, <1>6, <1>7, <1>8, <1>9, <1>10, <1>11 DEF Next

\* Every head has a gapless, predecessor-linked history, for any number of
\* builds, imports and reuses that compete for it.
THEOREM HistoryKept == Spec => []HeadHistory
<1> DEFINE I == TInv /\ Committed /\ HeadHistory
<1>1. Init => I
  <2>1. Init => Committed
    BY DEF Init, Committed, Versions
  <2>2. Init => HeadHistory
    BY DEF Init, HeadHistory
  <2> QED BY <2>1, <2>2, TInvInit
<1>2. I /\ [Next]_vars => I'
  <2> SUFFICES ASSUME I, [Next]_vars PROVE HeadHistory'
    BY TInvStep, CommittedKept
  <2>1. CASE UNCHANGED <<head, changes, version>>
    BY <2>1 DEF HeadHistory
  <2>2. ASSUME NEW t \in Targets, NEW v \in Versions, NEW e \in Events,
               Published(t, v, e, "publication") \/ Reused(t, v, e)
        PROVE  HeadHistory'
    BY <2>2, HistoryExtended DEF Published, Reused
  <2> QED BY <2>1, <2>2, HeadStep
<1>3. I => HeadHistory
  OBVIOUS
<1> QED BY <1>1, <1>2, <1>3, PTL DEF Spec

----------------------------------------------------------------------------
(* Publication implements HeadLog.                                          *)

\* The versions that exist and the rows of the history name each other.
Entered ==
    /\ \A c \in changes : version[c.version] # None
    /\ \A a \in Attempts : version[a] # None =>
        \E c \in changes : c.version = a /\ c.target = TargetOf[a[1]]

LInv == TInv /\ Committed /\ HeadHistory /\ Entered

LEMMA EnteredKept ==
    ASSUME LInv, [Next]_vars
    PROVE  Entered'
<1>1. CASE UNCHANGED <<head, changes, version>>
  BY <1>1 DEF LInv, Entered
<1>2. ASSUME NEW t \in Targets, NEW v \in Versions, NEW e \in Events,
             Published(t, v, e, "publication")
      PROVE  Entered'
  <2> DEFINE row == [event |-> e, target |-> t, previous |-> head[t].version, version |-> v,
                     generation |-> head[t].generation + 1, cause |-> "publication"]
  <2>1. changes' = changes \cup {row} /\ row.version = v /\ row.target = t
    BY <1>2 DEF Published, MoveHead
  <2> HIDE DEF row
  <2>2. \A c \in changes : c.version \in Versions
    BY DEF LInv, TInv, TypeOK, Change
  <2>3. \A w \in Versions : version[w] # None => version'[w] # None
    BY <1>2 DEF Published
  <2>4. version'[v] # None
    BY <1>2 DEF Published
  <2>5. \A c \in changes' : version'[c.version] # None
    BY <2>1, <2>2, <2>3, <2>4 DEF LInv, Entered
  <2>6. ASSUME NEW a \in Attempts, version'[a] # None
        PROVE  \E c \in changes' : c.version = a /\ c.target = TargetOf[a[1]]
    <3>1. CASE a = v
      BY <1>2, <2>1, <3>1 DEF Published
    <3>2. CASE a # v
      BY <1>2, <2>1, <2>6, <3>2, PairTyped DEF Published, LInv, Entered
    <3> QED BY <3>1, <3>2
  <2> QED BY <2>5, <2>6 DEF Entered
<1>3. ASSUME NEW t \in Targets, NEW v \in Versions, NEW e \in Events, Reused(t, v, e)
      PROVE  Entered'
  <2> DEFINE row == [event |-> e, target |-> t, previous |-> head[t].version, version |-> v,
                     generation |-> head[t].generation + 1, cause |-> "cache_reuse"]
  <2>1. changes' = changes \cup {row} /\ row.version = v /\ UNCHANGED version
    BY <1>3 DEF Reused, MoveHead
  <2> HIDE DEF row
  <2> QED BY <1>3, <2>1 DEF Reused, LInv, Entered
<1> QED BY <1>1, <1>2, <1>3, HeadStep DEF LInv

\* A choice among rows of which there is one.
LEMMA TheRow ==
    ASSUME NEW C, NEW t, NEW g, NEW x \in C,
           {y \in C : y.target = t /\ y.generation = g} = {x}
    PROVE  (CHOOSE c \in C : c.target = t /\ c.generation = g) = x
<1> DEFINE k == CHOOSE c \in C : c.target = t /\ c.generation = g
<1>1. x.target = t /\ x.generation = g
  OBVIOUS
<1>2. k \in C /\ k.target = t /\ k.generation = g
  BY <1>1
<1> HIDE DEF k
<1>3. k = x
  BY <1>2
<1> QED BY <1>3 DEF k

\* A function on 1..n is a sequence.
LEMMA AsSeq ==
    ASSUME NEW S, NEW n \in Nat, NEW f \in [1..n -> S]
    PROVE  f \in Seq(S) /\ Len(f) = n
OBVIOUS

LEMMA HistoryTyped ==
    ASSUME LInv, NEW t \in Targets
    PROVE  /\ head[t].generation \in Nat
           /\ HistoryOf(t) \in Seq(Versions) /\ Len(HistoryOf(t)) = head[t].generation
           /\ \A g \in 1..head[t].generation : \E x \in changes :
                {y \in changes : y.target = t /\ y.generation = g} = {x}
                /\ HistoryOf(t)[g] = x.version
           /\ head[t].generation > 0 => HistoryOf(t)[head[t].generation] = head[t].version
           /\ head[t].generation = 0 => head[t].version = None
<1> DEFINE n == head[t].generation
<1>1. n \in Nat
  BY DEF LInv, TInv, TypeOK, HeadRow
<1>2. ASSUME NEW g \in 1..n
      PROVE  \E x \in changes :
                /\ {y \in changes : y.target = t /\ y.generation = g} = {x}
                /\ HistoryOf(t)[g] = x.version
                /\ g = n => x.version = head[t].version
  <2>1. PICK x \in changes :
            /\ {y \in changes : y.target = t /\ y.generation = g} = {x}
            /\ g = n => x.version = head[t].version
    BY DEF LInv, HeadHistory
  <2>2. (CHOOSE c \in changes : c.target = t /\ c.generation = g) = x
    BY <2>1, TheRow
  <2>3. HistoryOf(t)[g] = x.version
    BY <2>2 DEF HistoryOf
  <2> QED BY <2>1, <2>3
<1>3. HistoryOf(t) \in [1..n -> Versions]
  <2>1. \A g \in 1..n : HistoryOf(t)[g] \in Versions
    BY <1>2 DEF LInv, TInv, TypeOK, Change
  <2> QED BY <2>1 DEF HistoryOf
<1>4. HistoryOf(t) \in Seq(Versions) /\ Len(HistoryOf(t)) = n
  BY <1>1, <1>3, AsSeq
<1>5. n > 0 => HistoryOf(t)[n] = head[t].version
  <2> SUFFICES ASSUME n > 0 PROVE HistoryOf(t)[n] = head[t].version
    OBVIOUS
  <2>1. n \in 1..n
    BY <1>1
  <2> QED BY <1>2, <2>1
<1>6. n = 0 => head[t].version = None
  BY DEF LInv, HeadHistory
<1> QED BY <1>1, <1>2, <1>4, <1>5, <1>6

\* A moved head appends its version to the history of its target.
LEMMA HistoryAppended ==
    ASSUME LInv, NEW t \in Targets, NEW v \in Versions, NEW e \in Events,
           NEW c \in {"publication", "cache_reuse"},
           MoveHead(t, v, e, head[t].generation, c)
    PROVE  /\ HistoryOf(t)' = Append(HistoryOf(t), v)
           /\ \A u \in Targets : u # t => HistoryOf(u)' = HistoryOf(u)
<1> DEFINE n == head[t].generation
<1> DEFINE row == [event |-> e, target |-> t, previous |-> head[t].version, version |-> v,
                   generation |-> n + 1, cause |-> c]
<1>1. n \in Nat /\ HistoryOf(t) \in Seq(Versions) /\ Len(HistoryOf(t)) = n
  BY HistoryTyped
<1>2. head'[t].generation = n + 1 /\ \A u \in Targets : u # t => head'[u] = head[u]
  <2>1. head'[t] = [version |-> v, generation |-> n + 1]
        /\ \A u \in Targets : u # t => head'[u] = head[u]
    <3>1. TypeOK
      BY DEF LInv, TInv
    <3> QED BY <1>1, <3>1, HeadMoved
  <2> QED BY <2>1
<1>3. changes' = changes \cup {row} /\ row.target = t /\ row.generation = n + 1 /\ row.version = v
  BY DEF MoveHead
<1> HIDE DEF row
<1>4. ASSUME NEW u \in Targets, NEW g \in 1..head[u].generation
      PROVE  \E x \in changes : HistoryOf(u)[g] = x.version
                /\ (CHOOSE y \in changes' : y.target = u /\ y.generation = g) = x
  <2>1. PICK x \in changes :
            {y \in changes : y.target = u /\ y.generation = g} = {x}
            /\ HistoryOf(u)[g] = x.version
    BY HistoryTyped
  <2>2. ~(row.target = u /\ row.generation = g)
    BY <1>1, <1>3
  <2>3. {y \in changes' : y.target = u /\ y.generation = g} = {x} /\ x \in changes'
    BY <1>3, <2>1, <2>2
  <2>4. (CHOOSE y \in changes' : y.target = u /\ y.generation = g) = x
    BY <2>3, TheRow
  <2> QED BY <2>1, <2>4
<1>5. ASSUME NEW u \in Targets, u # t PROVE HistoryOf(u)' = HistoryOf(u)
  <2>1. \A g \in 1..head[u].generation :
            (CHOOSE y \in changes' : y.target = u /\ y.generation = g).version = HistoryOf(u)[g]
    BY <1>4, ZenonT(40)
  <2>2. \A g \in 1..head[u].generation :
            (CHOOSE y \in changes : y.target = u /\ y.generation = g).version = HistoryOf(u)[g]
    BY DEF HistoryOf
  <2>3. head'[u].generation = head[u].generation
    BY <1>2, <1>5
  <2> QED BY <2>1, <2>2, <2>3, ZenonT(40) DEF HistoryOf
<1>6. HistoryOf(t)' = Append(HistoryOf(t), v)
  <2>1. \A g \in 1..n :
            (CHOOSE y \in changes' : y.target = t /\ y.generation = g).version = HistoryOf(t)[g]
    BY <1>4, ZenonT(40)
  <2>2. {y \in changes' : y.target = t /\ y.generation = n + 1} = {row} /\ row \in changes'
    <3>1. \A y \in changes : y.target = t => y.generation \in 1..n
      BY DEF LInv, HeadHistory
    <3> QED BY <1>1, <1>3, <3>1
  <2>3. (CHOOSE y \in changes' : y.target = t /\ y.generation = n + 1) = row
    BY <2>2, TheRow
  <2>4. HistoryOf(t)' = [g \in 1..n + 1 |->
            (CHOOSE y \in changes' : y.target = t /\ y.generation = g).version]
    BY <1>2 DEF HistoryOf
  <2>5. \A g \in 1..n : HistoryOf(t)'[g] = HistoryOf(t)[g]
    BY <1>1, <2>1, <2>4
  <2>6. HistoryOf(t)'[n + 1] = v
    BY <1>1, <1>3, <2>3, <2>4
  <2>7. \A g \in 1..n : HistoryOf(t)[g] \in Versions
    BY <1>1, ElementOfSeq
  <2>8. \A g \in 1..n + 1 : HistoryOf(t)'[g] \in Versions
    BY <1>1, <2>5, <2>6, <2>7
  <2>9. HistoryOf(t)' \in [1..n + 1 -> Versions] /\ n + 1 \in Nat
    <3> DEFINE F(g) == (CHOOSE y \in changes' : y.target = t /\ y.generation = g).version
    <3>1. \A g \in 1..n + 1 : F(g) \in Versions
      BY <2>4, <2>8, ZenonT(40)
    <3>2. HistoryOf(t)' = [g \in 1..n + 1 |-> F(g)]
      BY <2>4
    <3> HIDE DEF F
    <3> QED BY <1>1, <3>1, <3>2
  <2>10. HistoryOf(t)' \in Seq(Versions) /\ Len(HistoryOf(t)') = n + 1
    BY <2>9, AsSeq
  <2>11. /\ Append(HistoryOf(t), v) \in Seq(Versions) /\ Len(Append(HistoryOf(t), v)) = n + 1
         /\ \A g \in 1..n : Append(HistoryOf(t), v)[g] = HistoryOf(t)[g]
         /\ Append(HistoryOf(t), v)[n + 1] = v
    BY <1>1, AppendProperties
  <2>12. \A g \in 1..n + 1 : HistoryOf(t)'[g] = Append(HistoryOf(t), v)[g]
    BY <1>1, <2>5, <2>6, <2>11
  <2> QED BY <2>10, <2>11, <2>12, SeqEqual
<1> QED BY <1>5, <1>6

\* Publication implements the log each reader of a head relies on: a commit or
\* an import appends a version that is new to every log, a reuse appends an older
\* version of the same log, and no restart, retry or rival does anything else.
THEOREM ImplementsLog == Spec => LogSpec
<1> DEFINE l == [t \in Targets |-> HistoryOf(t)]
<1>1. Init => Log!Init
  <2> SUFFICES ASSUME Init, NEW t \in Targets PROVE HistoryOf(t) = <<>>
    BY DEF Log!Init
  <2> QED BY DEF Init, HistoryOf
<1>2. Init => LInv
  <2>1. Init => Committed /\ HeadHistory /\ Entered
    BY DEF Init, Committed, HeadHistory, Entered, Versions
  <2> QED BY <2>1, TInvInit DEF LInv
<1>3. LInv /\ [Next]_vars => LInv'
  <2> SUFFICES ASSUME LInv, [Next]_vars PROVE HeadHistory'
    BY TInvStep, CommittedKept, EnteredKept DEF LInv
  <2>1. CASE UNCHANGED <<head, changes, version>>
    BY <2>1 DEF LInv, HeadHistory
  <2>2. ASSUME NEW t \in Targets, NEW v \in Versions, NEW e \in Events,
               Published(t, v, e, "publication") \/ Reused(t, v, e)
        PROVE  HeadHistory'
    BY <2>2, HistoryExtended DEF Published, Reused, LInv
  <2> QED BY <2>1, <2>2, HeadStep DEF LInv
<1>4. LInv /\ [Next]_vars => [Log!Next]_l
  <2> SUFFICES ASSUME LInv, [Next]_vars PROVE [Log!Next]_l
    OBVIOUS
  <2>1. CASE UNCHANGED <<head, changes, version>>
    BY <2>1 DEF HistoryOf
  <2>2. ASSUME NEW t \in Targets, NEW v \in Versions, NEW e \in Events,
               Published(t, v, e, "publication")
        PROVE  Log!Publish(t, v)
    <3>1. l' = [l EXCEPT ![t] = Append(l[t], v)]
      BY <2>2, HistoryAppended DEF Published
    <3>2. ASSUME NEW u \in Targets, NEW g \in 1..Len(HistoryOf(u)) PROVE HistoryOf(u)[g] # v
      <4>1. PICK x \in changes : HistoryOf(u)[g] = x.version
        BY HistoryTyped
      <4> QED BY <2>2, <4>1 DEF LInv, Entered, Published
    <3> QED BY <3>1, <3>2 DEF Log!Publish, Log!Entries
  <2>3. ASSUME NEW t \in Targets, NEW v \in Versions, NEW e \in Events, Reused(t, v, e)
        PROVE  Log!Reuse(t, v)
    <3> DEFINE n == head[t].generation
    <3>1. l' = [l EXCEPT ![t] = Append(l[t], v)]
      BY <2>3, HistoryAppended DEF Reused
    <3>2. n \in Nat /\ Len(HistoryOf(t)) = n
      BY HistoryTyped
    <3>3. PICK c \in changes : c.version = v /\ c.target = t
      BY <2>3 DEF Reused, LInv, Entered
    <3>4. c.generation \in 1..n
      BY <3>3 DEF LInv, HeadHistory
    <3>5. HistoryOf(t)[c.generation] = v
      <4>1. PICK x \in changes :
                {y \in changes : y.target = t /\ y.generation = c.generation} = {x}
                /\ HistoryOf(t)[c.generation] = x.version
        BY <3>4, HistoryTyped
      <4> QED BY <3>3, <4>1
    <3>6. HistoryOf(t)[n] # v
      BY <2>3, <3>2, <3>4, HistoryTyped DEF Reused
    <3> QED BY <3>1, <3>2, <3>4, <3>5, <3>6 DEF Log!Reuse, Log!Entries
  <2> QED BY <2>1, <2>2, <2>3, HeadStep DEF LInv, Log!Next
<1> QED BY <1>1, <1>2, <1>3, <1>4, PTL DEF Spec, LogSpec, Log!Spec

----------------------------------------------------------------------------
(* Durability: nothing visible lacks its bytes.                             *)

\* Who writes a version finds its object on disk, and no step removes one.
LEMMA VersionOnDisk ==
    ASSUME TInv, [Next]_vars
    PROVE  /\ installed \subseteq installed'
           /\ \A v \in Versions : version'[v] = version[v] \/ version'[v] \in installed
<1>1. ASSUME NEW a \in Attempts, CommitPublication(a)
      PROVE  \A v \in Versions : version'[v] = version[v] \/ version'[v] \in installed
  <2>1. version' = [version EXCEPT ![a] = intent[a].artifact] /\ intent[a].artifact \in installed
    BY <1>1 DEF CommitPublication, OnDisk
  <2> QED BY <2>1 DEF TInv, TypeOK
<1>2. ASSUME NEW i \in Imports, CommitImport(i)
      PROVE  \A v \in Versions : version'[v] = version[v] \/ version'[v] \in installed
  <2>1. version' = [version EXCEPT ![i] = importPlan[i].artifact] /\ importPlan[i].artifact \in installed
    BY <1>2 DEF CommitImport, OnDisk
  <2> QED BY <2>1 DEF TInv, TypeOK
<1>3. ASSUME NEW d \in Artifacts, Install(d) PROVE installed \subseteq installed' /\ UNCHANGED version
  BY <1>3 DEF Install, heads
<1>4. CASE \/ \E a \in Attempts : CommitPublication(a)
           \/ \E i \in Imports : CommitImport(i)
  BY <1>1, <1>2, <1>4 DEF CommitPublication, CommitImport
<1>5. ASSUME NEW b \in Builds, BuildStep(b) PROVE UNCHANGED <<installed, version>>
  BY <1>5 DEF BuildStep, Draft, Accept, StartDispatch, FinishDispatch, Cancel, heads
<1>6. ASSUME NEW j \in Jobs, JobStep(j) PROVE UNCHANGED <<installed, version>>
  BY <1>6 DEF JobStep, Queue, StartAttempt, Validate, CancelJob, Block, FailAttempt,
              PreparePublication, AdoptCache, SetJob, heads
<1>7. ASSUME NEW i \in Imports, ImportStep(i), ~CommitImport(i) PROVE UNCHANGED <<installed, version>>
  BY <1>7 DEF ImportStep, PlanImport, heads
<1>8. ASSUME NEW e \in Events, Acknowledge(e) PROVE UNCHANGED <<installed, version>>
  BY <1>8 DEF Acknowledge
<1>9. ASSUME Recover PROVE UNCHANGED <<installed, version>>
  BY <1>9 DEF Recover, heads
<1>10. ASSUME UNCHANGED vars PROVE UNCHANGED <<installed, version>>
  BY <1>10 DEF vars, heads
<1> QED BY <1>3, <1>4, <1>5, <1>6, <1>7, <1>8, <1>9, <1>10 DEF Next

\* A head names a version that exists.
LEMMA HeadDurable ==
    ASSUME TInv, Committed, VisibleIsDurable, [Next]_vars, NEW t \in Targets,
           head'[t].version # None
    PROVE  version'[head'[t].version] # None
<1>1. CASE UNCHANGED <<head, changes, version>>
  BY <1>1 DEF VisibleIsDurable
<1>2. ASSUME NEW u \in Targets, NEW v \in Versions, NEW e \in Events,
             Published(u, v, e, "publication") \/ Reused(u, v, e)
      PROVE  version'[head'[t].version] # None
  <2>1. head' = [head EXCEPT ![u] = [version |-> v, generation |-> head[u].generation + 1]]
    BY <1>2 DEF Published, Reused, MoveHead
  <2>2. version'[v] # None /\ \A w \in Versions : version[w] # None => version'[w] # None
    BY <1>2 DEF Published, Reused
  <2>3. \A s \in Targets : head[s].version \in Versions \cup {None}
    BY DEF TInv, TypeOK, HeadRow
  <2>4. CASE t = u
    BY <2>1, <2>2, <2>4 DEF TInv, TypeOK
  <2>5. CASE t # u
    BY <2>1, <2>2, <2>3, <2>5 DEF TInv, TypeOK, VisibleIsDurable
  <2> QED BY <2>4, <2>5
<1> QED BY <1>1, <1>2, HeadStep

\* Whatever a reader can resolve has its bytes on disk, at every point between
\* the journal of an intent, the rename of its object and its commit, for any
\* number of builds, imports and owners.
THEOREM DurableKept == Spec => []VisibleIsDurable
<1> DEFINE I == TInv /\ Committed /\ VisibleIsDurable
<1>1. Init => I
  <2>1. Init => Committed /\ VisibleIsDurable
    BY DEF Init, Committed, VisibleIsDurable, Versions
  <2> QED BY <2>1, TInvInit
<1>2. I /\ [Next]_vars => I'
  <2> SUFFICES ASSUME I, [Next]_vars PROVE VisibleIsDurable'
    BY TInvStep, CommittedKept
  <2>1. \A v \in Versions : version'[v] # None => version'[v] \in installed'
    BY VersionOnDisk DEF VisibleIsDurable
  <2>2. \A t \in Targets : head'[t].version # None => version'[head'[t].version] # None
    BY HeadDurable
  <2> QED BY <2>1, <2>2 DEF VisibleIsDurable
<1>3. I => VisibleIsDurable
  OBVIOUS
<1> QED BY <1>1, <1>2, <1>3, PTL DEF Spec

----------------------------------------------------------------------------
(* Verdicts: two computations of the outcome of a build.                    *)

\* A job that is written belongs to a build that has not ended.
LEMMA EndedIsStill ==
    ASSUME TInv, [Next]_vars, ~Recover, NEW b \in Builds, build[b] \in Ended
    PROVE  build'[b] = build[b] /\ \A j \in JobsOf(b) : job'[j] = job[j]
<1>1. ASSUME NEW c \in Builds, BuildStep(c) PROVE build'[b] = build[b] /\ \A j \in JobsOf(b) : job'[j] = job[j]
  <2>1. (b # c /\ JobsOf(b) \cap JobsOf(c) = {}) \/ UNCHANGED <<build, job>>
    BY <1>1 DEF BuildStep, Draft, Accept, StartDispatch, FinishDispatch, Cancel, Ended, JobsOf
  <2>2. \A j \in JobsOf(b) : j \in Jobs
    BY DEF JobsOf
  <2> QED BY <1>1, <2>1, <2>2 DEF BuildStep, Draft, Accept, StartDispatch, FinishDispatch, Cancel, TInv, TypeOK
<1>2. ASSUME NEW k \in Jobs, job' = [job EXCEPT ![k] = job'[k]], build[BuildOf[k]] \notin Ended, UNCHANGED build
      PROVE  build'[b] = build[b] /\ \A j \in JobsOf(b) : job'[j] = job[j]
  BY <1>2 DEF JobsOf, TInv, TypeOK
<1>3. ASSUME NEW k \in Jobs, JobStep(k) PROVE build'[b] = build[b] /\ \A j \in JobsOf(b) : job'[j] = job[j]
  <2>1. UNCHANGED build /\ job' = [job EXCEPT ![k] = job'[k]]
    BY <1>3 DEF JobStep, Queue, StartAttempt, Validate, CancelJob, Block, FailAttempt,
                PreparePublication, AdoptCache, SetJob, TInv, TypeOK
  <2>2. build[BuildOf[k]] \notin Ended
    <3>1. CASE \E d \in Artifacts : PreparePublication(k, d)
      BY <3>1 DEF PreparePublication, PublishGuards, Ended, Current
    <3>2. CASE \E v \in Attempts : AdoptCache(k, v)
      BY <3>2 DEF AdoptCache, CacheGuards, Live, Ended
    <3>3. CASE Guard(k)
      BY <3>3 DEF Guard, Ended
    <3> QED BY <1>3, <3>1, <3>2, <3>3 DEF JobStep, Queue, StartAttempt, Validate, CancelJob,
                                          Block, FailAttempt, Progressing
  <2> QED BY <1>2, <2>1, <2>2
<1>4. ASSUME NEW a \in Attempts, CommitPublication(a) PROVE build'[b] = build[b] /\ \A j \in JobsOf(b) : job'[j] = job[j]
  <2>1. a[1] \in Jobs
    BY PairTyped
  <2>2. UNCHANGED build /\ job' = [job EXCEPT ![a[1]] = "SUCCEEDED"] /\ build[BuildOf[a[1]]] = "RUNNING"
    BY <1>4 DEF CommitPublication, PublishGuards
  <2>3. a[1] \notin JobsOf(b)
    BY <2>2 DEF JobsOf, Ended
  <2> QED BY <2>1, <2>2, <2>3 DEF JobsOf, TInv, TypeOK
<1>5. ASSUME \/ \E i \in Imports : ImportStep(i)
             \/ \E d \in Artifacts : Install(d)
             \/ \E e \in Events : Acknowledge(e)
             \/ UNCHANGED vars
      PROVE  UNCHANGED <<build, job>>
  BY <1>5 DEF ImportStep, PlanImport, CommitImport, Install, Acknowledge, vars, work
<1> QED BY <1>1, <1>3, <1>4, <1>5 DEF Next

\* What recovery writes to jobs and builds.
LEMMA Recovery ==
    ASSUME TInv, Recover
    PROVE  /\ \A j \in Jobs : job'[j] = InterruptedJob(j)
           /\ \A b \in Builds : build'[b] = IF build[b] = "RUNNING" THEN Recovered(b) ELSE build[b]
<1>1. job' = [j \in Jobs |-> InterruptedJob(j)]
  BY DEF Recover
<1>2. build' = [b \in Builds |-> IF build[b] = "RUNNING" THEN Recovered(b) ELSE build[b]]
  BY DEF Recover
<1> QED BY <1>1, <1>2

\* What it computes is what the dispatcher would have computed.
LEMMA RecoveredVerdict ==
    ASSUME TInv, Recover, NEW b \in Builds, build[b] = "RUNNING"
    PROVE  /\ \A j \in JobsOf(b) : job'[j] \in Finished
           /\ build'[b] = Verdict(b)'
<1>1. \A j \in JobsOf(b) : j \in Jobs /\ job'[j] = InterruptedJob(j) /\ job'[j] \in Finished
  BY Recovery DEF JobsOf, InterruptedJob, Finished, Unsuccessful
<1>2. build'[b] = Recovered(b)
  BY Recovery
<1>3. \A j \in JobsOf(b) : job'[j] \in Successful \cup {"FAILED", "BLOCKED", "CANCELED", "INTERRUPTED"}
  BY <1>1 DEF Finished, Unsuccessful
<1>4. CASE \E j \in JobsOf(b) : job'[j] \in {"FAILED", "BLOCKED"}
  BY <1>1, <1>2, <1>4 DEF Recovered, Verdict, JobsOf
<1>5. CASE /\ ~\E j \in JobsOf(b) : job'[j] \in {"FAILED", "BLOCKED"}
           /\ \A j \in JobsOf(b) : job'[j] \in Successful
  BY <1>1, <1>2, <1>5 DEF Recovered, Verdict, JobsOf, Successful
<1>6. CASE /\ ~\E j \in JobsOf(b) : job'[j] \in {"FAILED", "BLOCKED"}
           /\ ~\A j \in JobsOf(b) : job'[j] \in Successful
  BY <1>1, <1>2, <1>3, <1>6 DEF Recovered, Verdict, JobsOf, Successful
<1> QED BY <1>1, <1>4, <1>5, <1>6

\* A build ends with finished jobs and one verdict, whether its dispatcher ended
\* it or a restart found it running: Build::finish and the update of
\* recover_publications agree for every set of jobs.
THEOREM VerdictKept == Spec => []VerdictAgrees
<1> DEFINE I == TInv /\ VerdictAgrees
<1>1. Init => I
  <2>1. Init => VerdictAgrees
    BY DEF Init, VerdictAgrees, Ended
  <2> QED BY <2>1, TInvInit
<1>2. I /\ [Next]_vars => I'
  <2> SUFFICES ASSUME I, [Next]_vars, NEW b \in Builds, build'[b] \in Ended
               PROVE  (\A j \in JobsOf(b) : job'[j] \in Finished) /\ build'[b] = Verdict(b)'
    BY TInvStep DEF VerdictAgrees, JobsOf
  <2>1. CASE build[b] \in Ended /\ ~Recover
    BY <2>1, EndedIsStill DEF VerdictAgrees, Verdict, JobsOf
  <2>2. CASE build[b] \in Ended /\ Recover
    <3>1. build'[b] = build[b]
      BY <2>2, Recovery DEF Ended
    <3>2. \A j \in JobsOf(b) : job'[j] = job[j]
      BY <2>2, Recovery DEF InterruptedJob, JobsOf, Ended
    <3> QED BY <2>2, <3>1, <3>2 DEF VerdictAgrees, Verdict, JobsOf
  <2>3. CASE build[b] \notin Ended
    <3>1. CASE Recover
      <4>1. build[b] = "RUNNING"
        BY <2>3, <3>1, Recovery
      <4> QED BY <3>1, <4>1, RecoveredVerdict
    <3>2. ASSUME NEW c \in Builds, FinishDispatch(c)
          PROVE  (\A j \in JobsOf(b) : job'[j] \in Finished) /\ build'[b] = Verdict(b)'
      <4>1. b = c /\ UNCHANGED job
        BY <2>3, <3>2 DEF FinishDispatch, TInv, TypeOK
      <4> QED BY <3>2, <4>1 DEF FinishDispatch, TInv, TypeOK, Verdict, JobsOf
    <3>3. ASSUME ~Recover, \A c \in Builds : ~FinishDispatch(c) PROVE build'[b] \notin Ended
      <4>1. ASSUME NEW c \in Builds, Draft(c) \/ Accept(c) \/ StartDispatch(c) \/ Cancel(c)
            PROVE  build'[b] \notin Ended
        BY <2>3, <4>1, SMTT(30) DEF Draft, Accept, StartDispatch, Cancel, Ended, TInv, TypeOK
      <4>2. ASSUME ~\E c \in Builds : BuildStep(c) PROVE UNCHANGED build
        BY <3>3, <4>2 DEF Next, JobStep, Queue, StartAttempt, Validate, CancelJob, Block, FailAttempt,
            PreparePublication, AdoptCache, SetJob, CommitPublication, ImportStep, PlanImport,
            CommitImport, Install, Acknowledge, vars, work
      <4> QED BY <2>3, <3>3, <4>1, <4>2 DEF BuildStep
    <3> QED BY <3>1, <3>2, <3>3
  <2> QED BY <2>1, <2>2, <2>3
<1>3. I => VerdictAgrees
  OBVIOUS
<1> QED BY <1>1, <1>2, <1>3, PTL DEF Spec

----------------------------------------------------------------------------
(* Checks: what an attempt may publish.  The gate compares the results an    *)
(* attempt holds with the rows of the store, so the invariant says how the   *)
(* two agree: an attempt that goes on has recorded all it holds, about its   *)
(* own subjects, and no row answers anything but an obligation.              *)

RowShape(r) ==
    r = [attempt |-> r.attempt, phase |-> r.phase, check |-> r.check, status |-> r.status, error |-> r.error,
         subject |-> r.subject, failed |-> r.failed, sample |-> r.sample, original |-> r.original]
Obliged(r) == RowShape(r) /\ <<r.phase, r.check>> \in Obligations

AttemptShape(x) == x = [phase |-> x.phase, session |-> x.session, candidate |-> x.candidate, held |-> x.held]
GoesOn(x) == x.phase \in {"none", "input", "transform", "output", "approved", "published"}

\* What the attempt a, in the state x, holds and has recorded.
OwnResults(a, x) == \A r \in x.held : r.attempt = a /\ r.subject = Subject(a, r.phase)
Sealed(a, x) ==
    /\ {<<r.phase, r.check>> : r \in x.held} = Obligations
    /\ \A r \in x.held : Acceptable(r.check, r.status)
    /\ \A r, s \in x.held : r.phase = s.phase /\ r.check = s.check => r = s
    /\ \A r \in rows : r.attempt = a => r \in x.held
Evidenced(a, x) ==
    /\ AttemptShape(x) /\ OwnResults(a, x)
    /\ GoesOn(x) => x.held \subseteq rows
    /\ x.phase = "published" => Sealed(a, x)

EvidenceInv ==
    /\ attempts = [a \in DOMAIN attempts |-> attempts[a]]
    /\ \A a \in DOMAIN attempts : Evidenced(a, attempts[a])
    /\ \A r \in rows : Obliged(r)
    /\ \A k \in DOMAIN certificates : Obliged(certificates[k])

\* The evidence of a frozen case.
LEMMA CaseFixed ==
    ASSUME UNCHANGED case
    PROVE  /\ Obligations' = Obligations /\ \A r : Obliged(r)' = Obliged(r)
           /\ \A a, x : OwnResults(a, x)' = OwnResults(a, x)
           /\ \A phase : Group(phase)' = Group(phase)
<1>1. \A phase : Group(phase)' = Group(phase)
  BY DEF Group
<1>2. Obligations' = Obligations
  BY <1>1 DEF Obligations
<1>3. \A r : Obliged(r)' = Obliged(r)
  BY <1>2 DEF Obliged, RowShape
<1>4. ASSUME NEW a, NEW phase PROVE Subject(a, phase)' = Subject(a, phase)
  BY DEF Subject
<1>5. ASSUME NEW a, NEW x PROVE OwnResults(a, x)' = OwnResults(a, x)
  BY <1>4 DEF OwnResults
<1> QED BY <1>1, <1>2, <1>3, <1>5

\* Rows that are added for one attempt, which has not published, and its new state.
LEMMA OneAttempt ==
    ASSUME EvidenceInv, UNCHANGED case, NEW a \in DOMAIN attempts, attempts[a].phase # "published",
           NEW x, attempts' = [attempts EXCEPT ![a] = x], Evidenced(a, x)',
           rows \subseteq rows', \A r \in rows' \ rows : r.attempt = a /\ Obliged(r),
           \A k \in DOMAIN certificates' : Obliged(certificates'[k])
    PROVE  EvidenceInv'
<1>1. DOMAIN attempts' = DOMAIN attempts /\ attempts' = [c \in DOMAIN attempts' |-> attempts'[c]]
      /\ attempts'[a] = x /\ \A c \in DOMAIN attempts \ {a} : attempts'[c] = attempts[c]
  BY DEF EvidenceInv
<1>2. ASSUME NEW c \in DOMAIN attempts \ {a} PROVE Evidenced(c, attempts[c])'
  <2> DEFINE y == attempts[c]
  <2>1. Evidenced(c, y) /\ y = y' /\ attempts'[c] = y
    BY <1>1, <1>2 DEF EvidenceInv
  <2> HIDE DEF y
  <2>2. AttemptShape(y)' /\ OwnResults(c, y)' /\ (GoesOn(y)' => y.held \subseteq rows')
    BY <2>1, CaseFixed DEF Evidenced, AttemptShape, GoesOn
  <2>3. \A r \in rows' : r.attempt = c => r \in rows
    BY <1>2
  <2>4. ASSUME y.phase = "published" PROVE Sealed(c, y)'
    BY <2>1, <2>3, <2>4, CaseFixed DEF Evidenced, Sealed, Acceptable
  <2>5. Evidenced(c, y)'
    BY <2>1, <2>2, <2>4 DEF Evidenced
  <2> QED BY <2>1, <2>5 DEF y
<1> QED BY <1>1, <1>2, CaseFixed DEF EvidenceInv

\* An attempt whose phase and session alone change, while it goes on or is rejected.
LEMMA PhaseMoved ==
    ASSUME EvidenceInv, UNCHANGED <<case, rows, certificates>>, NEW a \in DOMAIN attempts,
           attempts[a].phase # "published", NEW x, attempts' = [attempts EXCEPT ![a] = x],
           AttemptShape(x), x.held = attempts[a].held, x.phase # "published",
           GoesOn(x) => GoesOn(attempts[a])
    PROVE  EvidenceInv'
<1>1. Evidenced(a, attempts[a])
  BY DEF EvidenceInv
<1>2. OwnResults(a, x)
  BY <1>1 DEF Evidenced, OwnResults
<1>3. GoesOn(x) => x.held \subseteq rows
  BY <1>1 DEF Evidenced
<1>4. AttemptShape(x)' /\ OwnResults(a, x)' /\ (GoesOn(x)' => x.held \subseteq rows')
  BY <1>2, <1>3, CaseFixed DEF AttemptShape, GoesOn
<1>5. Evidenced(a, x)'
  BY <1>4 DEF Evidenced
<1>6. /\ \A r \in rows' \ rows : r.attempt = a /\ Obliged(r)
      /\ \A k \in DOMAIN certificates' : Obliged(certificates'[k])
  BY DEF EvidenceInv
<1> QED BY <1>5, <1>6, OneAttempt

\* The rows of a group answer its obligations, for the attempt and its subject.
LEMMA ResultsOwn ==
    ASSUME NEW a, NEW phase \in {"input", "output"}, NEW flaw, NEW backwards, NEW r \in Results(a, phase, flaw, backwards)
    PROVE  Obliged(r) /\ r.attempt = a /\ r.phase = phase /\ r.subject = Subject(a, phase)
<1>1. ASSUME NEW d, NEW o
      PROVE  LET j == Judged(a, phase, d, o, backwards)
             IN RowShape(j) /\ j.attempt = a /\ j.phase = phase /\ j.check = d /\ j.subject = Subject(a, phase)
  <2> DEFINE st == Status(o)
             sb == Subject(a, phase)
             sh == IF st = "VIOLATION" THEN Shown(a, Env(a, phase), d, o.failed, backwards) ELSE Null
  <2>1. Judged(a, phase, d, o, backwards)
          = [attempt |-> a, phase |-> phase, check |-> d, status |-> st, error |-> o.error,
             subject |-> sb, failed |-> o.failed, sample |-> sh, original |-> Null]
    BY DEF Judged
  <2> HIDE DEF st, sb, sh
  <2> QED BY <2>1 DEF RowShape, sb
<1>2. PICK i \in DOMAIN Group(phase) : \E o : r = Judged(a, phase, Group(phase)[i], o, backwards)
  BY DEF Results
<1>3. r.check = Group(phase)[i] /\ RowShape(r) /\ r.attempt = a /\ r.phase = phase /\ r.subject = Subject(a, phase)
  BY <1>1, <1>2
<1>4. <<r.phase, r.check>> \in Obligations
  BY <1>2, <1>3 DEF Obligations, ToSet
<1> QED BY <1>3, <1>4 DEF Obliged

\* What is recorded of a group: its rows, and certificates that are some of them.
LEMMA RecordKeeps ==
    ASSUME EvidenceInv, UNCHANGED case, NEW a \in DOMAIN attempts, NEW phase \in {"input", "output"}, NEW results,
           \A r \in results : Obliged(r), Recorded(a, phase, results)
    PROVE  rows' = rows \cup results /\ \A k \in DOMAIN certificates' : Obliged(certificates'[k])
<1> DEFINE fresh == {r \in results : r.phase = "input" /\ Acceptable(r.check, r.status)}
           key(r) == CertificateKey(a, r.check, Group(phase))
<1>1. /\ rows' = rows \cup results
      /\ certificates' = [k \in DOMAIN certificates \cup {key(r) : r \in fresh} |->
            IF k \in DOMAIN certificates THEN certificates[k] ELSE CHOOSE r \in fresh : key(r) = k]
  BY DEF Recorded
<1>2. fresh \subseteq results
  OBVIOUS
<1> HIDE DEF fresh, key
<1>3. ASSUME NEW k \in DOMAIN certificates' PROVE Obliged(certificates'[k])
  <2>1. CASE k \in DOMAIN certificates
    BY <1>1, <1>3, <2>1 DEF EvidenceInv
  <2>2. CASE k \notin DOMAIN certificates
    <3>1. \E r \in fresh : key(r) = k
      BY <1>1, <1>3, <2>2
    <3>2. certificates'[k] \in fresh
      BY <1>1, <1>3, <2>2, <3>1
    <3> QED BY <1>2, <3>2
  <2> QED BY <2>1, <2>2
<1> QED BY <1>1, <1>3

LEMMA RecordEvidence ==
    ASSUME EvidenceInv, NEW a \in DOMAIN attempts, NEW phase \in {"input", "output"}, Record(a, phase)
    PROVE  EvidenceInv'
<1> DEFINE late == Late(a, phase)
<1>1. PICK results \in {Results(a, phase, late, backwards) : backwards \in BOOLEAN} :
        LET accepted == Owned(a) /\ \A r \in results : RowOf(a, phase, r.check) = {}
        IN /\ IF accepted THEN Recorded(a, phase, results) ELSE UNCHANGED <<rows, certificates>>
           /\ attempts' = [attempts EXCEPT
                ![a].held = @ \cup results,
                ![a].phase = IF accepted /\ Permits(attempts[a].held \cup results) /\ a \notin canceled
                             THEN After(phase) ELSE "rejected"]
  BY DEF Record
<1>2. PICK backwards \in BOOLEAN : results = Results(a, phase, late, backwards)
  BY <1>1
<1> HIDE DEF late
<1>3. PICK accepted \in BOOLEAN : accepted <=> (Owned(a) /\ \A r \in results : RowOf(a, phase, r.check) = {})
  OBVIOUS
<1>4. PICK next : next = IF accepted /\ Permits(attempts[a].held \cup results) /\ a \notin canceled
                         THEN After(phase) ELSE "rejected"
  OBVIOUS
<1>5. /\ IF accepted THEN Recorded(a, phase, results) ELSE UNCHANGED <<rows, certificates>>
      /\ attempts' = [attempts EXCEPT ![a].held = @ \cup results, ![a].phase = next]
  BY <1>1, <1>3, <1>4
<1>6. attempts[a].phase = phase /\ UNCHANGED case /\ Evidenced(a, attempts[a])
  BY DEF Record, EvidenceInv
<1>7. /\ next \in {"transform", "approved", "rejected"} /\ (next # "rejected" => accepted)
  BY <1>4 DEF After
<1>8. \A r \in results : Obliged(r) /\ r.attempt = a /\ r.subject = Subject(a, r.phase)
  BY <1>2, ResultsOwn
<1>9. PICK x : x = [phase |-> next, session |-> attempts[a].session, candidate |-> attempts[a].candidate,
                    held |-> attempts[a].held \cup results]
  OBVIOUS
<1>10. AttemptShape(x) /\ x.phase = next /\ x.held = attempts[a].held \cup results
  BY <1>9 DEF AttemptShape
<1>11. attempts' = [attempts EXCEPT ![a] = x]
  <2>1. PICK y : y = attempts[a]
    OBVIOUS
  <2>2. PICK z : z = [y EXCEPT !.held = @ \cup results]
    OBVIOUS
  <2>3. z = [phase |-> y.phase, session |-> y.session, candidate |-> y.candidate, held |-> y.held \cup results]
    BY <1>6, <2>1, <2>2 DEF Evidenced, AttemptShape
  <2>4. [z EXCEPT !.phase = next] = x
    <3>1. x = [phase |-> next, session |-> y.session, candidate |-> y.candidate, held |-> y.held \cup results]
      BY <1>9, <2>1
    <3>2. PICK h : h = y.held \cup results
      OBVIOUS
    <3> QED BY <2>3, <3>1, <3>2, SMTT(30)
  <2>5. attempts' = [[attempts EXCEPT ![a] = z] EXCEPT ![a].phase = next]
    BY <1>5, <2>1, <2>2
  <2>6. attempts' = [attempts EXCEPT ![a] = [z EXCEPT !.phase = next]]
    BY <2>5
  <2> QED BY <2>4, <2>6
<1>12. rows \subseteq rows' /\ (\A r \in rows' \ rows : r \in results) /\ (accepted => results \subseteq rows')
       /\ \A k \in DOMAIN certificates' : Obliged(certificates'[k])
  <2>1. CASE accepted
    <3>1. rows' = rows \cup results /\ \A k \in DOMAIN certificates' : Obliged(certificates'[k])
      BY <1>5, <1>6, <1>8, <2>1, RecordKeeps
    <3> QED BY <3>1
  <2>2. CASE ~accepted
    BY <1>5, <2>2 DEF EvidenceInv
  <2> QED BY <2>1, <2>2
<1>13. OwnResults(a, x)
  BY <1>6, <1>8, <1>10 DEF Evidenced, OwnResults
<1>14. GoesOn(x) => x.held \subseteq rows'
  <2>1. attempts[a].held \subseteq rows
    BY <1>6 DEF Evidenced, GoesOn
  <2> QED BY <1>7, <1>10, <1>12, <2>1 DEF GoesOn
<1>15. Evidenced(a, x)'
  <2>1. AttemptShape(x)' /\ OwnResults(a, x)' /\ (GoesOn(x)' => x.held \subseteq rows') /\ x.phase # "published"
    BY <1>6, <1>7, <1>10, <1>13, <1>14, CaseFixed DEF AttemptShape, GoesOn
  <2> QED BY <2>1 DEF Evidenced
<1> QED BY <1>6, <1>8, <1>11, <1>12, <1>15, OneAttempt

LEMMA PublishSeals ==
    ASSUME EvidenceInv, NEW a \in DOMAIN attempts, Publish(a)
    PROVE  EvidenceInv'
<1>1. /\ attempts[a].phase = "approved" /\ Gated(a) /\ rows' = rows \cup attempts[a].held
      /\ UNCHANGED <<case, certificates>> /\ attempts' = [attempts EXCEPT ![a].phase = "published"]
      /\ Evidenced(a, attempts[a])
  BY DEF Publish, Phase, EvidenceInv
<1>2. attempts[a].held \subseteq rows
  BY <1>1 DEF Evidenced, GoesOn
<1>3. rows' = rows
  BY <1>1, <1>2
<1>4. PICK x : x = [attempts[a] EXCEPT !.phase = "published"]
  OBVIOUS
<1>5. AttemptShape(x) /\ x.phase = "published" /\ x.held = attempts[a].held
  BY <1>1, <1>4 DEF Evidenced, AttemptShape
<1>6. OwnResults(a, x)
  BY <1>1, <1>5 DEF Evidenced, OwnResults
<1>7. /\ {<<r.phase, r.check>> : r \in x.held} = Obligations
      /\ \A r \in x.held : Acceptable(r.check, r.status) /\ RowOf(a, r.phase, r.check) \in {{}, {r}}
  BY <1>1, <1>5 DEF Gated
<1>8. \A r \in x.held : r \in RowOf(a, r.phase, r.check)
  BY <1>2, <1>5, <1>6 DEF RowOf, OwnResults
<1>9. \A r \in x.held : RowOf(a, r.phase, r.check) = {r}
  BY <1>7, <1>8
<1>10. \A r, s \in x.held : r.phase = s.phase /\ r.check = s.check => r = s
  BY <1>8, <1>9
<1>11. ASSUME NEW r \in rows, r.attempt = a PROVE r \in x.held
  <2>1. <<r.phase, r.check>> \in Obligations
    BY DEF EvidenceInv, Obliged
  <2>2. PICK s \in x.held : <<r.phase, r.check>> = <<s.phase, s.check>>
    BY <1>7, <2>1
  <2>3. r \in RowOf(a, s.phase, s.check)
    BY <1>11, <2>2 DEF RowOf
  <2> QED BY <1>9, <2>2, <2>3
<1>12. Sealed(a, x)
  BY <1>7, <1>10, <1>11 DEF Sealed
<1>13. Evidenced(a, x)'
  <2>1. Sealed(a, x)'
    BY <1>1, <1>3, <1>12, CaseFixed DEF Sealed, Acceptable
  <2>2. AttemptShape(x)' /\ OwnResults(a, x)' /\ x.held \subseteq rows'
    BY <1>1, <1>2, <1>3, <1>5, <1>6, CaseFixed DEF AttemptShape
  <2> QED BY <2>1, <2>2 DEF Evidenced
<1>14. attempts' = [attempts EXCEPT ![a] = x]
  BY <1>1, <1>4
<1>15. \A k \in DOMAIN certificates' : Obliged(certificates'[k])
  BY <1>1 DEF EvidenceInv
<1> QED BY <1>1, <1>3, <1>13, <1>14, <1>15, OneAttempt

LEMMA ReuseEvidence ==
    ASSUME EvidenceInv, NEW a \in DOMAIN attempts, NEW d, Reuse(a, d)
    PROVE  EvidenceInv'
<1>1. PICK key : key = CertificateKey(a, d, <<>>)
  OBVIOUS
<1>2. /\ attempts[a].phase = "input" /\ key \in DOMAIN certificates /\ UNCHANGED <<case, attempts, certificates>>
      /\ rows' = rows \cup {[certificates[key] EXCEPT !.attempt = a, !.original = certificates[key].attempt]}
      /\ Evidenced(a, attempts[a])
  BY <1>1 DEF Reuse, Lookup, EvidenceInv
<1>3. PICK c : c = certificates[key]
  OBVIOUS
<1>4. Obliged(c)
  BY <1>2, <1>3 DEF EvidenceInv
<1>5. PICK r : r = [c EXCEPT !.attempt = a, !.original = c.attempt]
  OBVIOUS
<1>6. r = [attempt |-> a, phase |-> c.phase, check |-> c.check, status |-> c.status, error |-> c.error,
           subject |-> c.subject, failed |-> c.failed, sample |-> c.sample, original |-> c.attempt]
  BY <1>4, <1>5 DEF Obliged, RowShape
<1>7. Obliged(r) /\ r.attempt = a
  BY <1>4, <1>6 DEF Obliged, RowShape
<1>8. rows' = rows \cup {r}
  BY <1>2, <1>3, <1>5
<1>9. PICK x : x = attempts[a]
  OBVIOUS
<1>10. attempts' = [attempts EXCEPT ![a] = x]
  BY <1>2, <1>9 DEF EvidenceInv
<1>11. Evidenced(a, x)'
  <2>1. AttemptShape(x)' /\ OwnResults(a, x)' /\ (GoesOn(x)' => x.held \subseteq rows') /\ x.phase # "published"
    BY <1>2, <1>8, <1>9, CaseFixed DEF AttemptShape, GoesOn, Evidenced
  <2> QED BY <2>1 DEF Evidenced
<1>12. \A k \in DOMAIN certificates' : Obliged(certificates'[k])
  BY <1>2 DEF EvidenceInv
<1> QED BY <1>2, <1>7, <1>8, <1>10, <1>11, <1>12, OneAttempt

LEMMA CrashEvidence ==
    ASSUME EvidenceInv, Crash
    PROVE  EvidenceInv'
<1>1. /\ UNCHANGED <<case, rows, certificates>>
      /\ attempts' = [a \in DOMAIN attempts |->
            IF Unfinished(a) THEN [attempts[a] EXCEPT !.phase = "lost", !.held = {}] ELSE attempts[a]]
  BY DEF Crash
<1>2. ASSUME NEW a \in DOMAIN attempts PROVE Evidenced(a, attempts[a])'
  <2>1. PICK x : x = attempts'[a]
    OBVIOUS
  <2>2. Evidenced(a, attempts[a])
    BY DEF EvidenceInv
  <2>3. CASE Unfinished(a)
    <3>1. x = [phase |-> "lost", session |-> attempts[a].session, candidate |-> attempts[a].candidate, held |-> {}]
      BY <1>1, <2>1, <2>2, <2>3 DEF Evidenced, AttemptShape
    <3>2. Evidenced(a, x)'
      BY <3>1 DEF Evidenced, AttemptShape, OwnResults, GoesOn
    <3> QED BY <2>1, <3>2
  <2>4. CASE ~Unfinished(a)
    <3>1. x = attempts[a]
      BY <1>1, <2>1, <2>4
    <3>2. AttemptShape(x)' /\ OwnResults(a, x)' /\ (GoesOn(x)' => x.held \subseteq rows')
      BY <1>1, <2>2, <3>1, CaseFixed DEF AttemptShape, GoesOn, Evidenced
    <3>3. (x.phase = "published" => Sealed(a, x))'
      BY <1>1, <2>2, <3>1, CaseFixed DEF Evidenced, Sealed, Acceptable
    <3>4. Evidenced(a, x)'
      BY <3>2, <3>3 DEF Evidenced
    <3> QED BY <2>1, <3>4
  <2> QED BY <2>3, <2>4
<1>3. DOMAIN attempts' = DOMAIN attempts /\ attempts' = [a \in DOMAIN attempts' |-> attempts'[a]]
  BY <1>1
<1> QED BY <1>1, <1>2, <1>3, CaseFixed DEF EvidenceInv

LEMMA EvidenceStep == EvidenceInv /\ [ChecksNext]_checksVars => EvidenceInv'
<1> SUFFICES ASSUME EvidenceInv, [ChecksNext]_checksVars PROVE EvidenceInv'
  OBVIOUS
<1>1. ASSUME UNCHANGED <<case, attempts, rows, certificates>> PROVE EvidenceInv'
  <2>1. \A a, x : Evidenced(a, x)' <=> Evidenced(a, x)
    BY <1>1, CaseFixed DEF Evidenced, AttemptShape, GoesOn, Sealed, Acceptable
  <2> QED BY <1>1, <2>1, CaseFixed DEF EvidenceInv
<1>2. ASSUME NEW a \in DOMAIN attempts, NEW next, Phase(a, next), UNCHANGED <<case, rows, certificates>>,
             attempts[a].phase # "published", next # "published",
             next # "rejected" => GoesOn(attempts[a])
      PROVE  EvidenceInv'
  <2>1. PICK x : x = [attempts[a] EXCEPT !.phase = next]
    OBVIOUS
  <2>2. Evidenced(a, attempts[a]) /\ attempts' = [attempts EXCEPT ![a] = x]
    BY <1>2, <2>1 DEF EvidenceInv, Phase
  <2>3. AttemptShape(x) /\ x.phase = next /\ x.held = attempts[a].held
    BY <2>1, <2>2 DEF Evidenced, AttemptShape
  <2>4. GoesOn(x) => GoesOn(attempts[a])
    BY <1>2, <2>3 DEF GoesOn
  <2> QED BY <1>2, <2>2, <2>3, <2>4, PhaseMoved
<1>3. ASSUME NEW a \in DOMAIN attempts, Begin(a) PROVE EvidenceInv'
  <2>1. PICK next : next = IF a \in canceled THEN "rejected" ELSE "input"
    OBVIOUS
  <2>2. PICK s : s = session
    OBVIOUS
  <2>3. PICK y : y = attempts[a]
    OBVIOUS
  <2>4. /\ y.phase = "none" /\ UNCHANGED <<case, rows, certificates>> /\ Evidenced(a, y)
        /\ attempts' = [attempts EXCEPT ![a].phase = next, ![a].session = s]
    BY <1>3, <2>1, <2>2, <2>3 DEF Begin, EvidenceInv
  <2>5. PICK x : x = [phase |-> next, session |-> s, candidate |-> y.candidate, held |-> y.held]
    OBVIOUS
  <2>6. attempts' = [attempts EXCEPT ![a] = x]
    <3>1. PICK z : z = [y EXCEPT !.phase = next]
      OBVIOUS
    <3>2. z = [phase |-> next, session |-> y.session, candidate |-> y.candidate, held |-> y.held]
      BY <2>4, <3>1 DEF Evidenced, AttemptShape
    <3>3. [z EXCEPT !.session = s] = x
      BY <2>5, <3>2
    <3>4. attempts' = [[attempts EXCEPT ![a] = z] EXCEPT ![a].session = s]
      BY <2>3, <2>4, <3>1
    <3>5. attempts' = [attempts EXCEPT ![a] = [z EXCEPT !.session = s]]
      BY <3>4
    <3> QED BY <3>3, <3>5
  <2>7. AttemptShape(x) /\ x.held = attempts[a].held /\ x.phase \in {"input", "rejected"}
    BY <2>1, <2>3, <2>5 DEF AttemptShape
  <2>8. GoesOn(attempts[a]) /\ attempts[a].phase # "published" /\ x.phase # "published"
    BY <2>3, <2>4, <2>7 DEF GoesOn
  <2>9. UNCHANGED <<case, rows, certificates>>
    BY <2>4
  <2> QED BY <2>6, <2>7, <2>8, <2>9, PhaseMoved
<1>4. ASSUME NEW a \in DOMAIN attempts, Materialize(a) PROVE EvidenceInv'
  <2>1. attempts[a].phase = "transform" /\ UNCHANGED <<case, rows, certificates>>
    BY <1>4 DEF Materialize
  <2>2. GoesOn(attempts[a]) /\ attempts[a].phase # "published"
    BY <2>1 DEF GoesOn
  <2>3. CASE Phase(a, "rejected")
    BY <1>2, <2>1, <2>2, <2>3
  <2>4. CASE attempts' = [attempts EXCEPT ![a].phase = "output", ![a].candidate = TRUE]
    <3>1. PICK y : y = attempts[a]
      OBVIOUS
    <3>2. Evidenced(a, y)
      BY <3>1 DEF EvidenceInv
    <3>10. PICK c : c = TRUE
      OBVIOUS
    <3>3. PICK x : x = [phase |-> "output", session |-> y.session, candidate |-> c, held |-> y.held]
      OBVIOUS
    <3>4. PICK z : z = [y EXCEPT !.phase = "output"]
      OBVIOUS
    <3>5. z = [phase |-> "output", session |-> y.session, candidate |-> y.candidate, held |-> y.held]
      BY <3>2, <3>4 DEF Evidenced, AttemptShape
    <3>6. [z EXCEPT !.candidate = c] = x
      BY <3>3, <3>5
    <3>7. attempts' = [[attempts EXCEPT ![a] = z] EXCEPT ![a].candidate = c]
      BY <2>4, <3>1, <3>4, <3>10
    <3>8. attempts' = [attempts EXCEPT ![a] = x]
      BY <3>6, <3>7
    <3>9. AttemptShape(x) /\ x.held = attempts[a].held /\ x.phase # "published"
      BY <3>1, <3>3 DEF AttemptShape
    <3> QED BY <2>1, <2>2, <3>8, <3>9, PhaseMoved
  <2> QED BY <1>4, <2>3, <2>4 DEF Materialize
<1>5. ASSUME NEW a \in DOMAIN attempts, Refuse(a) PROVE EvidenceInv'
  BY <1>2, <1>5 DEF Refuse
<1>6. ASSUME NEW a \in DOMAIN attempts, NEW phase \in {"input", "output"},
             Pass(a, phase) \/ Compile(a, phase) \/ Run(a, phase)
      PROVE  EvidenceInv'
  <2>1. CASE Pass(a, phase)
    <3>1. PICK next : next = IF a \in canceled THEN "rejected" ELSE After(phase)
      OBVIOUS
    <3>2. next \in {"rejected", "transform", "approved"}
      BY <3>1 DEF After
    <3>3. Phase(a, next) /\ attempts[a].phase = phase /\ UNCHANGED <<case, rows, certificates>>
      BY <2>1, <3>1 DEF Pass
    <3>4. GoesOn(attempts[a]) /\ attempts[a].phase # "published"
      BY <3>3 DEF GoesOn
    <3> QED BY <1>2, <3>2, <3>3, <3>4
  <2>2. CASE Compile(a, phase)
    <3>1. attempts[a].phase = phase /\ UNCHANGED <<case, rows, certificates>>
      BY <2>2 DEF Compile
    <3>2. attempts' = attempts \/ Phase(a, "rejected")
      BY <2>2 DEF Compile
    <3> QED BY <1>1, <1>2, <3>1, <3>2
  <2>3. CASE Run(a, phase)
    BY <1>1, <2>3 DEF Run
  <2> QED BY <1>6, <2>1, <2>2, <2>3
<1>7. ASSUME NEW a \in DOMAIN attempts, NEW phase, KeepCandidate(a) \/ RequestCancel(a) \/ ChangeBytes(a, phase)
      PROVE  EvidenceInv'
  BY <1>1, <1>7 DEF KeepCandidate, RequestCancel, ChangeBytes
<1>8. CASE UNCHANGED checksVars
  BY <1>1, <1>8 DEF checksVars
<1> QED
  BY <1>3, <1>4, <1>5, <1>6, <1>7, <1>8, RecordEvidence, PublishSeals, ReuseEvidence, CrashEvidence DEF ChecksNext

\* A published attempt holds a row for every obligation, and there are no others of it.
LEMMA SealedCertified == EvidenceInv => PublishedCertified
<1> SUFFICES ASSUME EvidenceInv, NEW a \in DOMAIN attempts, attempts[a].phase = "published"
             PROVE  /\ \A o \in Obligations : Cardinality(RowOf(a, o[1], o[2])) = 1
                    /\ \A r \in rows : r.attempt = a =>
                         /\ r.status # "ERROR" /\ (r.check.severity = "FAIL" => r.status = "PASS")
                         /\ r.subject = Subject(a, r.phase)
  BY DEF PublishedCertified
<1> DEFINE held == attempts[a].held
<1>1. OwnResults(a, attempts[a]) /\ held \subseteq rows /\ Sealed(a, attempts[a])
  BY DEF EvidenceInv, Evidenced, GoesOn
<1>2. ASSUME NEW o \in Obligations PROVE Cardinality(RowOf(a, o[1], o[2])) = 1
  <2>1. PICK r \in held : o = <<r.phase, r.check>>
    BY <1>1 DEF Sealed
  <2>2. RowOf(a, r.phase, r.check) = {r}
    BY <1>1 DEF Sealed, OwnResults, RowOf
  <2> QED BY <2>1, <2>2, FS_Singleton
<1>3. ASSUME NEW r \in rows, r.attempt = a
      PROVE  /\ r.status # "ERROR" /\ (r.check.severity = "FAIL" => r.status = "PASS")
             /\ r.subject = Subject(a, r.phase)
  BY <1>1, <1>3 DEF Sealed, OwnResults, Acceptable
<1> QED BY <1>2, <1>3

(* A published attempt has exactly one row for every obligation, none of them an
   error or a violation of a required check, all about the bytes it consumed and
   produced: whatever crashes, cancellations, changed bytes and reused
   certificates came between (lifecycle.rs permits, publication.rs
   record_gate_results, check_evidence.rs). *)
THEOREM PublicationsCertified == ChecksSpec => []PublishedCertified
<1>1. ASSUME ChecksInit PROVE EvidenceInv
  <2>1. PICK c : c = FALSE
    OBVIOUS
  <2>2. PICK x : x = [phase |-> "none", session |-> 0, candidate |-> c, held |-> {}]
    OBVIOUS
  <2>3. AttemptShape(x) /\ x.phase = "none" /\ x.held = {}
    BY <2>2 DEF AttemptShape
  <2>4. attempts = [a \in DOMAIN case.attempts |-> x]
    BY <1>1, <2>1, <2>2 DEF ChecksInit, Idle
  <2>5. \A a \in DOMAIN attempts : Evidenced(a, attempts[a])
    BY <2>3, <2>4 DEF Evidenced, OwnResults
  <2>6. rows = {} /\ certificates = <<>>
    BY <1>1 DEF ChecksInit
  <2> QED BY <2>4, <2>5, <2>6 DEF EvidenceInv
<1> QED BY <1>1, EvidenceStep, SealedCertified, PTL DEF ChecksSpec
=============================================================================
