---------------------------- MODULE Publication ----------------------------
(***************************************************************************)
(* The durable side of a build: the rows of the workspace database that    *)
(* acceptance, dispatch, publication, cache reuse, import, cancellation    *)
(* and restart recovery read and write (crates/tf-store).                  *)
(*                                                                         *)
(* Every repository method is one BEGIN IMMEDIATE transaction, so every    *)
(* action is one committed transaction; a refused one rolls back and is a  *)
(* stuttering step.  The work between two transactions (running a worker,  *)
(* copying files) is where the process may die: Recover, the first         *)
(* transaction of the next owner of the runtime lock, may come between any *)
(* two actions, and a request of an earlier owner may still arrive later.  *)
(*                                                                         *)
(* A target is an output dataset on a branch.  A version is named by the   *)
(* attempt or the import that produced it.  PLANNED stands for             *)
(* WAITING_DEPENDENCIES too and RUNNING for every phase before             *)
(* VALIDATING_OUTPUTS: these tables treat them alike.                      *)
(***************************************************************************)
EXTENDS Naturals, FiniteSets

CONSTANTS
    Builds, Jobs, Targets, Imports,
    BuildOf,         \* the build a job belongs to
    TargetOf,        \* the output a job writes
    Upstream,        \* Upstream[j]: the jobs of the same build j reads from
    Artifacts,       \* content digests a materialisation may produce
    MaxTries,        \* RetryPolicy.max_attempts
    MaxSession,      \* bound: runtime owners in a behaviour
    None             \* an absent row or value

Attempts == Jobs \X (1..MaxTries)
Versions == Attempts \cup Imports
Events == Versions \cup Jobs

JobsOf(b) == {j \in Jobs : BuildOf[j] = b}

ASSUME PlanAssumption ==
    /\ BuildOf \in [Jobs -> Builds] /\ TargetOf \in [Jobs -> Targets]
    /\ Upstream \in [Jobs -> SUBSET Jobs]
    /\ \A j \in Jobs : \A u \in Upstream[j] : BuildOf[u] = BuildOf[j]
    /\ \A j, k \in Jobs :
        BuildOf[j] = BuildOf[k] /\ TargetOf[j] = TargetOf[k] => j = k
    /\ \A b \in Builds : JobsOf(b) # {}
ASSUME IdentityAssumption ==
    /\ Imports \cap Attempts = {} /\ Jobs \cap Versions = {}
    /\ None \notin Versions \cup Builds \cup Artifacts \cup Nat
ASSUME BoundAssumption == MaxTries \in Nat \ {0} /\ MaxSession \in Nat

Executing == {"RUNNING", "VALIDATING_OUTPUTS", "COMMITTING"}
Successful == {"SUCCEEDED", "CACHED"}
Unsuccessful == {"FAILED", "BLOCKED", "CANCELED", "INTERRUPTED"}
Finished == Successful \cup Unsuccessful
JobStates == {"NONE", "PLANNED", "QUEUED", "RETRY_WAIT"} \cup Executing \cup Finished
AttemptEnd == {"SUCCEEDED", "FAILED", "CANCELED", "INTERRUPTED"}
Ended == {"SUCCEEDED", "FAILED", "CANCELED", "INTERRUPTED"}
BuildStates == {"NONE", "QUEUED", "RUNNING"} \cup Ended
Live == {"QUEUED", "RUNNING"}

VARIABLES
    owner,        \* workspaces.runtime_owner: sessions in order of ownership
    build,        \* builds.state
    cancel,       \* builds.cancel_requested
    planned,      \* planned[j]: head generation the draft captured for j
    job,          \* jobs.state
    tries,        \* number of attempts of a job
    attempt,      \* attempts: state, session and fence
    reservation,  \* write_reservations, by target
    intent,       \* publication_intents, by attempt
    importPlan,   \* an import in flight: what it captured of the head
    installed,    \* immutable objects on disk
    version,      \* dataset_versions: artifact of a visible version
    head,         \* dataset_heads: version and generation, by target
    changes,      \* head_changes
    outbox,       \* outbox_deliveries of the events: pending or acknowledged
    cached        \* cached_jobs: version and generation a job adopted

heads == <<version, head, changes, outbox>>
work == <<build, cancel, planned, job, tries, attempt>>
vars == <<owner, work, reservation, intent, importPlan, installed, heads, cached>>

Session == 0..MaxSession
Fence == [session : Session, fence : Nat \ {0}]

Init ==
    /\ owner = 0
    /\ build = [b \in Builds |-> "NONE"] /\ cancel = [b \in Builds |-> FALSE]
    /\ planned = [j \in Jobs |-> None]
    /\ job = [j \in Jobs |-> "NONE"] /\ tries = [j \in Jobs |-> 0]
    /\ attempt = [a \in Attempts |-> None]
    /\ reservation = [t \in Targets |-> None]
    /\ intent = [a \in Attempts |-> None]
    /\ importPlan = [i \in Imports |-> None]
    /\ installed = {}
    /\ version = [v \in Versions |-> None]
    /\ head = [t \in Targets |-> [version |-> None, generation |-> 0]]
    /\ changes = {} /\ outbox = [e \in Events |-> "NONE"]
    /\ cached = [j \in Jobs |-> None]

----------------------------------------------------------------------------
(* Guards shared by the transactions.                                      *)

Current(j) == <<j, tries[j]>>

\* authority and the reservation of the job: the caller is the owner.
Owns(j) ==
    LET r == reservation[TargetOf[j]]
    IN r # None /\ r.build = BuildOf[j] /\ r.session = owner

\* Every output of the build is reserved under one session and fence.
ReservedAll(b, s, f) == \A k \in JobsOf(b) :
    LET r == reservation[TargetOf[k]]
    IN r # None /\ r.build = b /\ r.session = s /\ r.fence = f

\* execution::guard: a running build, its owner, its reservation.
Guard(j) == build[BuildOf[j]] = "RUNNING" /\ Owns(j)

Open(j) == job[j] \in Executing

Wanted(b) == ~cancel[b]

\* The guards of prepare and commit; st is the stored phase they require.
PublishGuards(a, s, f, e, st) ==
    LET j == a[1] b == BuildOf[a[1]] r == reservation[TargetOf[a[1]]] IN
    /\ s = owner /\ attempt[a].session = s /\ attempt[a].fence = f
    /\ Wanted(b) /\ build[b] = "RUNNING"
    /\ attempt[a].state = st /\ job[j] = st
    /\ r # None /\ r.expected = e
    /\ ReservedAll(b, s, f)
    /\ head[TargetOf[j]].generation = e

\* The head, its event and history row and the outbox delivery, written in the
\* transaction of the caller.  Mutant: the history keeps the old generation.
MoveHeadLate(t, v, e, expected, cause) ==
    /\ head' = [head EXCEPT ![t] = [version |-> v, generation |-> expected + 1]]
    /\ changes' = changes \cup {[event |-> e, target |-> t,
            previous |-> head[t].version, version |-> v,
            generation |-> expected, cause |-> cause]}
    /\ outbox' = [outbox EXCEPT ![e] = "PENDING"]

MoveHead(t, v, e, expected, cause) ==
    /\ head' = [head EXCEPT ![t] = [version |-> v, generation |-> expected + 1]]
    /\ changes' = changes \cup {[event |-> e, target |-> t,
            previous |-> head[t].version, version |-> v,
            generation |-> expected + 1, cause |-> cause]}
    /\ outbox' = [outbox EXCEPT ![e] = "PENDING"]

----------------------------------------------------------------------------
(* Planning: save_draft and accept_draft.                                  *)

Captured(t) == head[t].generation

\* A draft captures the head of every output it will write.
Draft(b) ==
    /\ build[b] = "NONE" /\ \A j \in JobsOf(b) : planned[j] = None
    /\ planned' = [j \in Jobs |-> IF j \in JobsOf(b)
                                  THEN Captured(TargetOf[j]) ELSE planned[j]]
    /\ UNCHANGED <<owner, build, cancel, job, tries, attempt, reservation, intent,
                   importPlan, installed, heads, cached>>

Free(b) == \A j \in JobsOf(b) : reservation[TargetOf[j]] = None

\* The whole write set is reserved, or nothing.
Accept(b) ==
    /\ owner > 0
    /\ build[b] = "NONE"
    /\ \A j \in JobsOf(b) : planned[j] = head[TargetOf[j]].generation
    /\ Free(b)
    /\ build' = [build EXCEPT ![b] = "QUEUED"]
    /\ job' = [j \in Jobs |-> IF j \in JobsOf(b) THEN "PLANNED" ELSE job[j]]
    /\ reservation' = [t \in Targets |->
            IF \E j \in JobsOf(b) : TargetOf[j] = t
            THEN [build |-> b, session |-> owner, fence |-> 1,
                  expected |-> planned[CHOOSE j \in JobsOf(b) : TargetOf[j] = t]]
            ELSE reservation[t]]
    /\ UNCHANGED <<owner, cancel, planned, tries, attempt, intent, importPlan,
                   installed, heads, cached>>

----------------------------------------------------------------------------
(* Dispatch: start_dispatch, persist_execution, finish_dispatch.           *)

StartDispatch(b) ==
    /\ build[b] = "QUEUED"
    /\ \A j \in JobsOf(b) : Owns(j) /\ job[j] = "PLANNED" /\ tries[j] = 0
    /\ build' = [build EXCEPT ![b] = "RUNNING"]
    /\ UNCHANGED <<owner, cancel, planned, job, tries, attempt, reservation, intent,
                   importPlan, installed, heads, cached>>

SetJob(j, s) ==
    /\ job' = [job EXCEPT ![j] = s]
    /\ UNCHANGED <<owner, build, cancel, planned, reservation, intent, importPlan,
                   installed, heads, cached>>

\* A live (nonterminal) state is written only while nobody has canceled.
Progressing(j) == Guard(j) /\ ~cancel[BuildOf[j]]

Queue(j) ==
    /\ Progressing(j) /\ job[j] = "PLANNED"
    /\ \A u \in Upstream[j] : job[u] \in Successful
    /\ SetJob(j, "QUEUED") /\ UNCHANGED <<tries, attempt>>

StartAttempt(j) ==
    /\ Progressing(j) /\ job[j] \in {"QUEUED", "RETRY_WAIT"}
    /\ tries[j] < MaxTries
    /\ tries' = [tries EXCEPT ![j] = @ + 1]
    /\ attempt' = [attempt EXCEPT ![<<j, tries[j] + 1>>] =
            [state |-> "RUNNING", session |-> owner,
             fence |-> reservation[TargetOf[j]].fence]]
    /\ SetJob(j, "RUNNING")

SetAttempt(j, s) == attempt' = [attempt EXCEPT ![Current(j)].state = s]

\* The phases up to the evaluation of the output checks.
Validate(j) ==
    /\ Progressing(j) /\ job[j] = "RUNNING"
    /\ SetAttempt(j, "VALIDATING_OUTPUTS") /\ UNCHANGED tries
    /\ SetJob(j, "VALIDATING_OUTPUTS")

\* A failed attempt ends its job, or waits for a retry.
FailAttempt(j, retry) ==
    /\ Guard(j) /\ Open(j)
    /\ retry => tries[j] < MaxTries /\ ~cancel[BuildOf[j]]
    /\ SetAttempt(j, "FAILED") /\ UNCHANGED tries
    /\ SetJob(j, IF retry THEN "RETRY_WAIT" ELSE "FAILED")

\* cancel_job, after the request is durable; the open attempt ends with it.
CancelJob(j) ==
    /\ Guard(j) /\ cancel[BuildOf[j]] /\ job[j] \notin Finished
    /\ IF Open(j) THEN SetAttempt(j, "CANCELED") ELSE UNCHANGED attempt
    /\ UNCHANGED tries /\ SetJob(j, "CANCELED")

Block(j) ==
    /\ Guard(j) /\ job[j] \in {"PLANNED", "QUEUED"} /\ tries[j] = 0
    /\ \E u \in Upstream[j] : job[u] \in {"FAILED", "BLOCKED"}
    /\ UNCHANGED <<tries, attempt>> /\ SetJob(j, "BLOCKED")

\* Build::finish, which finish_dispatch recomputes from the stored jobs.
Verdict(b) ==
    LET Seen(s) == \E j \in JobsOf(b) : job[j] \in s
    IN IF Seen({"FAILED", "BLOCKED"}) THEN "FAILED"
       ELSE IF Seen({"INTERRUPTED"}) THEN "INTERRUPTED"
       ELSE IF Seen({"CANCELED"}) THEN "CANCELED" ELSE "SUCCEEDED"

Release(b) ==
    reservation' = [t \in Targets |->
        IF reservation[t] # None /\ reservation[t].build = b
           /\ reservation[t].session = owner
        THEN None ELSE reservation[t]]

FinishDispatch(b) ==
    /\ build[b] = "RUNNING"
    /\ \A j \in JobsOf(b) : Owns(j) /\ job[j] \in Finished
    /\ build' = [build EXCEPT ![b] = Verdict(b)]
    /\ Release(b)
    /\ UNCHANGED <<owner, cancel, planned, job, tries, attempt, intent, importPlan,
                   installed, heads, cached>>

\* cancel_publications: TooLate and AlreadyRequested change nothing.
Cancel(b) ==
    /\ owner > 0 /\ build[b] \in Live /\ ~cancel[b]
    /\ \E j \in JobsOf(b) : job[j] \notin Finished
    /\ cancel' = [cancel EXCEPT ![b] = TRUE]
    /\ UNCHANGED <<owner, build, planned, job, tries, attempt, reservation, intent,
                   importPlan, installed, heads, cached>>

----------------------------------------------------------------------------
(* Publication: journal the intent, install the object, commit.            *)

PreparePublication(j, d) ==
    LET a == Current(j) IN
    /\ tries[j] > 0 /\ reservation[TargetOf[j]] # None
    /\ PublishGuards(a, attempt[a].session, attempt[a].fence,
                     reservation[TargetOf[j]].expected, "VALIDATING_OUTPUTS")
    /\ intent[a] = None
    /\ intent' = [intent EXCEPT ![a] =
            [state |-> "PREPARED", artifact |-> d, session |-> attempt[a].session,
             fence |-> attempt[a].fence,
             expected |-> reservation[TargetOf[j]].expected]]
    /\ attempt' = [attempt EXCEPT ![a].state = "COMMITTING"]
    /\ job' = [job EXCEPT ![j] = "COMMITTING"]
    /\ UNCHANGED <<owner, build, cancel, planned, tries, reservation, importPlan,
                   installed, heads, cached>>

\* The file system step: sync, rename into place, sync the directories.  It
\* belongs to a journaled intent or to an import, whoever owns the lock now.
Install(d) ==
    /\ d \notin installed
    /\ \/ \E a \in Attempts : intent[a] # None /\ intent[a].artifact = d
       \/ \E i \in Imports : importPlan[i] # None /\ importPlan[i].artifact = d
    /\ installed' = installed \cup {d}
    /\ UNCHANGED <<owner, work, reservation, intent, importPlan, heads, cached>>

\* Mutant: the object is not verified on disk before the commit.
OnDiskTrusted(d) == TRUE
OnDisk(d) == d \in installed

\* The request is the one journaled with the intent; it may be late or a
\* repetition (a committed intent answers with its receipt and changes nothing).
CommitPublication(a) ==
    LET i == intent[a] j == a[1] IN
    /\ i # None /\ i.state = "PREPARED"
    /\ OnDisk(i.artifact)
    /\ PublishGuards(a, i.session, i.fence, i.expected, "COMMITTING")
    /\ version' = [version EXCEPT ![a] = i.artifact]
    /\ MoveHead(TargetOf[j], a, a, i.expected, "publication")
    /\ intent' = [intent EXCEPT ![a].state = "COMMITTED"]
    /\ attempt' = [attempt EXCEPT ![a].state = "SUCCEEDED"]
    /\ job' = [job EXCEPT ![j] = "SUCCEEDED"]
    /\ UNCHANGED <<owner, build, cancel, planned, tries, reservation, importPlan,
                   installed, cached>>

\* cache::evidence. Mutant: the branch of the producing job is not compared.
ReusableAnywhere(j, v) ==
    /\ version[v] # None /\ attempt[v].state = "SUCCEEDED" /\ job[v[1]] = "SUCCEEDED"

ReusableBy(j, v) ==
    /\ version[v] # None /\ attempt[v].state = "SUCCEEDED" /\ job[v[1]] = "SUCCEEDED"
    /\ TargetOf[v[1]] = TargetOf[j]

\* completed_parent: the parents of this build that a job binds.
ParentsDone(j) == \A u \in Upstream[j] : job[u] \in Successful

\* cache::guards: the write set is still reserved, nothing ran, nobody canceled.
CacheGuards(j) ==
    LET b == BuildOf[j] r == reservation[TargetOf[j]] IN
    /\ Owns(j) /\ ReservedAll(b, owner, r.fence)
    /\ tries[j] = 0 /\ ~cancel[b]
    /\ build[b] \in Live /\ job[j] \in {"PLANNED", "QUEUED"}
    /\ ParentsDone(j)
    /\ head[TargetOf[j]].generation = r.expected

AdoptCache(j, v) ==
    LET t == TargetOf[j] r == reservation[TargetOf[j]] IN
    /\ cached[j] = None /\ CacheGuards(j)
    /\ ReusableBy(j, v) /\ OnDisk(version[v])
    /\ IF head[t].version # v
       THEN MoveHead(t, v, j, r.expected, "cache_reuse")
       ELSE UNCHANGED <<head, changes, outbox>>
    /\ cached' = [cached EXCEPT ![j] = [version |-> v, generation |-> head'[t].generation]]
    /\ job' = [job EXCEPT ![j] = "CACHED"]
    /\ UNCHANGED <<owner, build, cancel, planned, tries, attempt, reservation, intent,
                   importPlan, installed, version>>

\* An import reads the head and the session before it copies its files.
PlanImport(i, t, d) ==
    /\ owner > 0 /\ importPlan[i] = None
    /\ importPlan' = [importPlan EXCEPT ![i] =
            [target |-> t, artifact |-> d, session |-> owner, head |-> head[t]]]
    /\ UNCHANGED <<owner, work, reservation, intent, installed, heads, cached>>

Unreserved(t) == reservation[t] = None

CommitImport(i) ==
    LET p == importPlan[i] IN
    /\ p # None /\ p.session = owner
    /\ version[i] = None
    /\ Unreserved(p.target) /\ head[p.target] = p.head /\ OnDisk(p.artifact)
    /\ version' = [version EXCEPT ![i] = p.artifact]
    /\ MoveHead(p.target, i, i, p.head.generation, "publication")
    /\ UNCHANGED <<owner, work, reservation, intent, importPlan, installed, cached>>

\* acknowledge_publication, after the notification was delivered.
Acknowledge(e) ==
    /\ owner > 0 /\ outbox[e] = "PENDING"
    /\ outbox' = [outbox EXCEPT ![e] = "ACKNOWLEDGED"]
    /\ UNCHANGED <<owner, work, reservation, intent, importPlan, installed,
                   version, head, changes, cached>>

----------------------------------------------------------------------------
(* recover_publications: the first transaction of a new owner.             *)

\* What becomes of a job: only the unfinished ones of started builds change.
InterruptedJob(j) ==
    IF build[BuildOf[j]] = "RUNNING" /\ job[j] \notin Finished
    THEN "INTERRUPTED" ELSE job[j]

\* Mutant: interruption is looked for before failure.
RecoveredMild(b) ==
    LET Is(j) == InterruptedJob(j) js == JobsOf(b)
    IN IF \A j \in js : Is(j) \in Successful THEN "SUCCEEDED"
       ELSE IF \E j \in js : Is(j) = "INTERRUPTED" THEN "INTERRUPTED"
       ELSE IF \E j \in js : Is(j) \in {"FAILED", "BLOCKED"} THEN "FAILED"
       ELSE "CANCELED"

\* The CASE of the SQL update, over the states the job update has left.
Recovered(b) ==
    LET Is(j) == InterruptedJob(j) js == JobsOf(b)
    IN IF \E j \in js : Is(j) \in {"FAILED", "BLOCKED"} THEN "FAILED"
       ELSE IF \A j \in js : Is(j) \in Successful THEN "SUCCEEDED"
       ELSE IF \E j \in js : Is(j) = "INTERRUPTED" THEN "INTERRUPTED"
       ELSE "CANCELED"

Recover ==
    /\ owner < MaxSession /\ owner' = owner + 1
    /\ intent' = [a \in Attempts |->
            IF intent[a] # None /\ intent[a].state = "PREPARED"
            THEN [intent[a] EXCEPT !.state = "ABANDONED"] ELSE intent[a]]
    /\ attempt' = [a \in Attempts |->
            IF attempt[a] # None /\ attempt[a].state \notin AttemptEnd
            THEN [attempt[a] EXCEPT !.state = "INTERRUPTED"] ELSE attempt[a]]
    /\ job' = [j \in Jobs |-> InterruptedJob(j)]
    /\ build' = [b \in Builds |->
            IF build[b] = "RUNNING" THEN Recovered(b) ELSE build[b]]
    /\ reservation' = [t \in Targets |->
            IF reservation[t] = None THEN None
            ELSE IF build[reservation[t].build] # "QUEUED" THEN None
            ELSE [reservation[t] EXCEPT !.session = owner + 1, !.fence = @ + 1]]
    /\ UNCHANGED <<cancel, planned, tries, importPlan, installed, heads, cached>>

----------------------------------------------------------------------------
BuildStep(b) ==
    \/ Draft(b) \/ Accept(b) \/ StartDispatch(b) \/ FinishDispatch(b) \/ Cancel(b)

JobStep(j) ==
    \/ Queue(j) \/ StartAttempt(j) \/ Validate(j) \/ CancelJob(j) \/ Block(j)
    \/ \E retry \in BOOLEAN : FailAttempt(j, retry)
    \/ \E d \in Artifacts : PreparePublication(j, d)
    \/ \E v \in Attempts : AdoptCache(j, v)

ImportStep(i) ==
    \/ \E t \in Targets, d \in Artifacts : PlanImport(i, t, d)
    \/ CommitImport(i)

Next ==
    \/ \E b \in Builds : BuildStep(b)
    \/ \E j \in Jobs : JobStep(j)
    \/ \E a \in Attempts : CommitPublication(a)
    \/ \E i \in Imports : ImportStep(i)
    \/ \E d \in Artifacts : Install(d)
    \/ \E e \in Events : Acknowledge(e)
    \/ Recover

Spec == Init /\ [][Next]_vars

----------------------------------------------------------------------------
(* Properties.                                                             *)

HeadRow == [version : Versions \cup {None}, generation : Nat]
Reservation == [build : Builds, session : Session, fence : Nat \ {0}, expected : Nat]
AttemptRow == [state : Executing \cup AttemptEnd, session : Session, fence : Nat \ {0}]
Intent == [state : {"PREPARED", "COMMITTED", "ABANDONED"}, artifact : Artifacts,
           session : Session, fence : Nat \ {0}, expected : Nat]
Change == [event : Events, target : Targets, previous : Versions \cup {None},
           version : Versions, generation : Nat \ {0},
           cause : {"publication", "cache_reuse"}]
ImportPlan == [target : Targets, artifact : Artifacts, session : Session, head : HeadRow]

\* An absent row is no row.
ASSUME RowAssumption == None \notin AttemptRow /\ None \notin Intent

\* Every row has its type; counters stay natural numbers.
TypeOK ==
    /\ owner \in Session
    /\ build \in [Builds -> BuildStates] /\ cancel \in [Builds -> BOOLEAN]
    /\ planned \in [Jobs -> Nat \cup {None}]
    /\ job \in [Jobs -> JobStates] /\ tries \in [Jobs -> 0..MaxTries]
    /\ attempt \in [Attempts -> AttemptRow \cup {None}]
    /\ reservation \in [Targets -> Reservation \cup {None}]
    /\ intent \in [Attempts -> Intent \cup {None}]
    /\ importPlan \in [Imports -> ImportPlan \cup {None}]
    /\ installed \subseteq Artifacts
    /\ version \in [Versions -> Artifacts \cup {None}]
    /\ head \in [Targets -> HeadRow]
    /\ changes \subseteq Change
    /\ outbox \in [Events -> {"NONE", "PENDING", "ACKNOWLEDGED"}]
    /\ cached \in [Jobs -> [version : Attempts, generation : Nat \ {0}] \cup {None}]

\* The history of a head: one change for every generation from 1 to the head's,
\* the last one made the head, and each names its predecessor.  Three writers
\* (commit, cache reuse, import) move heads under a compare-and-swap.
HeadHistory == \A t \in Targets :
    LET Of(g) == {c \in changes : c.target = t /\ c.generation = g} IN
    /\ \A c \in changes : c.target = t => c.generation \in 1..head[t].generation
    /\ \A g \in 1..head[t].generation : \E c \in changes :
        /\ Of(g) = {c}
        /\ g = head[t].generation => c.version = head[t].version
        /\ g = 1 => c.previous = None
        /\ g > 1 => \E p \in Of(g - 1) : c.previous = p.version
    /\ head[t].generation = 0 => head[t].version = None

\* A version anybody can resolve has its bytes on disk, whatever was
\* interrupted between the journal, the rename and the commit.
VisibleIsDurable ==
    /\ \A v \in Versions : version[v] # None => version[v] \in installed
    /\ \A t \in Targets : head[t].version # None => version[head[t].version] # None

\* A build ends with finished jobs and with the verdict of the domain's
\* Build::finish, whether the dispatcher ended it or the next owner's recovery.
VerdictAgrees == \A b \in Builds : build[b] \in Ended =>
    /\ \A j \in JobsOf(b) : job[j] \in Finished
    /\ build[b] = Verdict(b)

\* What the tables promise a reader: each target has a log of versions that
\* only grows (module HeadLog).
HistoryOf(t) == [g \in 1..head[t].generation |->
    (CHOOSE c \in changes : c.target = t /\ c.generation = g).version]
Log == INSTANCE HeadLog WITH log <- [t \in Targets |-> HistoryOf(t)]
LogSpec == Log!Spec
============================================================================
