# Transflow: models and proofs

Transflow builds a graph of datasets on one machine.  A workspace is a directory
with a SQLite database, immutable artifacts named by content, an authored catalogue, and at
most one coordinator at a time, which holds an OS lock.  Coordinators come and go, jobs
run in worker processes, readers in other workspaces hold leases, clients retry their calls,
and every step can be cut short by a crash.  The modules here model what must survive
that: who may move the head of a dataset, what an attempt may still do, which bytes may be
deleted, what a schedule owes its events, what an accepted plan was based on, and what
a client may be told.

## The system

| Component | State | Operations | What is hard | What makes it correct |
|---|---|---|---|---|
| Execution aggregates (`tf-domain/src/execution`) | jobs, attempts, builds as immutable values | the methods of `Job` and `Build` | retries and backoff, late events of an old attempt, cancellation against success | closed attempts and finished jobs never change; a build has the verdict of its jobs |
| Publication (`tf-store` publication, execution, planning, cache, import) | builds, jobs, attempts, versions, heads, head history, intents, reservations, outbox | accept, start, prepare, install, commit, adopt, import, cancel, finish, recover | two writers of one output, a cancellation racing a commit, a crash between any two transactions | a gapless head history, durable bytes behind every version, what is decided stays |
| Retention (`retention.rs`, `gc.rs`, `gc_files.rs`) | clock floor, leases, pins, items, claims, deletion evidence, files | acquire, renew, release, pin, observe, claim, remove, finish | deletion interrupted at every file step, readers without the lock, expired bytes published again | reachable bytes stay; a reader inside its expiry finds its bytes |
| Build dispatcher (`transflow/src/dispatch`) | one aggregate per job, worker threads, channels, retry leases, abort flag | poll, block, cancel, queue, start, observe, finish, renew | threads and bounded channels, several sources of cancellation, an error in the middle | every dispatch ends with its workers drained and its capacity given back |
| Schedules (`schedule_*.rs`) | definitions, cursors, tokens, ticks, occurrences, pauses | observe events and clock, evaluate, overlap, dispatch, reconcile, commands | evidence used once, frozen templates, one schedule's error in a pass over all | no overlap, no self-causation, every event and tick accounted for |
| Clock and cron (`tf-schedule`, `schedule_clock.rs`) | cursor, pending ticks | plan, deliver, expire | gaps and folds of local time, what was missed while down | exactly the intended instants |
| Supervision (`supervisor.rs`, `cancellation.rs`, `timing.rs`, `recovery.rs`) | one process group per attempt, budgets, recovery record | launch, handshake, frames, deadline, TERM, KILL, reap, fence | exit, frames, deadline and cancellation in any order; sessions that die | no worker of an earlier session runs authored code; the outcome is what the process said |
| Admission (`admission.rs`) | capacity, usage, FIFO queue | request, poll, drop, reserve, release, worker permit | dropped futures, lost wakeups | usage exact, no lost wakeup |
| Ownership (`ownership.rs`) | OS lock, registration, handles | acquire, delegate, close, recover once | handles that outlive their maker | one authority per workspace |
| External reads (`provider.rs`, `external_reads`) | tickets, renewal thread, provider's leases | resolve, protect, renew, release, check | lost answers, two coordinators that wait for each other | what was accepted was read under protection |
| Planning and branches (`tf-plan`, `build_plan.rs`, `input_resolution.rs`, `planning.rs`, `branch_lifecycle.rs`) | plan in preparation, drafts with guards, rows, heads | scope, resolve, save, accept, expire, create, rename, delete | everything is read one short transaction at a time | an accepted plan is what planning would decide as of its clock sample |
| Freshness (`tf-plan/src/freshness.rs`, `why.rs`) | none | explain why a dataset is stale | diamonds, boundaries, unknown facts | statuses and causes are those of the paths of the graph |
| Catalogue (`tf-catalog`, `reconcile.rs`, `catalog_mutations.rs`) | catalogue file, mutation journal, datasets | propose, journal, stage, rename, index, recover | a file and a database written one after the other, an author without a lock | one identity for a path; edits survive |
| Checks (`expectation`, `tf-exec/src/checks`, `check_evidence.rs`) | compiled plan, rows, certificates, failed candidates | compile, evaluate, reduce, record, gate | batches shared by checks, floats and nulls, changed bytes | a recorded result is what the reference says |
| API (`api.rs`, `build_transport.rs`, `serve.rs`, `api_query.rs`) | receipts, busy flag, mailboxes, query jobs | call, drain, cancel, query, shut down | repeated requests, threads that outlive the loop | one effect per key, true answers, everybody answered |

The coordinator process calls the aggregates to decide a step and the repository to
persist it, in that order; the repository repeats the guards that another
transaction may have changed.  A worker's bytes are installed by content before the
transaction that makes a version visible.  Retention takes its roots from the same
tables that publication writes.  Schedules read the events publication commits
and accept builds through planning.  The serving loop runs all of it one step at a time:
mailboxes, the scheduling pass, the next queued build, cancellations.

## Modules

**Execution** has one action for each method of `Job` and `Build` that changes state.
The fields of the aggregates are functions from job to value (`state`, `attempts`, `fence`,
`lastEvent`, `retryAt`, ...), `attempts[j]` being a sequence; a refused call changes nothing
and is not an action.  Digests, bindings and evidence are abstracted to the outcome they
lead to.

**Publication** has the workspace tables as variables and one action for each repository
method, that is, one transaction: its guards in the order of the code and its
effect.  `owner` counts the runtime owners; `Recover`, the first transaction of the next
one, may come between any two actions, which is how a crash looks to the tables, and a
request of an earlier owner may still arrive after it.  The head of an output is a version
and a generation; `changes` is `head_changes`.  Worker, filesystem and checks appear as the
choice of outcome and of the object installed.  **HeadLog** is what an output promises a
reader: an append-only log of head changes whose last entry is the head, where a change
names the head it replaces.  `LogSpec` states that Publication implements it (`changes` and
`head` mapped by output).

**Retention** has the lease, pin, item, claim and deletion tables and the two directories
(`disk`, `trash`).  Repository methods need the runtime lock; a collection holds it from
inventory to end, so `gc.step` tells whether others may act, and `GcStop` is the
death of its process at any step.  `Directory::remove` is two actions, the durable
rename and the removal of the private directory, since a crash leaves different
state before, between and after.  `ticket` is what a reader in another process believes.
Every timed method raises the clock floor, so a call is modelled at the floor and
`Tick` raises it.

**Dispatcher** is one call of `execute`: the coordinator thread with its place in the loop
(`pc`, `at`), the rows it writes, and one thread per worker that sends over `inbox` (phases,
answered one by one) and `frames` (progress, bounded).  Each persisted transition is one
transaction, between two of which another handle may cancel the build, a provider may
withdraw an input, or the write may be refused; a failure ends the loop, closes the channels
(`open`) and joins the threads.  The supervised process is a choice of outcome; Supervision
says what it may be.

**Supervision** is the owner loop of one worker at a time, the process and a descendant of
it, the `recovery.json` of its directory, and the startup of the next session, which fences and
then cleans up what earlier sessions left (`coord`).  A tick of the loop handles one thing.
The process may say anything, in any order, or hang; `used` counts the budget of a phase.

**Admission** is the pool of job slots, CPU tokens and memory.  One critical section
under its mutex is one action.  The wakers a section copies are called after the unlock,
in any order: they wait in `ringing` until `Notify` calls them.  `waker[r]` says that the
queued waiter of r has stored one, `task[r]` where its caller is, and `handles[r]` what keeps
the lease alive, since the capacity comes back with the last handle and not with the
caller.  A caller in `Async` awaits its request and may be dropped while it waits; any
other is `try_reserve`: polled once with a waker that does nothing, then dropped.

**Serve** extends Admission: the HTTP and CLI threads in front of the serving loop, the busy
flag, the mailboxes and the channel of cancellations, receipts with their digest, the loop's
turn, a build thread that also takes cancellations (`aide`), and the query jobs, whose
threads are callers of Admission.  A delivery of a request is a call; a client that retries or
sends twice is two calls with one key.  `Kill` may come between any two steps and leaves
receipts and effects; a shutdown gives the queries the time they need.

**Clock** has the pure part of schedules: the instants a cron leaf intends (`Due`, from local
dates through a zone), the preview of the editor, what one observation plans for missed
ticks and what delivery does to the rows.  The unit is one minute.  **Scheduler** extends it
and has the tables `events`, `schedules`, `clocks`, `tokens`, `occurrences` and the linked
`builds`, and the place of the serving loop: `phase`, the schedule under observation `next`,
the candidates `batch`, the one being dispatched, `current`, with the heads its plan captured,
`draft`.  In the phases reconcile, scan, evaluate and select the coordinator holds the writer
lock, so no build commits, whereas the transactions of one dispatch interleave with the
publications and ends of running builds.  Commands come between two passes, or through a
temporary owner while no server runs; `Editable` is what every command checks.  `Crash` may
happen anywhere, `Recover` decides the builds that were running, and what became of their
occurrences is left to the next pass, as in the code.  A trigger is a sequence of
alternatives, each a set of leaves; event n names version n of its dataset.  `Situation` gives the
schedules, commands, verdicts, deaths and bounds of each place the run starts from.

**Freshness** has the operators of an explanation: the facts `why.rs` gathers for each dataset
(`Facts`), the statuses and causes of the datasets in topological order (`Evaluate`, a
recursive function), and `ByPaths`, the reference: a dataset is stale iff a path without
boundary leads to one that is stale by itself, and a cause comes with a shortest such path.
**Planning** extends it with the plan: `Scope` for the four request modes, resolution of every
unplanned input on the first candidate branch that has a head, guards, leases, the draft, its
expiry and its acceptance, one short transaction after the other, against publications of
running builds, branch commands and a clock.  Its workspaces are those validation accepts: `Declared`
and the order `AcyclicOrder` computes are an assumption on the constant `Sites` (`SiteAssumption`).
The candidates of an input come from the authored fallbacks (`Rules`, `Defaults`, `DefaultBranch`,
`FallbackOf`).  A rename or a deletion is previewed without the owner's lock and applied later to the
row it saw (`ask`); a branch that a policy names, a build writes or reads, or a lease shows is left alone.
**Registry** extends Planning with the catalogue
file, which the author may edit at any time, into something that does not parse or with an entry copied
with its identity (`Parses`); the journal; the pipeline that imports, renames and acceptances share (`op`): journal,
stage, guard, rename, flush, index, finish; the recovery that looks at the file to tell which of
the two contents is there; and what an acceptance captures of the workspace and compares again before
it saves (`Working`, `SourceKept`).

**ExternalReads** has, for every workspace, the holder of its lock, its coordinator (main loop,
listener, mailbox), the lease of the version somebody reads, and one build with its dispatch,
the read loop, the renewal thread and the call under way.  Any call may be cut, come late or
find another owner; a tick of the clock is longer than every timeout of the transport.  One clock stands for
wall time and for the monotonic time of the reader, so a wall clock that is set is not modelled.

**Expectations** has the domain's semantics of a check over a table and the truth of the SQL
text written for it; **CheckCompiler** the compiler with its batches, the helper's answers, the
remapping and the reduction; **Checks** the life of attempts: evaluation of the input and output
groups, the retained rows, certificates and their reuse, failed candidates, publication,
across cancellations, changed bytes and crashes.  A helper that opens changed bytes may have read another
table (`Opened`), so a result is true only because the parent verifies the subject once more before it takes the answer.  SQL text is the expression it stands for.

## Checks

| Run | Instance | Shows |
|---|---|---|
| `exec_build` | two jobs of one build in two sessions, one with a retry whose time may not be representable | evidence is immutable, cancellation excludes success, the verdict is that of the jobs |
| `pub_rival` | two builds, one of two dependent jobs, a reuse and an import on one output, one restart | head history, refinement of HeadLog, durable bytes, verdicts |
| `ret_read` | two digests, two versions, a pin, a lease that can be extended, adoption, an expired digest imported again, one deletion stopped anywhere | roots keep their bytes, intents exact at every crash point, a reader inside its expiry finds its bytes |
| `dispatch` | two jobs, together or one after the other, one tried twice and one reusable, a provider, others at the capacity, with fairness | phases durable before their work, inputs leased over retries, order of messages, every dispatch ends |
| `supervise` | one directory, three sessions, a process that may say anything, with fairness | no worker process of an earlier session, truthful outcome, every run ends |
| `reads` | two builds that read each other, or a third workspace without owner, or one with a persistent coordinator, with fairness | accepted means read under protection, leases given back, no deadlock of two coordinators |
| `sched` | seven situations: a cycle of two schedules with crashes, one schedule under all commands, two writers of a dataset, leaves that disagree, three clocks with one misfire policy each | no overlap, nobody among its own causes, events answered, ticks intended and independent |
| `sched_starve` | two schedules with nothing in common, manual requests | the first finding |
| `plan` | two plans in five workspaces (a race, an ageing source, branch commands, two kinds of registration) and every graph of three producers over one source, with the requests and snapshots asked about them | an accepted plan holds as of its clock sample, one binding per input, scope and freshness by paths, outputs kept, edits kept |
| `plan_arrival` | the race alone | the second finding |
| `checks` | every pair of a checked condition with one of seven others over five tables; two attempts in a row with every disturbance | results true, published means certified |
| `serve` | three deliveries in eleven combinations of kinds and keys, two cores, a queue of two, one restart, with fairness | one effect per key, true answers, the flag, cancelled queries, no lost wakeup, exact usage, everybody answered |

The bounds are named constants, or fields of a situation, that appear only in guards.  Two
rivals suffice for heads and reservations, since a guard compares one writer with one stored
generation; two digests suffice for collection, since a claim and a root concern
one digest and lineage joins two versions.  Clock bounds let an expiry, a grace
period and a renewal come in every order.  In the pool the demands are chosen so that
the oldest request may fit or not while a later one would, a full queue included.  Of the
schedules, two occurrences are the least that overlap, coalesce or race in one pass, three
let a chain of two come back to its start; the clocks are seven minutes of short days with a
fold, a gap and a jump back of a day and a half, so that both roundings and both alternatives
of day fields matter.  Three sessions let a record be left by one and fenced by the next which
dies in turn.  In planning three producers give the diamonds and the shortcuts on which a
walk and a path may disagree; explanations are asked for the graphs that lack at most
one of the edges validation allows, the rest being special cases that `Scope` covers.  Three calls are a request, its retry and
a rival.  Symmetry is used in runs without liveness only, on identities nothing orders.

Where a run allows deadlock a workspace in which nothing more is requested is at rest.
`dispatch`, `supervise`, `reads` and `serve` do not: their final states stutter by an action of their
own, and any other state without successor would be an error.

Fairness.  `Dispatcher`: the coordinator and the workers' threads run, a backoff passes, another
build gives its capacity back; the poll of the durable cancellation is strongly fair,
because the loop repeats it.  `Supervision`: the supervising thread runs and time passes;
nothing is assumed of the process.  `ExternalReads`: threads run and deadlines pass, a worker
ends (that is `Stops` of Supervision); no renewal, poll, crash or restart need ever
come.  `Serve`: the loop, the build's thread, the query threads and the threads that hold a
connection run, a woken task is polled, a copied waker is called by the statement after the
unlock, and whoever holds capacity lets go of it, because a worker has a deadline and a
grace period after which it is killed.  Nobody must call, retry or stop the server.

### What the models made precise

- **Finding, `sched_starve`.** Two requests of one schedule are both selected for a pass; after
  the first is accepted the second can be neither accepted nor recorded as failed, and the error
  ends the serving loop before disjoint requests are visited.
- **Finding, `plan_arrival`.** A head that arrives on an earlier branch between the transaction that
  resolves an input and the one that captures its guards is captured as if it had been seen.
- A worker that loses its coordinator takes its group with it only where its heartbeat notices, every five seconds
  (`execution.py:85-91`).  One that finishes or fails sooner leaves what it started (Fork, Crash, Leave), and startup drops
  the record of a worker that is gone without looking at its group (`recovery.rs:98`), although `SUPERVISION.md:104-106`
  says that no leader can leave descendants behind.  `NoOrphan` therefore speaks of the worker process; of what a worker
  has started it says only that it ends with the worker, unless the coordinator was lost during the run.
- A plan that kept a source because it was fresh is accepted although the source has outlived its time to live
  since: acceptance compares guards and does not decide again.  `PlanCurrent` bounds the excess by the
  lifetime of a draft.
- The plan of a scheduled occurrence whose input moves while it is prepared fails the occurrence
  for good; it is not retried.
- Ticks that fall before a pause are ignored when they are first observed during it.
- `require_current` asks for an explanation without the semantics of the code
  (`build_plan.rs:684`), so that logic is never known to be current and every local boundary is
  refused.  `INSPECTION.md` documents exactly that, so it is no finding, and the flag is not an input of `Planning`.
- A query whose job has expired and was evicted runs again under its old key, by design: its
  receipts live in memory.
- The endpoint of `serve` listens before the busy flag is raised for the preparation.  A CLI
  submission in that window is queued with the flag down.  `early` in Serve names it and
  `FlagTrue` excepts that life.
- A cache lookup that selects a version whose bytes were collected fails instead of missing.

## Proofs

TLC decides the properties on small instances; the theorems hold for every value of
the constants under the assumptions the modules name about them.  Each argument is an inductive
invariant that implies the property, found with TLC first.  A proof module belongs to one
component, or to two that meet: `AttemptProofs` has the aggregates of an attempt and the supervision of its
process, `PublicationProofs` the tables and the evidence that lets an attempt publish.

| Module | Theorems (property) | Rests on |
|---|---|---|
| `AttemptProofs`, aggregates | TypeCorrect, PhasesAgree, EvidenceIsImmutable (EvidenceImmutable), CancelNeverSucceeds (CancelExcludesSuccess), VerdictKept (BuildVerdict) | phases and attempts agree |
| `PublicationProofs`, tables | TypeCorrect, HistoryKept (HeadHistory), ImplementsLog (LogSpec), DurableKept (VisibleIsDurable), VerdictKept (VerdictAgrees) | `TInv`, `LInv` |
| `PublicationProofs`, checks | PublicationsCertified (PublishedCertified) | `EvidenceInv` |
| `PlanningProofs`, plans | PlansAcceptedCurrent (PlanCurrent), OutputsKept (OutputKept), InputsBound (EveryInputBound), ScopesFollowPaths (ScopeByPaths), FreshnessFollowsPaths (FreshnessByPaths) | `Inv` |
| `PlanningProofs`, registry | RegistryAcceptsCurrent, RegistryKeepsOutputs, RegistryBindsInputs, RegistryScopes, RegistryFreshness (the same five), AuthorEditsKept (EditsKept) | `Inv`, `EditsSeen` |
| `RetentionProofs` | IntentsKept (IntentExact), RootsStay (RootsKept), ReadersProtected (ReaderProtected) | `DInv`, `IInv` |
| `DispatcherProofs` | EvidenceGoesFirst (EvidenceFirst), InputsStayLeased (InputsHeld), HandledInOrder (InOrder) | `Inv` |
| `AttemptProofs`, supervision | NoneOrphaned (NoOrphan), OutcomeTrue (Truthful) | `Owners`, `Judgements` |
| `ExternalReadsProofs` | AcceptedInPlace (ReadInPlace), LeasesReturned (GivenBack) | `Inv` |
| `SchedulerProofs` | OverlapForbidden (NoOverlap), NoScheduleCausesItself (NoSelfAncestry), NoEventIsLost (EventsAnswered), TicksStayApart (TicksIndependent), TicksAreIntended (TicksIntended) | `IInv`, `Ticking`, `Counting` |
| `ServeProofs`, the pool | TypeCorrect, WakeupsKept (NoLostWakeup), CapacityKept (UsageExact) | `WInv`, `UInv` |
| `ServeProofs`, the server | KeyedOnce (OncePerKey), AnswersRetained (AnswersTrue), FlagStands (FlagTrue), CancellationKept (CancelKept), ServerCapacity (UsageExact), ServerWakeups (NoLostWakeup) | `KeyInv`, `FlagInv`, `JobInv`, `PoolInv` |

**Execution.** The inductive invariant is TypeOK with PhaseAgreement (at most the last
attempt is open, and only while the job executes): without it a late event could
name an open attempt that is not the last.

**Publication.** TypeOK needs three facts of the tables first: a job that executes has started an attempt
(`Started`), an intent in the journal belongs to an attempt that ended or is the current one
(`Journaled`), and a head nobody wrote has generation 0 (`FreshHead`).  HeadHistory is then
inductive, because each of the three writers of a head compares its generation in the
transaction that moves it.  For the refinement every change must name a visible version
(`Committed`) and every change of an output must precede its head (`Entered`); a step that
moves a head appends exactly one entry, every other step stutters.  Durability follows the
object from the journal to the commit: a commit finds the object its own attempt installed, and nothing is
removed from the store.  The verdict of a build is computed by the dispatcher and by
recovery from the same finished jobs, which stay as they are.

**Checks.** The gate before publication looks at the results an attempt holds in memory, the property
at the rows.  `EvidenceInv` says how the two agree: an attempt that goes on has recorded all it holds, about its
own bytes, and a row answers an obligation of its case.  At publication what is held answers every obligation,
once and acceptably, and there is no other row of the attempt (`Sealed`); later evaluations, cancellations, reused
certificates and crashes leave it so.

**Planning.** `Inv` has five parts.  `Tables`: types, names of rows distinct, heads of branches that are there.
`Previewed` and `Preparing` say what a branch command and a plan under way have seen: each guard still shows
the table, or was overtaken, which is for good, because generations only grow (`Overtaken`); which inputs
are bound, and on which candidate of its list the one under way is (`Reading`).  `Drafts`: the guards of a draft cover
every write and, for every unpinned input, the candidates up to one with a head (`Covered`), the one it was read from
(`Resolved`), so guards that all stand determine what planning would choose in the present tables at the plan's own clock
sample (`IdealSeen`).  An acceptance looks at the guards, so the first half of PlanCurrent follows.  A read is the version that planning
would choose unless an earlier candidate has a head that was captured as if it had been seen (`ResolvedRead`): that
exception is the second finding.  The clock is not asked again: a source that is not run was fresh at the sample, and a
draft is accepted within its lifetime (`StillFresh`).  `Builds`: the branch of an active build stands and its
unpublished outputs have the generations of the plan, whence OutputKept.  Every step of the registry is a step of
Planning or one that only takes or returns the owner (`Claim`, `RegistrySteps`), so each theorem holds under it.
For EveryInputBound the recursive `AcyclicOrder` is shown to place inputs first (`OrderArranged`).
ScopeByPaths states paths by sets closed under the edges, so nothing is induced along a path: what a
closed set excludes no walk enters, and the last level of each walk is itself closed, since inputs come first in the order
(`WalkRises`, `PassOrder`).  That the recursive functions of the walks exist is proved by `SetInduction` over
levels.  FreshnessByPaths goes down the order: a status is the judgement of the statuses of its inputs
(`StatusFixed`), a dataset is in doubt by itself exactly when it has a reason (`OwnDoubts`), and what is n + 1 steps above
a dataset is n steps above one that feeds it (`TrailsLast`, `ReachStep`), so a cause at its least distance is among those
gathered and the shortest is kept (`GatheredNear`, `ShortestNear`).
The assumptions are what validation establishes of a stored workspace (`SiteAssumption`, the types of
source policies included), that a snapshot gives every dataset
one of the five states of a head (`SnapshotAssumption`), and that "none" is no row or name.

**Registry.** EditsKept needs to know what the pipeline captured and when its last guard looked: at the
rename the file is what was captured, or was edited after the guard (`EditsSeen`).

**Retention.** What a row names exists (`Closed`); a claim has an intent of its own and never that
of a completed deletion, and its private directory is gone when the bytes are said to be removed
(`Intents`); a published digest without a claim or a deletion has its bytes (`BytesThere`); nobody is told of a
longer lease than the table has (`Told`).  Reachability is a least set closed under inputs, so the
proofs need no induction along paths: a set that holds what is needed after a step and the inputs
of its members holds all that is retained.  `RowAssumption` only says that the value
for "no row" is no row.

**Dispatcher.** A thread has an attempt and an attempt a thread, or the coordinator is at it
(`Attended`, `Launched`); the phase of a thread gives the durable state of its attempt (`Following`),
and a message says of its sender what is still true when it is answered, at most one message
being under way from each (`Fits`, `Mailbox`).

**Supervision.** For orphans: how far a launch is says where its process and its record are, authored
code runs only once the record is whole, and a startup that succeeded left no record of an earlier session
(`Owner`).  A descendant needs a worker that was answered (`Answered`), and is alone only where the coordinator was lost
(`Descends`).  For the outcome: what the thread has heard, and then what waits in the channel, is what the
process said so far, unless the run was interrupted (`Heard`, `Told`).

**ExternalReads.** What is held until an expiry has not been collected before it, and the expiry is later than the
reader believes, counted from before the question (`Protects`); that is what
`Margin <= Ttl` is for.  The fence of a ticket is the provider's, one behind while
the answer to a renewal is on the way (`Agrees`), so a release is granted.  `Calls`, `Mail` and `Awaited` say which request may still
be in which mailbox.

**Scheduler.** `IInv` has six parts.  `History`: rows name rows that are there, and what a row was made from
stays as it was; every action is shown to take the tables only onward (`Onward`).
`InPass` and `Observers` say the same of the pass and of what a schedule watches.  `Alone` is NoOverlap
over two builds: the request becomes a build in a transaction that looks for an active one again.
`Apart` is what makes NoSelfAncestry inductive: all that is behind an accepted automatic build
lies in some set of builds that is closed under causes and has none of its own schedule
(`Separate`).  A closed set stays closed when builds are added, so no induction along
the chain is needed, and the walk of the code, which stops at the first build of its own schedule,
produces such a set (`NotRecurring`, `SeparateBehind`).  `Answered`: scanning makes a token of every event that
matches before the cursor passes it, and the request that uses a token up carries the latest one of its leaf;
this holds through every round of the loop that queues (`QueuedWorks`).  The recursive functions
`Behind` and `Queued` are shown to exist by `SetInduction` over the numbers they run through.

TicksIndependent needs `Ticking` beside it, for each schedule that catches up.  `Passed`: a tick has one row, and
the cursor has passed it, because what an observation takes lies between the cursor and its next place
(`PlannedAhead`, for any time zone and any trigger: with a limit the cursor stops before the oldest tick that was
left).  `Accounted`: a tick that was not delivered is no token and no one used it; a delivered one waits unused,
or exactly one request used it.  `Traced`: a token or a use comes from a row, so a new row names an instant nobody
knows.  `Single`: of a leaf one live token waits, which is why using up all tokens of a
leaf swallows none.  The argument rests on two checks of cron.rs, a trigger has at most 64 clock leaves
and no leaf twice (`DefinitionAssumption`): with a leaf twice two rows would be one token.

TicksIntended needs `Counting`: of every epoch, the rows, the ignored and the coalesced are without repetition
the ticks intended between its beginning and the cursor (`Tally`).  An observation continues the count, because the
ticks it takes, ignores and coalesces are those intended between the two cursors (`PlannedCounts`, one case for each
policy), and intervals that meet add up (`WithinJoins`); what changes a row changes its state only (`Rewritten`).  The search
itself is compared with the definition of an intended instant: a local date that is walked holds the intended instants of that
date and no other (`DayIntended`), and no intended instant of the interval has a date outside the walk (`DueIntended`,
`PreviewIntended`).  The last is false of a zone that puts its local date back by more than a day, so `ZoneAssumption` says
that none does: the one more date that `prepare` and `preview` walk at each end takes it for granted.  With a minute of the
day that is no minute of a day the walk of one date would enter another (`ClockAssumption`).
The proof asked for two corrections of the model.  A pause that ends in the minute it began leaves an interval as in
the code; without it a tick could be ignored for no recorded cause.  The preview's walk goes one date past the
last local date there can be; it stopped one short in zones that put the clock back at the very end.

**Admission.** NoLostWakeup is inductive together with the fact
that a parked task has stored its waker: what can make the oldest request fit
is the departure of the one before it or the return of capacity, and both copy every
stored waker.  UsageExact is about a sum over a set, a recursive function of the community modules.  That
there is such a function, and only one, is proved by taking a smallest part of the set for which it fails
(`LeastSubset`, from the library's theorems on well-founded relations), and so is that the order of
addition does not matter (`SumGrows`, `TotalAdds`).  That the set of live leases is finite is part of the invariant and needs no assumption.

**Serve.** `KeyInv`: a receipt tells whether the work of its key was begun, who is at work on
a key has the receipt with its own digest, the loop and the build's thread never work on one key,
and every answer given is the retained one.  `FlagInv`: in a life that no early request got into, at
most one thing is before the loop, and the flag is up for it (`Quiet`, `Single`).  `JobInv`: a job is
known while its thread has steps left, and one that was told to cancel before it ended has neither success
nor a page (`Threaded`, `Kept`).  Every step of the server is a step of the pool, leaves it alone, or is the
end of a life, which begins the pool anew (`PoolStep`): so the theorems of Admission hold under the server.
The proof of KeyInv did not go through at first: the model saved a schedule without looking at the receipt a
second time, in the transaction that saves, as the code does; the run had no workload in
which the CLI and HTTP use one key for a schedule.  Both were corrected.

Only model-checked, and why:

- liveness (`Ends`, `Stops`) and ENABLED, which are beyond this prover;
- ResultsTrue of Checks, whose content is the arithmetic of one evaluation, by recursion over a condition;
- the claims of the two findings, which the code refutes.

## Not modelled

- Publication: `release`, which nothing calls; an object that is damaged or lost after its last verification,
  just before the commit.  Retention: a digest is collected once in the
  run (a second time is covered by the theorems only); source and log items, quarantined
  candidates, roots that come from schedules or foreign inputs, limits of 100 000 rows.
- Schedules: build-success events, events of other workspaces, the reset command, required
  materialisation, pages of 100 and batches of 10, entity tags; a local clock that goes backwards.
  The ancestry check also stops after 16 steps, which an authored limit of consecutive builds makes
  unreachable here.
- Planning: parameters, fixed git or snapshot selections, foreign inputs (ExternalReads).  Heads are
  per identity, one for a path.  Freshness: pending outputs, foreign bindings, the note of a
  fallback, quality, the budget of 1 000 000 path cells, the choice among equally short paths.
- Checks: regular expressions, decimals, strings, the filter of unsupported schemas.  The lookup and reuse of
  certificates are modelled although only tests call them today.
- Serve: sessions, request parsing, read-only pages, the event stream; errors of the disk when a
  query's directory is removed; more than one dispatch in a pass.  A server that stops is assumed to
  let the connections in flight finish within its two seconds.
- Supervision: a limit of 0, which disables the deadline of a phase (`Limit` is positive, and `Stops` needs it); sandbox, environment and log capture.  Registry: TOML and the layout of the file.
- The language server, editors, the web UI and the Python SDK keep no state the coordinator
  depends on; of the Python worker only the check helper is modelled.

## Plan

Next would be: schedule roots in Retention; build-success and foreign events in Scheduler; the event stream beside Serve.
