----------------------------- MODULE Scheduler -----------------------------
(***************************************************************************)
(* Schedules: committed events become tokens, tokens become occurrences,   *)
(* occurrences become builds (crates/tf-store/src/schedule_*.rs), driven   *)
(* by the pass the coordinator makes every second                          *)
(* (crates/transflow/src/schedule_dispatch.rs, serve.rs).                  *)
(*                                                                         *)
(* The serving loop is one thread: a command is served between two passes, *)
(* never inside one.  A pass first observes, holding the writer lock, so   *)
(* that builds cannot commit meanwhile; then it dispatches candidates one  *)
(* by one, and each dispatch is several transactions between which builds  *)
(* publish and finish.  The process can die between any two actions.       *)
(*                                                                         *)
(* Event n names version n of its dataset: a head change always brings     *)
(* another version than the one before.  A trigger is an Or of Ands of     *)
(* leaves, in authored order.                                              *)
(***************************************************************************)
EXTENDS Clock

CONSTANTS
    None,
    Catalog,      \* what schedules may be saved as, by the tables below
    Situation     \* Situation[name]: who acts, and the bounds

Watches == Catalog.watches    \* of a leaf: [on, dataset, pin], [on |-> "schedule", schedule], [on |-> "clock"]
Trigger == Catalog.trigger    \* of a definition: a sequence of sets of leaves
Clocks == Catalog.clocks      \* its clock leaves in authored order
Targets == Catalog.targets    \* its authored targets
Writes == Catalog.writes      \* all a build of it publishes, the targets included
Reads == Catalog.reads        \* its inputs, read at the head unless pinned
Policy == Catalog.policy      \* its operational policies
Broken == Catalog.broken      \* definitions whose clock cannot be resolved
Situations == Situation
Definitions == DOMAIN Policy
Leaves == DOMAIN Watches
Datasets == UNION {Writes[d] \cup Reads[d] : d \in Definitions}

ASSUME DefinitionAssumption ==
    /\ None \notin Datasets /\ None \notin Nat /\ Broken \subseteq Definitions
    /\ \A d \in Definitions :
        /\ Trigger[d] \in Seq(SUBSET Leaves)
        /\ Clocks[d] \in Seq({l \in DOMAIN Crons \cap Leaves : Watches[l].on = "clock"})
        /\ Len(Clocks[d]) <= Whole
        /\ \A i, j \in DOMAIN Clocks[d] : Clocks[d][i] = Clocks[d][j] => i = j
        /\ Targets[d] \subseteq Writes[d] /\ Writes[d] # {}
        /\ Policy[d].overlap \in {"skip", "queue", "coalesce_latest"}
        /\ Policy[d].misfire \in {"skip", "coalesce_latest", "catch_up"}
        /\ Policy[d].overlapping \in BOOLEAN
        /\ {Policy[d].maxPending, Policy[d].consecutive, Policy[d].maxCatchUp} \subseteq Nat \ {0}
        /\ Policy[d].delay \in Nat /\ Policy[d].window \in Nat \cup {None}
ASSUME SiteAssumption ==
    \A name \in DOMAIN Situation : LET at == Situation[name] IN
        /\ at.initially \in Seq(at.definitions) /\ at.initially # <<>> /\ at.definitions \subseteq Definitions
        /\ at.others \subseteq Datasets \X {"publication", "cache_reuse"}
        /\ at.commands \subseteq {"pause", "resume", "run", "delete", "save", "replay"}
        /\ at.verdicts \subseteq {"SUCCEEDED", "FAILED", "CANCELED"}
        /\ at.faults \subseteq {TRUE} /\ at.deaths \in BOOLEAN
        /\ {at.time, at.outside, at.occurrences, at.epochs} \subseteq Nat /\ at.time <= Horizon

VARIABLES
    site,          \* the name of the situation
    now,           \* wall clock
    events,        \* table events: head changes and schedule successes
    schedules,     \* table schedules, with its pause intervals
    clocks,        \* tables schedule_clock_state and schedule_clock_ticks, of the epoch
    tokens,        \* tokens[s]: unconsumed <<leaf, event or instant>> of the epoch
    occurrences,   \* table schedule_occurrences
    builds,        \* the builds linked to an occurrence
    phase,         \* where the serving loop is
    next,          \* the schedule under observation
    batch,         \* candidates not visited yet
    current,       \* the occurrence being dispatched
    draft          \* heads captured by its plan

passVars == <<phase, next, batch, current, draft>>
vars == <<site, now, events, schedules, clocks, tokens, occurrences, builds, passVars>>

Here == Situations[site]
ScheduleCount == Len(Here.initially)    \* schedules are numbered in keyset order
Schedules == 1..ScheduleCount

ActiveState == {"QUEUED", "RUNNING"}
PendingState == {"QUEUED", "HELD"}

Event ==
    [dataset : Datasets, cause : {"publication", "cache_reuse"}, build : Nat, at : Nat]
        \cup [dataset : {None}, schedule : Schedules, occurrence : Nat, build : Nat, at : Nat]
ScheduleRow ==
    [def : Definitions, paused : BOOLEAN, review : BOOLEAN, deleted : BOOLEAN,
     epoch : Nat, cursor : Nat, since : Nat, muted : SUBSET Nat,
     pausedAt : Nat, quiet : SUBSET (Nat \X Nat)]
ClockState ==
    [cursor : Nat \X Nat, ignored : SUBSET (Nat \X Nat), coalesced : SUBSET (Nat \X Nat),
     rows : SUBSET [key : Nat \X Nat, state : {"PENDING", "DELIVERED", "EXPIRED", "COALESCED"}]]
OccurrenceRow ==
    [schedule : Schedules, epoch : Nat, manual : BOOLEAN, fire : Nat,
     evidence : SUBSET (Leaves \X Nat), def : Definitions, build : Nat,
     disposition : PendingState \cup
        {"RUNNING", "SUCCEEDED", "FAILED", "CANCELED", "SKIPPED", "COALESCED", "EXPIRED"}]
BuildRow ==
    [occurrence : Nat, published : SUBSET Datasets, finished : Nat,
     state : ActiveState \cup {"SUCCEEDED", "FAILED", "CANCELED", "INTERRUPTED"}]

\* The row of an epoch is written by the first observation of it.
Unobserved(at) == [cursor |-> <<at, Whole>>, ignored |-> {}, coalesced |-> {}, rows |-> {}]

Init ==
    /\ site \in DOMAIN Situation
    /\ now = 0 /\ events = <<>>
    /\ schedules = [s \in Schedules |->
        [def |-> Here.initially[s], paused |-> FALSE, review |-> FALSE, deleted |-> FALSE,
         epoch |-> 0, cursor |-> 0, since |-> 0, muted |-> {}, pausedAt |-> 0, quiet |-> {}]]
    /\ clocks = [s \in Schedules |-> Unobserved(0)]
    /\ tokens = [s \in Schedules |-> {}]
    /\ occurrences = <<>> /\ builds = <<>>
    /\ phase = "idle" /\ next = 1 /\ batch = {} /\ current = 0 /\ draft = <<>>

(***************************************************************************)
(* Queries                                                                 *)
(***************************************************************************)
WritesOf(b) == Writes[occurrences[builds[b].occurrence].def]
ScheduleOf(b) == occurrences[builds[b].occurrence].schedule
BuildsOf(s) == {b \in DOMAIN builds : ScheduleOf(b) = s}
ActiveBuilds == {b \in DOMAIN builds : builds[b].state \in ActiveState}
ActiveOf(s) == ActiveBuilds \cap BuildsOf(s)
Reserved == UNION {WritesOf(b) : b \in ActiveBuilds}

HeadOf(x) == Max({0} \cup {e \in DOMAIN events : events[e].dataset = x})
PendingOf(s, rows) ==
    {o \in DOMAIN rows : rows[o].schedule = s /\ rows[o].disposition \in PendingState}
Automatic(o) == ~occurrences[o].manual
Execution(d) == <<Writes[d], Reads[d], Policy[d]>>
Expired(at, window) == window # None /\ at + window <= now

(***************************************************************************)
(* Builds and the world, while no one holds the writer lock                *)
(***************************************************************************)
Observing == phase \in {"reconcile", "scan", "events", "deliver", "evaluate", "select"}
Alive == phase # "down" /\ ~Observing

Published(x, cause, b) ==
    events' = Append(events, [dataset |-> x, cause |-> cause, build |-> b, at |-> now])

\* A build nobody scheduled, or an import, moves a head that is not reserved.
Outside(x, cause) ==
    /\ Alive /\ <<x, cause>> \in Here.others /\ x \notin Reserved
    /\ Cardinality({e \in DOMAIN events : events[e].build = 0}) < Here.outside
    /\ Published(x, cause, 0)
    /\ UNCHANGED <<site, now, clocks, schedules, tokens, occurrences, builds, passVars>>

\* The loop starts a worker thread between two passes.
StartBuild(b) ==
    /\ phase = "idle" /\ builds[b].state = "QUEUED"
    /\ builds' = [builds EXCEPT ![b].state = "RUNNING"]
    /\ UNCHANGED <<site, now, clocks, events, schedules, tokens, occurrences, passVars>>

\* publish_head, or an adoption of a retained version.
PublishHead(b, x, cause) ==
    /\ Alive /\ builds[b].state = "RUNNING"
    /\ x \in WritesOf(b) \ builds[b].published
    /\ builds' = [builds EXCEPT ![b].published = @ \cup {x}]
    /\ Published(x, cause, b)
    /\ UNCHANGED <<site, now, clocks, schedules, tokens, occurrences, passVars>>

\* finish_dispatch: the verdict, and the reservations go.
FinishBuild(b, state) ==
    /\ Alive
    /\ \/ state = "SUCCEEDED" /\ builds[b].state = "RUNNING" /\ builds[b].published = WritesOf(b)
       \/ state = "FAILED" /\ builds[b].state = "RUNNING" /\ builds[b].published # WritesOf(b)
       \/ state = "CANCELED" /\ builds[b].state \in ActiveState /\ builds[b].published # WritesOf(b)
    /\ builds' = [builds EXCEPT ![b].state = state, ![b].finished = now]
    /\ UNCHANGED <<site, now, clocks, events, schedules, tokens, occurrences, passVars>>

\* The pass freezes one observation of the clock.
Tick ==
    /\ ~Observing /\ now < Here.time
    /\ now' = now + 1
    /\ UNCHANGED <<site, events, schedules, clocks, tokens, occurrences, builds, passVars>>

(***************************************************************************)
(* Evidence: tokens to occurrences                                         *)
(***************************************************************************)
LeavesOf(d) == UNION {Trigger[d][i] : i \in DOMAIN Trigger[d]}
OnClock(t) == Watches[t[1]].on = "clock"
At(t) == IF OnClock(t) THEN t[2] ELSE events[t[2]].at
Gone(t, d) == Expired(At(t), Policy[d].window)

\* matched: a published leaf wants a publication, a head leaf any head change.
Matched(l, e) ==
    IF Watches[l].on = "schedule"
      THEN events[e].dataset = None /\ events[e].schedule = Watches[l].schedule
      ELSE /\ Watches[l].on # "clock" /\ events[e].dataset = Watches[l].dataset
           /\ Watches[l].on = "published" => events[e].cause = "publication"

\* scan: the tokens of every event behind the cursor.  What happened in a
\* pause, or has expired already, is ignored.
Scan(row, toks) ==
    toks \cup
      {t \in LeavesOf(row.def) \X ((row.cursor + 1)..Len(events)) :
        /\ Matched(t[1], t[2])
        /\ ~row.paused /\ t[2] \notin row.muted
        /\ ~Gone(t, row.def)}
Scanned(row) == [row EXCEPT !.cursor = Len(events)]

Live(row, toks) == {t \in toks : ~Gone(t, row.def)}

\* evaluate: the alternative ready first, with the latest token of each leaf.
Evidence(row, live) ==
    LET latest(l) == Max({t[2] : t \in {u \in live : u[1] = l}})
        ready == {i \in DOMAIN Trigger[row.def] :
                    \A l \in Trigger[row.def][i] : \E t \in live : t[1] = l}
        at(i) == Max({0} \cup {At(<<l, latest(l)>>) : l \in Trigger[row.def][i]})
        first == {i \in ready : \A j \in ready : at(i) <= at(j)}
    IN  IF ready = {} THEN {} ELSE {<<l, latest(l)>> : l \in Trigger[row.def][Min(first)]}
Fire(evidence) == Max({At(t) : t \in evidence})

\* Pins of one dataset must agree on its version.
Pins(evidence) == {t \in evidence : Watches[t[1]].on \notin {"schedule", "clock"} /\ Watches[t[1]].pin}
Pinned(evidence) == {Watches[t[1]].dataset : t \in Pins(evidence)}
Conflicting(evidence) ==
    \E t, u \in Pins(evidence) : Watches[t[1]].dataset = Watches[u[1]].dataset /\ t[2] # u[2]

\* A full queue leaves the evidence where it is, except that coalescing may
\* make room while a build of the schedule is active.
RoomToQueue(s, row, rows) ==
    \/ Cardinality(PendingOf(s, rows)) < Policy[row.def].maxPending
    \/ /\ ActiveOf(s) # {} /\ ~Policy[row.def].overlapping
       /\ Policy[row.def].overlap = "coalesce_latest"

\* schedule_overlap::apply: the disposition, and the requests it replaces.
Peers(s, d, rows) ==
    {o \in PendingOf(s, rows) : /\ rows[o].disposition = "QUEUED" /\ ~rows[o].manual
                                /\ Execution(rows[o].def) = Execution(d)}
Overlap(s, d, fire, rows) ==
    LET policy == Policy[d]
        peers == Peers(s, d, rows)
        as(disposition, replaced) == [disposition |-> disposition, replaced |-> replaced]
    IN  IF ActiveOf(s) = {} \/ policy.overlapping \/ policy.overlap = "queue" THEN as("QUEUED", {})
        ELSE IF policy.overlap = "skip" THEN as("SKIPPED", {})
        ELSE IF \E o \in peers : rows[o].fire > fire THEN as("COALESCED", {})
        ELSE IF Cardinality(PendingOf(s, rows) \ peers) >= policy.maxPending THEN as("SKIPPED", peers)
        ELSE as("QUEUED", peers)

\* Every live token of a chosen leaf is used up, not only the latest.
ConsumedAll(toks, live, evidence) == toks \ live    \* mutant: the other alternatives too
Consumed(toks, live, evidence) == toks \ {t \in live : \E u \in evidence : t[1] = u[1]}

Occurrence(s, row, evidence, disposition) ==
    [schedule |-> s, epoch |-> row.epoch, manual |-> FALSE, fire |-> Fire(evidence),
     evidence |-> evidence, def |-> row.def, build |-> 0, disposition |-> disposition]
\* queue: at most one occurrence from what w holds, w = [rows, tokens, ok].
Queue(s, row, w) ==
    LET live == Live(row, w.tokens)
        evidence == Evidence(row, live)
        verdict == Overlap(s, row.def, Fire(evidence), w.rows)
        replaced == [o \in DOMAIN w.rows |->
            IF o \in verdict.replaced THEN [w.rows[o] EXCEPT !.disposition = "COALESCED"] ELSE w.rows[o]]
    IN  IF row.paused \/ ~RoomToQueue(s, row, w.rows) \/ evidence = {}
            \/ Len(w.rows) = Here.occurrences THEN w
        ELSE IF Conflicting(evidence) THEN [w EXCEPT !.ok = FALSE]
        ELSE [w EXCEPT !.tokens = Consumed(w.tokens, live, evidence),
                !.rows = Append(replaced, Occurrence(s, row, evidence, verdict.disposition))]

\* Occurrences are queued until the evidence, the room or the bound is used up.
Queued(s, row, first) ==
    LET w[n \in 0..Here.occurrences] ==
            IF n = 0 THEN first
            ELSE IF w[n - 1].ok THEN Queue(s, row, w[n - 1]) ELSE w[n - 1]
    IN  w[Here.occurrences]

(***************************************************************************)
(* The pass: reconcile, observe each schedule, select                      *)
(***************************************************************************)
StartPass ==
    /\ phase = "idle" /\ phase' = "reconcile" /\ next' = 1
    /\ UNCHANGED <<site, now, clocks, events, schedules, tokens, occurrences, builds, batch, current, draft>>

Unreconciled ==
    {o \in DOMAIN occurrences : /\ occurrences[o].disposition = "RUNNING"
                                /\ builds[occurrences[o].build].state \notin ActiveState}

\* reconcile_schedule_dispatches, one transaction for each terminal build;
\* complete_schedule_success writes the outcome and its event together.
Reconcile(o) ==
    LET state == builds[occurrences[o].build].state IN
    /\ phase = "reconcile" /\ o \in Unreconciled
    /\ occurrences' = [occurrences EXCEPT ![o].disposition =
            IF state = "INTERRUPTED" THEN "FAILED" ELSE state]
    /\ events' = IF state # "SUCCEEDED" THEN events
                 ELSE Append(events, [dataset |-> None, schedule |-> occurrences[o].schedule,
                        occurrence |-> o, build |-> occurrences[o].build, at |-> now])
    /\ UNCHANGED <<site, now, clocks, schedules, tokens, builds, passVars>>

Reconciled ==
    /\ phase = "reconcile" /\ Unreconciled = {} /\ phase' = "scan"
    /\ UNCHANGED <<site, now, clocks, events, schedules, tokens, occurrences, builds, next, batch, current, draft>>

Skipped(s) == schedules[s].deleted \/ schedules[s].review
Advanced(s) == IF s = ScheduleCount THEN phase' = "select" /\ next' = 1
               ELSE phase' = "scan" /\ next' = s + 1

\* Not on the page, or its clock cannot be resolved: marked for review.
SkipSchedule ==
    LET s == next IN
    /\ phase = "scan" /\ (Skipped(s) \/ schedules[s].def \in Broken)
    /\ schedules' = [schedules EXCEPT ![s].review = @ \/ ~schedules[s].deleted]
    /\ Advanced(s)
    /\ UNCHANGED <<site, now, clocks, events, tokens, occurrences, builds, batch, current, draft>>

\* prepare and accept_schedule_clock: no command comes between the two.  The
\* counters of the row are kept as the sets they count.
Pendings(s) == {r \in clocks[s].rows : r.state = "PENDING"}
Timed(s) == Clocks[schedules[s].def] # <<>>
Superseded(s, ticks) ==
    {r \in Pendings(s) : /\ Policy[schedules[s].def].misfire = "coalesce_latest"
                         /\ \E t \in ticks : t[2] = r.key[2]}
ObservedEntirely(c, s) ==    \* mutant: the cursor goes where the observation ended
    LET row == schedules[s]
        policy == Policy[row.def]
        plan == Prepared(Clocks[row.def],
            [cursor |-> c.cursor, paused |-> row.paused, quiet |-> row.quiet,
             pending |-> Cardinality(Pendings(s))], policy.misfire, policy.maxCatchUp, now)
    IN  [cursor |-> <<Min({now, c.cursor[1] + LongestPass}), Whole>>,
         ignored |-> c.ignored \cup plan.ignored, coalesced |-> c.coalesced \cup plan.coalesced,
         rows |-> (c.rows \ Superseded(s, plan.ticks))
                    \cup {[r EXCEPT !.state = "COALESCED"] : r \in Superseded(s, plan.ticks)}
                    \cup {[key |-> t, state |-> "PENDING"] : t \in plan.ticks}]
Observed(c, s) ==
    LET row == schedules[s]
        policy == Policy[row.def]
        plan == Prepared(Clocks[row.def],
            [cursor |-> c.cursor, paused |-> row.paused, quiet |-> row.quiet,
             pending |-> Cardinality(Pendings(s))], policy.misfire, policy.maxCatchUp, now)
    IN  [cursor |-> plan.cursor,
         ignored |-> c.ignored \cup plan.ignored, coalesced |-> c.coalesced \cup plan.coalesced,
         rows |-> (c.rows \ Superseded(s, plan.ticks))
                    \cup {[r EXCEPT !.state = "COALESCED"] : r \in Superseded(s, plan.ticks)}
                    \cup {[key |-> t, state |-> "PENDING"] : t \in plan.ticks}]
ObserveClock ==
    LET s == next IN
    /\ phase = "scan" /\ Timed(s) /\ ~Skipped(s) /\ schedules[s].def \notin Broken
    /\ clocks' = [clocks EXCEPT ![s] = Observed(@, s)]
    /\ phase' = "events"
    /\ UNCHANGED <<site, now, events, schedules, tokens, occurrences, builds, next, batch, current, draft>>

\* scan_schedule_events: tokens and cursor in one transaction.  Without clock
\* leaves the steps before and after this one change nothing.
ScanEvents ==
    LET s == next IN
    /\ \/ phase = "events"
       \/ phase = "scan" /\ ~Timed(s) /\ ~Skipped(s) /\ schedules[s].def \notin Broken
    /\ tokens' = [tokens EXCEPT ![s] = Scan(schedules[s], @)]
    /\ schedules' = [schedules EXCEPT ![s] = Scanned(@)]
    /\ phase' = IF Timed(s) THEN "deliver" ELSE "evaluate"
    /\ UNCHANGED <<site, now, clocks, events, occurrences, builds, next, batch, current, draft>>

\* deliver_schedule_ticks: the oldest row of each leaf becomes a token.  A leaf
\* that catches up waits while a token of it lives.
LeafOf(s, key) == Clocks[schedules[s].def][key[2]]
TokenOf(s, key) == <<LeafOf(s, key), key[1]>>
WaitingNever(s, key) == FALSE    \* mutant: catching up does not wait
Waiting(s, key) ==
    /\ Policy[schedules[s].def].misfire = "catch_up"
    /\ \E t \in Live(schedules[s], tokens[s]) : t[1] = LeafOf(s, key)
Deliver ==
    LET s == next
        late == {r \in Pendings(s) : Gone(TokenOf(s, r.key), schedules[s].def)}
        oldest == {r \in Pendings(s) \ late :
                    \A q \in Pendings(s) \ late : q.key[2] = r.key[2] => r.key[1] <= q.key[1]}
        out == {r \in oldest : ~Waiting(s, r.key)}
    IN
    /\ phase = "deliver" /\ phase' = "evaluate"
    /\ IF schedules[s].paused THEN UNCHANGED <<clocks, tokens>>
       ELSE /\ tokens' = [tokens EXCEPT ![s] = @ \cup {TokenOf(s, r.key) : r \in out}]
            /\ clocks' = [clocks EXCEPT ![s].rows = (@ \ (late \cup out))
                    \cup {[r EXCEPT !.state = "EXPIRED"] : r \in late}
                    \cup {[r EXCEPT !.state = "DELIVERED"] : r \in out}]
    /\ UNCHANGED <<site, now, events, schedules, occurrences, builds, next, batch, current, draft>>

\* queue_schedule_occurrence.  Conflicting evidence is an error of the pass,
\* and the loop returns an error of the pass.
Evaluate ==
    LET s == next
        w == Queue(s, schedules[s], [rows |-> occurrences, tokens |-> tokens[s], ok |-> TRUE])
    IN
    /\ phase = "evaluate"
    /\ occurrences' = w.rows /\ tokens' = [tokens EXCEPT ![s] = w.tokens]
    /\ IF w.ok THEN Advanced(s) ELSE phase' = "failed" /\ next' = 1
    /\ UNCHANGED <<site, now, clocks, events, schedules, builds, batch, current, draft>>

\* A manual request does not mind the state of its schedule.
Eligible(o) ==
    LET row == schedules[occurrences[o].schedule] IN
    /\ occurrences[o].disposition = "QUEUED"
    /\ Automatic(o) => ~row.paused /\ ~row.review /\ ~row.deleted
MayOverlap(o) == Policy[occurrences[o].def].overlapping \/ ActiveOf(occurrences[o].schedule) = {}
Rested(o) ==
    \A b \in BuildsOf(occurrences[o].schedule) :
        \/ builds[b].state \in ActiveState
        \/ builds[b].finished + Policy[occurrences[o].def].delay <= now

\* schedule_dispatch_candidates: read once, for the whole batch.
Select ==
    /\ phase = "select"
    /\ batch' = {o \in DOMAIN occurrences :
                    Eligible(o) /\ MayOverlap(o) /\ (Automatic(o) => Rested(o))}
    /\ phase' = "dispatch"
    /\ UNCHANGED <<site, now, clocks, events, schedules, tokens, occurrences, builds, next, current, draft>>

\* The batch is done, or a waiting command takes priority.
EndPass ==
    /\ phase = "dispatch" /\ phase' = "idle" /\ batch' = {}
    /\ UNCHANGED <<site, now, clocks, events, schedules, tokens, occurrences, builds, next, current, draft>>

(***************************************************************************)
(* Dispatch of one candidate                                               *)
(***************************************************************************)
Causes(o) == {events[t[2]].build : t \in {u \in occurrences[o].evidence : ~OnClock(u)}} \ {0}

\* check_schedule_dispatch_ancestry, the causal part: the builds depth steps
\* behind o.  A scheduled build of the same schedule, or too deep, refuses.
Behind(o, bound) ==
    LET at[depth \in 0..bound] ==
            IF depth = 0 THEN Causes(o)
            ELSE UNION {Causes(builds[b].occurrence) : b \in at[depth - 1]}
    IN  at
RecurringDirectly(o) ==    \* mutant: only the builds o names itself
    \E b \in Causes(o) : ScheduleOf(b) = occurrences[o].schedule
Recurring(o) ==
    LET bound == Policy[occurrences[o].def].consecutive - 1
        behind == Behind(o, bound)
    IN  \/ behind[bound] # {}
        \/ \E depth \in 0..bound : \E b \in behind[depth] : ScheduleOf(b) = occurrences[o].schedule


\* The other part: a burst is the run of automatic builds of the schedule, each
\* finished after the next one was ready, newest first.
Finished(s) == {b \in BuildsOf(s) : builds[b].state \notin ActiveState}
Burst(o) ==
    LET before(b) == {c \in Finished(occurrences[o].schedule) :
                        \/ builds[c].finished > builds[b].finished
                        \/ builds[c].finished = builds[b].finished /\ c > b}
        ready(b) == IF before(b) = {} THEN occurrences[o].fire
                    ELSE LET c == CHOOSE c \in before(b) : before(c) = before(b) \ {c}
                         IN  occurrences[builds[c].occurrence].fire
        breaks(b) == ready(b) > builds[b].finished \/ ~Automatic(builds[b].occurrence)
    IN  {b \in Finished(occurrences[o].schedule) : \A c \in before(b) \cup {b} : ~breaks(c)}

DispatchRefused(o) ==
    Automatic(o) /\ \/ Cardinality(Burst(o)) + 1 > Policy[occurrences[o].def].consecutive
                    \/ Recurring(o)

\* The oldest candidate left: ancestry, then prepare_inner captures the heads
\* its plan depends on; a pinned input is bound to its version instead, and
\* must be one.  Preparation may also fail for reasons of its own.
Capture(row) ==
    [x \in Writes[row.def] \cup (Reads[row.def] \ Pinned(row.evidence)) |-> HeadOf(x)]
Unprepared(o) == DispatchRefused(o) \/ ~(Pinned(occurrences[o].evidence) \subseteq Reads[occurrences[o].def])
Prepare(o) ==
    /\ phase = "dispatch" /\ o \in batch
    /\ \A p \in batch : occurrences[o].fire <= occurrences[p].fire
    /\ batch' = batch \ {o} /\ current' = o
    /\ \E fails \in Here.faults \cup {FALSE} :
        IF fails \/ Unprepared(o)
          THEN phase' = "refuse" /\ draft' = draft
          ELSE phase' = "accept" /\ draft' = Capture(occurrences[o])
    /\ UNCHANGED <<site, now, clocks, events, schedules, tokens, occurrences, builds, next>>

\* guard: eligibility again, in the transaction that decides.
GuardOfState(o) == Eligible(o)    \* mutant: overlap is only looked at when the batch is read
Guard(o) == Eligible(o) /\ MayOverlap(o)
HeadsKept == \A x \in DOMAIN draft : HeadOf(x) = draft[x]

Back(to) == phase' = to /\ current' = 0 /\ draft' = <<>>

\* accept_draft: the heads first, then the guard, then the reservations; build,
\* link, disposition and reservations are one transaction.
Accept ==
    LET o == current IN
    /\ phase = "accept" /\ HeadsKept /\ Guard(o)
    /\ Writes[occurrences[o].def] \cap Reserved = {}
    /\ builds' = Append(builds, [occurrence |-> o, state |-> "QUEUED", published |-> {}, finished |-> 0])
    /\ occurrences' = [occurrences EXCEPT ![o].disposition = "RUNNING", ![o].build = Len(builds) + 1]
    /\ Back("dispatch")
    /\ UNCHANGED <<site, now, clocks, events, schedules, tokens, next, batch>>

\* waiting_for_writes: only the reservations stand against it.
AwaitWrites ==
    /\ phase = "accept" /\ HeadsKept /\ Guard(current)
    /\ Writes[occurrences[current].def] \cap Reserved # {}
    /\ Back("dispatch")
    /\ UNCHANGED <<site, now, clocks, events, schedules, tokens, occurrences, builds, next, batch>>

\* Any other conflict goes to fail_schedule_dispatch.
Reject ==
    /\ phase = "accept" /\ ~(HeadsKept /\ Guard(current)) /\ phase' = "refuse"
    /\ UNCHANGED <<site, now, clocks, events, schedules, tokens, occurrences, builds, next, batch, current, draft>>

\* fail_schedule_dispatch repeats the guard; its own error ends the loop.
Refuse ==
    /\ phase = "refuse"
    /\ IF Guard(current)
         THEN /\ occurrences' = [occurrences EXCEPT ![current].disposition = "FAILED"]
              /\ Back("dispatch")
         ELSE occurrences' = occurrences /\ Back("failed")
    /\ UNCHANGED <<site, now, clocks, events, schedules, tokens, builds, next, batch>>

(***************************************************************************)
(* Commands, each one transaction under the ETag of the schedule           *)
(***************************************************************************)
\* Between two passes of the server, or, while there is none, by a temporary
\* owner, whose first transaction is the recovery of builds.
Served ==
    \/ phase = "idle"
    \/ phase = "down" /\ \A b \in DOMAIN builds : builds[b].state # "RUNNING"
Editable(s, command) ==
    /\ Served /\ command \in Here.commands /\ ~schedules[s].deleted
    /\ schedules[s].review => command \in {"delete", "save"}

AutomaticIn(s, dispositions) ==
    {o \in DOMAIN occurrences : /\ occurrences[o].schedule = s /\ Automatic(o)
                                /\ occurrences[o].disposition \in dispositions}
Disposed(set, disposition) ==
    [o \in DOMAIN occurrences |->
        IF o \in set THEN [occurrences[o] EXCEPT !.disposition = disposition] ELSE occurrences[o]]

Pause(s) ==
    LET row == schedules[s] IN
    /\ Editable(s, "pause")
    /\ schedules' = [schedules EXCEPT ![s].paused = TRUE,
                        ![s].since = IF row.paused THEN @ ELSE Len(events),
                        ![s].pausedAt = IF row.paused THEN @ ELSE now]
    /\ occurrences' = Disposed(AutomaticIn(s, {"QUEUED"}), "HELD")
    /\ UNCHANGED <<site, now, clocks, events, tokens, builds, passVars>>

\* release: held requests under their frozen policies; a window runs from the
\* earliest evidence.
Released(s) ==
    LET held == AutomaticIn(s, {"HELD"})
        row(o) == occurrences[o]
        earliest(o) == Min({row(o).fire} \cup {At(t) : t \in row(o).evidence})
        late == {o \in held : Expired(earliest(o), Policy[row(o).def].window)}
        rivals(o) == {p \in held \ late : Execution(row(p).def) = Execution(row(o).def)}
        newest(o) == \A p \in rivals(o) :
                        \/ row(p).fire < row(o).fire
                        \/ (row(p).fire = row(o).fire /\ p <= o)
        outcome(o) ==
            CASE o \in late -> "EXPIRED"
              [] o \notin late /\ Policy[row(o).def].overlap = "skip" -> "SKIPPED"
              [] o \notin late /\ Policy[row(o).def].overlap = "queue" -> "QUEUED"
              [] o \notin late /\ Policy[row(o).def].overlap = "coalesce_latest" ->
                    IF newest(o) THEN "QUEUED" ELSE "COALESCED"
    IN  [o \in DOMAIN occurrences |->
            IF o \in held THEN [row(o) EXCEPT !.disposition = outcome(o)] ELSE row(o)]

\* replay: a fresh epoch from an earlier event on, scanned and queued in the
\* transaction of the command; its error refuses the whole command.
Replay(s, row, rows, after) ==
    LET fresh == [row EXCEPT !.epoch = @ + 1, !.cursor = after, !.since = 0, !.muted = {},
                                  !.pausedAt = 0, !.quiet = {}]
        scanned == Scanned(fresh)
        done == Queued(s, scanned, [rows |-> rows, tokens |-> Scan(fresh, {}), ok |-> TRUE])
    IN  /\ done.ok
        /\ schedules' = [schedules EXCEPT ![s] = scanned]
        /\ clocks' = [clocks EXCEPT ![s] = Unobserved(now)]
        /\ tokens' = [tokens EXCEPT ![s] = done.tokens]
        /\ occurrences' = done.rows
        /\ UNCHANGED <<site, now, events, builds, passVars>>

Resumed(row) ==
    [row EXCEPT !.paused = FALSE, !.since = 0, !.pausedAt = 0,
        !.quiet = IF row.paused THEN @ \cup {<<row.pausedAt, now>>} ELSE @,
        !.muted = IF row.paused THEN @ \cup (row.since + 1)..Len(events) ELSE @]
ReleasedIfPaused(s) == IF schedules[s].paused THEN Released(s) ELSE occurrences

Resume(s) ==
    /\ Editable(s, "resume") /\ schedules[s].paused
    /\ schedules' = [schedules EXCEPT ![s] = Resumed(@)]
    /\ occurrences' = Released(s)
    /\ UNCHANGED <<site, now, clocks, events, tokens, builds, passVars>>

ResumeReplaying(s, after) ==
    /\ Editable(s, "resume") /\ "replay" \in Here.commands /\ after <= Len(events)
    /\ schedules[s].epoch < Here.epochs
    /\ Replay(s, Resumed(schedules[s]), ReleasedIfPaused(s), after)

\* A manual request has no evidence and is limited by the current definition.
Run(s) ==
    /\ Editable(s, "run") /\ phase = "idle" /\ Len(occurrences) < Here.occurrences
    /\ Cardinality(PendingOf(s, occurrences)) < Policy[schedules[s].def].maxPending
    /\ occurrences' = Append(occurrences,
            [schedule |-> s, epoch |-> schedules[s].epoch, manual |-> TRUE, fire |-> now,
             evidence |-> {}, def |-> schedules[s].def, build |-> 0, disposition |-> "QUEUED"])
    /\ UNCHANGED <<site, now, clocks, events, schedules, tokens, builds, passVars>>

Delete(s) ==
    /\ Editable(s, "delete")
    /\ schedules' = [schedules EXCEPT ![s].deleted = TRUE]
    /\ occurrences' = Disposed(AutomaticIn(s, PendingState), "CANCELED")
    /\ tokens' = [tokens EXCEPT ![s] = {}]
    /\ UNCHANGED <<site, now, clocks, events, builds, passVars>>

\* schedule_cycles::validate: authored targets feed triggers without a cycle.
Acyclic(s, d) ==
    LET def == [t \in Schedules |-> IF t = s THEN d ELSE schedules[t].def]
        authored == {t \in Schedules : t = s \/ (~schedules[t].deleted /\ ~schedules[t].review)}
        feeds(p, c) == \E l \in LeavesOf(def[c]) :
            IF Watches[l].on = "schedule" THEN Watches[l].schedule = p
            ELSE Watches[l].dataset \in Targets[def[p]]
    IN  \A ring \in SUBSET authored \ {{}} : \E c \in ring : \A p \in ring : ~feeds(p, c)

\* A saved definition starts a fresh epoch here; paused stays as it was.
Saved(row, d) ==
    [row EXCEPT !.def = d, !.review = FALSE, !.epoch = @ + 1, !.cursor = Len(events),
                !.since = IF row.paused THEN Len(events) ELSE 0, !.muted = {},
                !.pausedAt = IF row.paused THEN now ELSE 0, !.quiet = {}]
Save(s, d) ==
    /\ Editable(s, "save") /\ Acyclic(s, d) /\ schedules[s].epoch < Here.epochs
    /\ schedules' = [schedules EXCEPT ![s] = Saved(@, d)]
    /\ clocks' = [clocks EXCEPT ![s] = Unobserved(now)]
    /\ tokens' = [tokens EXCEPT ![s] = {}]
    /\ UNCHANGED <<site, now, events, occurrences, builds, passVars>>

SaveReplaying(s, d, after) ==
    /\ Editable(s, "save") /\ "replay" \in Here.commands /\ after <= Len(events)
    /\ Acyclic(s, d) /\ schedules[s].epoch < Here.epochs /\ ~schedules[s].paused
    /\ Replay(s, Saved(schedules[s], d), occurrences, after)

(***************************************************************************)
(* Death and restart                                                       *)
(***************************************************************************)
\* Any time, or the end of a loop that failed, when its workers are gone.
Crash ==
    /\ phase # "down" /\ (Here.deaths \/ phase = "failed") /\ phase' = "down"
    /\ next' = 1 /\ batch' = {} /\ current' = 0 /\ draft' = <<>>
    /\ UNCHANGED <<site, now, clocks, events, schedules, tokens, occurrences, builds>>

Lost == {b \in DOMAIN builds : builds[b].state = "RUNNING" /\ builds[b].published # WritesOf(b)}
Recovered(verdict) ==
    [b \in DOMAIN builds |->
        IF builds[b].state # "RUNNING" THEN builds[b]
        ELSE [builds[b] EXCEPT !.finished = now,
                               !.state = IF b \in Lost THEN verdict[b] ELSE "SUCCEEDED"]]
\* recover_publications: a build that was running has published everything, or
\* ends as its jobs had.  Its occurrence is left to the next pass.
Recover ==
    /\ phase = "down"
    /\ \E b \in DOMAIN builds : builds[b].state = "RUNNING"
    /\ \E verdict \in [Lost -> {"INTERRUPTED"} \cup (Here.verdicts \ {"SUCCEEDED"})] :
        builds' = Recovered(verdict)
    /\ UNCHANGED <<site, now, clocks, events, schedules, tokens, occurrences, passVars>>

Restart ==
    /\ phase = "down" /\ Served /\ phase' = "idle"
    /\ UNCHANGED <<site, now, clocks, events, schedules, tokens, occurrences, builds, next, batch, current, draft>>

World ==
    \/ Tick
    \/ \E x \in Datasets, cause \in {"publication", "cache_reuse"} :
        \/ Outside(x, cause)
        \/ \E b \in DOMAIN builds : PublishHead(b, x, cause)
    \/ \E b \in DOMAIN builds : \/ StartBuild(b)
                                \/ \E state \in Here.verdicts : FinishBuild(b, state)
Pass ==
    \/ StartPass \/ (\E o \in DOMAIN occurrences : Reconcile(o)) \/ Reconciled
    \/ SkipSchedule \/ ObserveClock \/ ScanEvents \/ Deliver \/ Evaluate \/ Select \/ EndPass
    \/ \E o \in batch : Prepare(o)
    \/ Accept \/ AwaitWrites \/ Reject \/ Refuse
Command ==
    \E s \in Schedules :
        \/ Pause(s) \/ Resume(s) \/ Run(s) \/ Delete(s)
        \/ \E d \in Here.definitions : Save(s, d)
        \/ \E after \in 0..Len(events) :
            \/ ResumeReplaying(s, after)
            \/ \E d \in Here.definitions : SaveReplaying(s, d, after)
Next == World \/ Pass \/ Command \/ Crash \/ Recover \/ Restart
Spec == Init /\ [][Next]_vars

(***************************************************************************)
(* Properties                                                              *)
(***************************************************************************)
\* Rows and links are well formed: a build names its occurrence and the
\* occurrence names it.
TypeOK ==
    /\ site \in DOMAIN Situation /\ now \in 0..Here.time /\ events \in Seq(Event)
    /\ clocks \in [Schedules -> ClockState]
    /\ schedules \in [Schedules -> ScheduleRow]
    /\ tokens \in [Schedules -> SUBSET (Leaves \X (1..Max({Len(events), Horizon})))]
    /\ occurrences \in Seq(OccurrenceRow) /\ builds \in Seq(BuildRow)
    /\ phase \in {"down", "idle", "reconcile", "scan", "events", "deliver", "evaluate", "select", "dispatch",
                  "accept", "refuse", "failed"}
    /\ next \in Schedules /\ batch \subseteq DOMAIN occurrences
    /\ current \in DOMAIN occurrences \cup {0}

\* Of the active builds of a schedule at most one was accepted under a frozen
\* policy that forbids overlapping, whatever the schedule was saved as since.
NoOverlap ==
    \A s \in Schedules :
        Cardinality({b \in ActiveOf(s) : ~Policy[occurrences[builds[b].occurrence].def].overlapping}) <= 1

\* No automatic build has its own schedule among its causes, at any distance,
\* though the static check sees only the authored targets.
NoSelfAncestry ==
    \A o \in DOMAIN occurrences : Automatic(o) /\ occurrences[o].build # 0 =>
        LET behind == Behind(o, Len(builds)) IN
        \A depth \in DOMAIN behind : \A b \in behind[depth] : ScheduleOf(b) # occurrences[o].schedule

\* Where nothing expires or is paused, an event behind the cursor is a token
\* still, or an occurrence used it or a later one of its leaf.
EventsAnswered ==
    Here.commands = {} =>
        \A s \in Schedules : \A l \in LeavesOf(schedules[s].def), e \in 1..schedules[s].cursor :
            Matched(l, e) /\ Policy[schedules[s].def].window = None =>
                \/ <<l, e>> \in tokens[s]
                \/ \E o \in DOMAIN occurrences :
                    /\ occurrences[o].schedule = s
                    /\ \E t \in occurrences[o].evidence : t[1] = l /\ t[2] >= e

\* The clock by its definition: an instant is intended when its own local
\* minute is, and only the first of a repeated minute unless both are wanted.
Intended ==
    [l \in DOMAIN Crons |->
        LET cron == Crons[l] IN
        {i \in 0..Horizon :
            /\ cron.zone[i] % DayLength \in cron.minute /\ OnDate(cron, DateOf(cron, i))
            /\ cron.both \/ \A j \in 0..(i - 1) : cron.zone[j] # cron.zone[i]}]

\* The intended ticks of some leaves, after one key and up to another.
IntendedWithin(leaves, from, to) ==
    {t \in UNION {Intended[leaves[k]] \X {k} : k \in DOMAIN leaves} : Before(from, t) /\ ~Before(to, t)}
CountedOnce(s) ==
    LET c == clocks[s]
        rows == {r.key : r \in c.rows}
    IN  schedules[s].epoch = 0 =>
            /\ rows \cup c.ignored \cup c.coalesced =
                 IntendedWithin(Clocks[schedules[s].def], <<0, Whole>>, c.cursor)
            /\ Cardinality(rows \cup c.ignored \cup c.coalesced) =
                 Cardinality(c.rows) + Cardinality(c.ignored) + Cardinality(c.coalesced)
IgnoredForCause(s) ==
    LET row == schedules[s] IN
    clocks[s].ignored # {} => Policy[row.def].misfire = "skip" \/ row.paused \/ row.quiet # {}
PreviewedRight(s) ==
    LET leaves == Clocks[schedules[s].def] IN
    \A k \in DOMAIN leaves :
        LET after == {i \in Intended[leaves[k]] : i > now} IN
        Cardinality(after) >= 2 =>
            Preview(Crons[leaves[k]], now, 2) = {i \in after : Cardinality({j \in after : j < i}) < 2}

\* Whatever the coordinator missed while it was down, and however the local
\* clock jumped: exactly the intended instants up to the cursor are accounted
\* for, each once, as a row, ignored or coalesced; nothing is ignored without a
\* pause or the policy skip; and what the editor previews is what will come.
TicksIntended == \A s \in Schedules : CountedOnce(s) /\ IgnoredForCause(s) /\ PreviewedRight(s)

\* Catching up, a delivered tick waits or was used by a request of its own:
\* none is swallowed by a later one, and none used twice.
TicksIndependent ==
    \A s \in Schedules : Policy[schedules[s].def].misfire = "catch_up" /\ ~schedules[s].deleted =>
        \A r \in clocks[s].rows : r.state = "DELIVERED" =>
            LET users == {o \in DOMAIN occurrences :
                    /\ occurrences[o].schedule = s /\ occurrences[o].epoch = schedules[s].epoch
                    /\ TokenOf(s, r.key) \in occurrences[o].evidence}
            IN  Cardinality(users) = (IF TokenOf(s, r.key) \in tokens[s] THEN 0 ELSE 1)

\* A loop that ends leaves no candidate behind that no build stands against.
DisjointNotStarved ==
    phase = "failed" => \A o \in batch : Writes[occurrences[o].def] \cap Reserved # {}
=============================================================================
