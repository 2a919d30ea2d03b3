------------------------------ MODULE Planning ------------------------------
(***************************************************************************)
(* Planning a build and accepting the plan (crates/tf-plan,                *)
(* transflow/build_plan.rs, tf-store/planning.rs, input_resolution.rs and  *)
(* branch_lifecycle.rs).                                                   *)
(*                                                                         *)
(* A plan selects the producers to run, decides which sources to refresh   *)
(* and resolves every other input to an exact version on the first branch  *)
(* of its policy that has a head.  It reads the database one short         *)
(* transaction at a time while the builds the coordinator already runs     *)
(* publish, and is accepted later, or never: whatever it saw it writes     *)
(* down as guards, which acceptance compares again.                        *)
(*                                                                         *)
(* Commands that need the owner of the runtime (planning, acceptance,      *)
(* imports, branch commands) come one after the other; the publications of *)
(* running builds, the clock and a crash come between any two steps.       *)
(***************************************************************************)
EXTENDS Freshness

CONSTANTS
    Plans,         \* plan identities
    Names,         \* branch names
    Branches,      \* branch identities
    Datasets,
    Sites,         \* workspaces: graphs, requests, first heads, and their bounds:
                   \*   names and changes (branch commands), last (clock), versions
    Rules,         \* authored fallbacks of some branches (workspace.toml), empty tails among them
    Defaults,      \* authored fallbacks of the others
    DefaultBranch, \* default_data_branch
    Snapshots,     \* heads and comparisons an explanation is asked about
    Ttl,           \* lifetime of a draft and of its leases
    None

ASSUME PolicyAssumption ==
    /\ DOMAIN Rules \subseteq Names /\ \A n \in DOMAIN Rules : Rules[n] \in Seq(Names)
    /\ Defaults \in Seq(Names) /\ DefaultBranch \in Names
Row == [name : Names, rev : Nat, dead : BOOLEAN]
ASSUME IdentityAssumption == None \notin Plans \cup Names \cup Branches \cup Datasets \cup Row
ASSUME TtlAssumption == Ttl \in Nat \ {0}

VARIABLES
    site,     \* the workspace: order, edges, source policies, requests
    row,      \* data_branches
    head,     \* dataset_heads
    made,     \* dataset_versions in order of publication
    now,      \* the coordinator's clock
    prep,     \* the plan in preparation, in memory
    draft,    \* build_plans
    hand,     \* in memory: the plan an acceptance has checked, or a registry command
    ask,      \* a branch command previewed and not applied yet: the row it saw
    build,    \* builds and the write reservations they hold
    lease     \* read_leases not yet released
store == <<row, head, made, draft, build, lease>>
vars == <<site, now, prep, hand, ask, store>>

Init ==
    /\ site \in Sites
    /\ row = site.row /\ head = site.head /\ made = site.made
    /\ now = 0 /\ prep = None /\ hand = None /\ ask = None
    /\ draft = [p \in Plans |-> None] /\ build = [p \in Plans |-> None]
    /\ lease = {}

Idle == prep = None /\ hand = None     \* no owner's command is under way
Manual == -1     \* a source's policy: Manual, 0 (always) or its time to live

-----------------------------------------------------------------------------
(* Scope: which producers a request runs (tf-plan/scope.rs). *)

Producers == ToSet(site.order)
Sources == DOMAIN site.source
Known == Producers \cup {e.parent : e \in site.edges}
Into(d) == {e \in site.edges : e.consumer = d}
Key(e) == <<e.consumer, e.alias>>

(***************************************************************************)
(* What validation accepts (tf-catalog/validation.rs, candidate.rs): a     *)
(* source reads nothing, an alias is one input, and no dataset feeds       *)
(* itself.  The order takes, again and again, the first producer by        *)
(* identity whose inputs are placed; on a cycle it stops early.            *)
(***************************************************************************)
Declared(s) ==
    /\ DOMAIN s.source \subseteq ToSet(s.order)
    /\ \A e \in s.edges : e.consumer \in ToSet(s.order) \ DOMAIN s.source
    /\ \A e, f \in s.edges : Key(e) = Key(f) => e = f
AcyclicOrder(producers, edges) ==
    LET Place[n \in 0..Len(producers)] ==
            IF n = 0 THEN <<>>
            ELSE LET before == Place[n - 1]
                     placed == ToSet(before)
                     ready == {k \in DOMAIN producers :
                                /\ producers[k] \notin placed
                                /\ \A e \in edges : e.consumer = producers[k] =>
                                       e.parent \notin ToSet(producers) \ placed}
                 IN IF ready = {} THEN before ELSE Append(before, producers[Min(ready)])
    IN Place[Len(producers)]

(* What the tables hold before: rows of distinct names, heads of branches that
   are there, each a version that was published. *)
Stored(s) ==
    /\ s.row \in [Branches -> Row \cup {None}]
    /\ \A i, j \in Branches : s.row[i] # None /\ s.row[j] # None /\ i # j => s.row[i].name # s.row[j].name
    /\ s.made \in Seq([dataset : Datasets, branch : Branches, at : Int])
    /\ s.head \in [Branches \X Datasets -> [version : 0..Len(s.made), gen : Nat]]
    /\ \A i \in Branches, d \in Datasets : s.row[i] = None => s.head[<<i, d>>] = [version |-> 0, gen |-> 0]
Requested(s) ==
    /\ s.order \in Seq(Datasets) /\ \A e \in s.edges : e.parent \in Datasets
    /\ \A d \in DOMAIN s.source : s.source[d] \in Nat \cup {Manual}
    /\ \A r \in s.requests : r.branch \in Names /\ r.fallback \in Seq(Names) \cup {None}

ASSUME SiteAssumption == \A s \in Sites :
    Stored(s) /\ Requested(s) /\ Declared(s) /\ AcyclicOrder(s.order, s.edges) = s.order

(* What a snapshot says of heads and comparisons are values of their types. *)
ASSUME SnapshotAssumption == \A w \in Sites, s \in Snapshots : w.explained =>
    /\ \A d \in ToSet(w.order) \cup {e.parent : e \in w.edges} : s.here[d] \in Heads /\ s.there[d] \in Heads
    /\ \A d \in ToSet(w.order) : LET k == s.work[d] IN {k.retained, k.stated, k.reusable} \subseteq BOOLEAN

OffBranch(r, e) == e.sel \in Names /\ e.sel # r.branch
Pinned(r, e) == Key(e) \in DOMAIN r.pins
Followed(r, e) == ~OffBranch(r, e) /\ ~Pinned(r, e)

Barrier(r, d) ==
    \/ d \in r.boundaries \cup r.exclusions
    \/ d \notin Producers
    \/ d \in Sources /\ site.source[d] = Manual /\ d \notin r.targets \cup r.refresh

Malformed(r) ==
    \/ r.targets = {}
    \/ r.mode = "between" /\ r.boundaries = {}
    \/ ~(r.targets \cup r.refresh \subseteq Producers)
    \/ (r.targets \cup r.refresh) \cap (r.boundaries \cup r.exclusions) # {}
    \/ ~(r.boundaries \cup r.exclusions \subseteq Known)
    \/ ~(r.refresh \subseteq Sources)
    \/ ~(DOMAIN r.pins \subseteq {Key(e) : e \in site.edges})
    \/ \E e \in site.edges : Pinned(r, e) /\ e.parent \in r.targets

(* The ancestors a walk from the targets may enter. *)
Eligible(r) ==
    LET Up[n \in 0..Len(site.order)] ==
            IF n = 0 THEN {t \in r.targets : ~Barrier(r, t)}
            ELSE Up[n - 1] \cup {d \in Producers : ~Barrier(r, d) /\
                    \E e \in site.edges : /\ e.parent = d /\ Followed(r, e)
                                          /\ e.consumer \in Up[n - 1]}
    IN Up[IF r.mode = "selected" THEN 0 ELSE Len(site.order)]

(* One pass over the order: what the walk enters from the start set. *)
Pass(r, start, Enters(_, _)) ==
    LET Reached[n \in 0..Len(site.order)] ==
            IF n = 0 THEN start
            ELSE LET before == Reached[n - 1]
                     d == site.order[n]
                 IN IF d \in Eligible(r) /\ Enters(before, d) THEN before \cup {d} ELSE before
    IN Reached[Len(site.order)]
AtBoundary(r, e) == r.mode = "between" /\ e.parent \in r.boundaries
ForwardUnchecked(r, start) ==
    Pass(r, start, LAMBDA reached, d : \E e \in Into(d) : AtBoundary(r, e) \/ e.parent \in reached)
Forward(r, start) ==
    Pass(r, start, LAMBDA reached, d : \E e \in Into(d) :
            AtBoundary(r, e) \/ (Followed(r, e) /\ e.parent \in reached))

Scope(r) ==
    CASE r.mode = "between" -> Forward(r, {})
      [] r.mode = "connecting" -> Eligible(r) \cap Forward(r, r.targets)
      [] OTHER -> Eligible(r)

Refused(r) ==
    \/ Malformed(r)
    \/ r.mode = "between" /\ ~(r.targets \subseteq Scope(r))
    \/ ~(r.refresh \subseteq Scope(r))
    \/ \E e \in site.edges : /\ Pinned(r, e) /\ ~OffBranch(r, e)
                             /\ {e.consumer, e.parent} \subseteq Scope(r)

(* The inputs of the producers w that bind to results of the same build. *)
PlannedAnyway(r, w, out) == {e \in site.edges : e.consumer \in w /\ Followed(r, e) /\ e.parent \in w \cup out}
Planned(r, w, out) == {e \in site.edges : e.consumer \in w /\ Followed(r, e) /\ e.parent \in w}

-----------------------------------------------------------------------------
(* Branches, heads and what a plan sees of them. *)

RowsNamed(n) == {i \in Branches : row[i] # None /\ row[i].name = n}

(* A guard: the branch row of that name and the head of the dataset on it. *)
Look(n, d) ==
    LET i == CHOOSE x \in RowsNamed(n) : TRUE
        h == IF d = None THEN [version |-> 0, gen |-> 0] ELSE head[<<i, d>>]
    IN IF RowsNamed(n) = {}
       THEN [name |-> n, dataset |-> d, branch |-> None, rev |-> 0, dead |-> FALSE,
             version |-> 0, gen |-> 0]
       ELSE [name |-> n, dataset |-> d, branch |-> i, rev |-> row[i].rev,
             dead |-> row[i].dead, version |-> h.version, gen |-> h.gen]

Readable(n, d) == LET g == Look(n, d) IN g.branch # None /\ ~g.dead /\ g.version # 0

(* Input policy: the starting branch, then its fallbacks, once each. *)
FallbackOf(n) == IF n \in DOMAIN Rules THEN Rules[n] ELSE Defaults
Start(r, e) == IF e.sel \in Names THEN e.sel ELSE r.branch
Candidates(r, e) ==
    LET tail == IF e.sel \notin Names /\ r.fallback # None THEN r.fallback ELSE FallbackOf(Start(r, e))
        Once[n \in 0..Len(tail)] ==
            IF n = 0 THEN <<Start(r, e)>>
            ELSE LET before == Once[n - 1]
                 IN IF tail[n] \in ToSet(before) THEN before ELSE Append(before, tail[n])
    IN IF e.strict THEN <<Start(r, e)>> ELSE Once[Len(tail)]

(* The first candidate with a head; 0 when every one is absent. *)
First(r, e) ==
    LET names == Candidates(r, e)
        found == {k \in DOMAIN names : Readable(names[k], e.parent)}
    IN IF found = {} THEN 0 ELSE CHOOSE k \in found : \A m \in found : k <= m

(* Refresh decision of a source, from its guard (tf-plan/refresh.rs). *)
Executes(r, d, g, at) ==
    \/ d \in r.targets \cup r.refresh
    \/ /\ site.source[d] # Manual
       /\ \/ r.force \/ site.source[d] = 0 \/ g.version = 0
          \/ at - made[g.version].at >= site.source[d]

-----------------------------------------------------------------------------
(* Preparation. *)

(* Sample the clock, select the scope, look at the output branch. *)
Begin(p, r) ==
    /\ Idle /\ draft[p] = None
    /\ ~Refused(r) /\ ~Look(r.branch, None).dead
    /\ prep' = [plan |-> p, request |-> r, at |-> now, output |-> Look(r.branch, None),
                todo |-> Scope(r), writes |-> Scope(r), kept |-> {}, guards |-> {},
                reading |-> FALSE, planned |-> {}, inputs |-> {}, rest |-> <<>>,
                reads |-> {}]
    /\ UNCHANGED <<site, ask, now, hand, store>>

(* Guard the next output of the order; a source that is fresh enough leaves the writes. *)
GuardOutput ==
    /\ prep # None
    /\ \E k \in DOMAIN site.order :
        LET d == site.order[k]
            g == Look(prep.request.branch, d)
            keeps == d \in Sources /\ ~Executes(prep.request, d, g, prep.at)
        IN /\ d \in prep.todo /\ \A m \in 1..k - 1 : site.order[m] \notin prep.todo
           /\ prep' = [prep EXCEPT !.todo = @ \ {d}, !.guards = @ \cup {g},
                                   !.kept = IF keeps THEN @ \cup {d} ELSE @]
    /\ UNCHANGED <<site, ask, now, hand, store>>

(* Fix the writes and list the inputs to resolve. *)
Settle ==
    /\ prep # None /\ prep.todo = {} /\ ~prep.reading
    /\ LET w == prep.writes \ prep.kept
           planned == Planned(prep.request, w, prep.kept)
       IN prep' = [prep EXCEPT !.reading = TRUE, !.writes = w, !.planned = planned,
                    !.inputs = {e \in site.edges : e.consumer \in w} \ planned]
    /\ UNCHANGED <<site, ask, now, hand, store>>

(* The next input in an order of the code's own. *)
Upcoming == CHOOSE e \in prep.inputs : TRUE
Resolving(e) ==
    /\ prep # None /\ prep.reading /\ prep.rest = <<>> /\ prep.inputs # {}
    /\ e = Upcoming

Leased(p, v) == lease' = lease \cup {[plan |-> p, version |-> v, until |-> now + Ttl]}
Read(e, n, v) == [key |-> Key(e), dataset |-> e.parent, branch |-> n, version |-> v]

(* An exact pin: any published version of the input, leased. *)
ResolvePin(e) ==
    /\ Resolving(e) /\ Pinned(prep.request, e)
    /\ LET v == prep.request.pins[Key(e)] IN
        /\ v \in DOMAIN made /\ made[v].dataset = e.parent
        /\ Leased(prep.plan, v)
        /\ prep' = [prep EXCEPT !.inputs = @ \ {e}, !.reads = @ \cup {Read(e, None, v)}]
    /\ UNCHANGED <<site, ask, now, hand, row, head, made, draft, build>>

(* The first existing head, leased in the same transaction; every candidate up
   to it is then guarded. *)
GuardedFrom(k) == 1
ResolveHead(e) ==
    /\ Resolving(e) /\ ~Pinned(prep.request, e)
    /\ LET k == First(prep.request, e)
           names == Candidates(prep.request, e)
           v == Look(names[k], e.parent).version IN
        /\ k # 0
        /\ Leased(prep.plan, v)
        /\ prep' = [prep EXCEPT !.rest = SubSeq(names, GuardedFrom(k), k),
                                !.reads = @ \cup {Read(e, names[k], v)}]
    /\ UNCHANGED <<site, ask, now, hand, row, head, made, draft, build>>

(* Guard the next candidate; the one that was read must not have moved. *)
GuardInput ==
    /\ prep # None /\ prep.rest # <<>>
    /\ LET e == Upcoming
           g == Look(Head(prep.rest), e.parent)
           last == Len(prep.rest) = 1
       IN /\ last => Read(e, g.name, g.version) \in prep.reads
          /\ prep' = [prep EXCEPT !.rest = Tail(@), !.guards = @ \cup {g},
                                  !.inputs = IF last THEN @ \ {e} ELSE @]
    /\ UNCHANGED <<site, ask, now, hand, store>>

(* What planning would decide in one step, in the present state.  A draft keeps
   it (ideal) for the properties; no action reads it. *)
Ideal(r, at) ==
    LET fresh(d) == d \in Sources /\ ~Executes(r, d, Look(r.branch, d), at)
        w == {d \in Scope(r) : ~fresh(d)}
        boundary == {e \in site.edges : e.consumer \in w
                        /\ ~(Followed(r, e) /\ e.parent \in w)}
    IN [writes |-> w,
        reads |-> {<<Key(e), IF Pinned(r, e) THEN r.pins[Key(e)]
                             ELSE IF First(r, e) = 0 THEN 0
                             ELSE Look(Candidates(r, e)[First(r, e)], e.parent).version>> :
                   e \in boundary}]

(* Save the draft.  The check that follows decides what the client is told and
   changes nothing. *)
Save ==
    /\ prep # None /\ prep.reading /\ prep.rest = <<>> /\ prep.inputs = {}
    /\ prep.writes # {}
    /\ draft' = [draft EXCEPT ![prep.plan] =
            [request |-> prep.request, created |-> prep.at, output |-> prep.output,
             guards |-> prep.guards, writes |-> prep.writes, planned |-> prep.planned,
             reads |-> prep.reads, ideal |-> Ideal(prep.request, prep.at)]]
    /\ prep' = None
    /\ UNCHANGED <<site, ask, now, hand, row, head, made, build, lease>>

(* Any failure: an absent head, a moved input, a changed environment.  Leases
   already taken stay until they expire. *)
Abandon == prep # None /\ prep' = None /\ UNCHANGED <<site, ask, now, hand, store>>

-----------------------------------------------------------------------------
(* Acceptance. *)

Holds(b, i, d) == b # None /\ b.state # "ENDED" /\ b.branch = i /\ d \in b.writes
Reserved(i, d) == \E p \in Plans : Holds(build[p], i, d)
SeesVersion(g) == Look(g.name, g.dataset).version = g.version
Sees(g) == Look(g.name, g.dataset) = g

(* check: the draft is in time, every guard holds, every lease is live. *)
Valid(p) ==
    LET d == draft[p] IN
    /\ d # None /\ build[p] = None /\ now < d.created + Ttl
    /\ \A g \in d.guards \cup {d.output} : Sees(g)
    /\ \A r \in d.reads : \E l \in lease : /\ l.plan = p /\ l.version = r.version
                                           /\ l.until > now

(* First check, before the registry, the source and the environment are
   compared again (Registry). *)
Take(p) ==
    /\ Idle /\ Valid(p)
    /\ hand' = p
    /\ UNCHANGED <<site, ask, now, prep, store>>

(* accept_draft: check again, create the output branch, reserve every output,
   keep the leases for the build. *)
Accept(p, i) ==
    /\ hand = p /\ Valid(p)
    /\ LET d == draft[p] IN
        /\ IF d.output.branch # None THEN i = d.output.branch /\ UNCHANGED row
           ELSE /\ row[i] = None
                /\ row' = [row EXCEPT ![i] = [name |-> d.request.branch, rev |-> 0, dead |-> FALSE]]
        /\ ~\E x \in d.writes : Reserved(i, x)
        /\ build' = [build EXCEPT ![p] = [branch |-> i, state |-> "QUEUED", writes |-> d.writes,
                                          done |-> {}]]
    /\ lease' = {IF l.plan = p THEN [l EXCEPT !.until = site.last + 1] ELSE l : l \in lease}
    /\ hand' = None
    /\ UNCHANGED <<site, ask, now, prep, head, made, draft>>

(* Refused, or stopped on the way. *)
Decline == hand # None /\ hand' = None /\ UNCHANGED <<site, ask, now, prep, store>>

-----------------------------------------------------------------------------
(* What else moves heads and branches meanwhile. *)

Publish(i, d) ==
    /\ Len(made) < site.versions
    /\ made' = Append(made, [dataset |-> d, branch |-> i, at |-> now])
    /\ head' = [head EXCEPT ![<<i, d>>] = [version |-> Len(made'), gen |-> @.gen + 1]]

StartBuild(p) ==
    /\ build[p] # None /\ build[p].state = "QUEUED"
    /\ build' = [build EXCEPT ![p].state = "RUNNING"]
    /\ UNCHANGED <<site, ask, now, prep, hand, row, head, made, draft, lease>>

(* A job of a running build publishes, once the results it binds to exist. *)
PublishOutput(p, d) ==
    /\ build[p] # None /\ build[p].state = "RUNNING" /\ d \in build[p].writes \ build[p].done
    /\ \A e \in draft[p].planned : e.consumer = d => e.parent \in build[p].done
    /\ Publish(build[p].branch, d)
    /\ build' = [build EXCEPT ![p].done = @ \cup {d}]
    /\ UNCHANGED <<site, ask, now, prep, hand, row, draft, lease>>

(* The build ends, whatever it has published; reservations and leases go. *)
EndBuild(p) ==
    /\ build[p] # None /\ build[p].state = "RUNNING"
    /\ build' = [build EXCEPT ![p].state = "ENDED"]
    /\ lease' = {l \in lease : l.plan # p}
    /\ UNCHANGED <<site, ask, now, prep, hand, row, head, made, draft>>

(* An import publishes a dataset no producer writes. *)
Import(i, d) ==
    /\ Idle /\ row[i] # None /\ ~row[i].dead /\ d \in Known \ Producers
    /\ Publish(i, d)
    /\ UNCHANGED <<site, ask, now, prep, hand, row, draft, build, lease>>

CreateBranch(i, n) ==
    /\ Idle /\ n \in site.names /\ row[i] = None /\ RowsNamed(n) = {}
    /\ row' = [row EXCEPT ![i] = [name |-> n, rev |-> 0, dead |-> FALSE]]
    /\ UNCHANGED <<site, ask, now, prep, hand, head, made, draft, build, lease>>

(* Who still needs a branch: an active build that writes it or mentions its
   name, a live lease on a version it shows or a build made on it. *)
Mentions(p, n) ==
    \/ n = draft[p].request.branch
    \/ draft[p].request.fallback # None /\ n \in ToSet(draft[p].request.fallback)
    \/ \E e \in site.edges : /\ Key(e) \in {r.key : r \in draft[p].reads}
                             /\ n \in ToSet(Candidates(draft[p].request, e))
LeaseOn(i) == \E l \in lease : /\ l.until > now
    /\ \/ \E d \in Datasets : head[<<i, d>>].version = l.version
       \/ made[l.version].branch = i /\ made[l.version].dataset \in Producers
ReferencedByLease(i) == LeaseOn(i)
Referenced(i) ==
    \/ \E p \in Plans : /\ build[p] # None /\ build[p].state # "ENDED"
                        /\ build[p].branch = i \/ Mentions(p, row[i].name)
    \/ LeaseOn(i)

PolicyImpacts(n) ==
    \/ n = DefaultBranch \/ n \in ToSet(Defaults)
    \/ \E m \in DOMAIN Rules : n = m \/ n \in ToSet(Rules[m])

(* Rename (to # None) or delete: the preview, of which no owner knows ... *)
PreviewBranch(i, to) ==
    /\ ask = None /\ row[i] # None /\ ~row[i].dead /\ row[i].rev < site.changes
    /\ to # None => to \in site.names /\ RowsNamed(to) = {} /\ ~PolicyImpacts(to)
    /\ ~PolicyImpacts(row[i].name) /\ ~Referenced(i)
    /\ ask' = [branch |-> i, seen |-> row[i], to |-> to]
    /\ UNCHANGED <<site, now, prep, hand, store>>
Shown == ask # None /\ ask' = None /\ UNCHANGED <<site, now, prep, hand, store>>

(* ... and the change: the row is still the one that was shown, and unused. *)
ChangeBranch(i) ==
    /\ Idle /\ ask # None /\ ask.branch = i /\ ask' = None
    /\ row[i] = ask.seen /\ ~Referenced(i)
    /\ UNCHANGED <<site, now, prep, hand, head, made, draft, build, lease>>

RenameBranch(i, n) ==
    /\ ChangeBranch(i) /\ ask.to = n /\ RowsNamed(n) = {}
    /\ row' = [row EXCEPT ![i].name = n, ![i].rev = @ + 1]

DeleteBranch(i) ==
    /\ ChangeBranch(i) /\ ask.to = None
    /\ row' = [row EXCEPT ![i].dead = TRUE, ![i].rev = @ + 1]

Tick ==
    /\ now < site.last /\ now' = now + 1
    /\ lease' = {l \in lease : l.until > now'}
    /\ UNCHANGED <<site, ask, prep, hand, row, head, made, draft, build>>

(* The coordinator dies and the next one recovers: memory is lost, running
   builds are interrupted and free what they held, queued ones stay. *)
Restart ==
    /\ prep' = None /\ hand' = None
    /\ build' = [p \in Plans |-> IF build[p] # None /\ build[p].state = "RUNNING"
                                 THEN [build[p] EXCEPT !.state = "ENDED"] ELSE build[p]]
    /\ lease' = {l \in lease : build[l.plan] # None => build'[l.plan].state # "ENDED"}
    /\ UNCHANGED <<site, ask, now, row, head, made, draft>>

(* Everything but the ends of planning and acceptance, which Registry extends. *)
Elsewhere ==
    \/ GuardOutput \/ Settle \/ GuardInput \/ Abandon
    \/ \E e \in site.edges : ResolvePin(e) \/ ResolveHead(e)
    \/ \E p \in Plans : StartBuild(p) \/ EndBuild(p) \/ \E d \in Datasets : PublishOutput(p, d)
    \/ \E i \in Branches : \/ \E d \in Datasets : Import(i, d)
                           \/ \E n \in Names : CreateBranch(i, n) \/ RenameBranch(i, n)
                           \/ \E n \in Names \cup {None} : PreviewBranch(i, n)
                           \/ DeleteBranch(i)
    \/ Shown \/ Tick
Next ==
    \/ \E p \in Plans : \E r \in site.requests : Begin(p, r)
    \/ Save \/ Decline \/ Restart \/ Elsewhere
    \/ \E p \in Plans : Take(p) \/ \E i \in Branches : Accept(p, i)

Spec == Init /\ [][Next]_vars

-----------------------------------------------------------------------------
(* A branch that precedes the one r was read from has a head of the input. *)
Preceded(request, r) == \E e \in site.edges : Key(e) = r.key /\
    LET names == Candidates(request, e)
    IN \E k, m \in DOMAIN names : k < m /\ names[m] = r.branch /\ Readable(names[k], e.parent)

(* A plan is accepted only while the tables still say what it was made from.
   Planned again in the state it is accepted in, but as of the clock sample of its
   preparation, it would have the same writes, and decide all that planning decided
   when the draft was saved: no publication, import or branch change in between
   matters.  Each input is the current head of the branch it was read from and the
   version that planning would choose, unless an earlier branch has a head (which is
   what EarlierHeadDetected is about).  The clock is not asked again: a source that
   is not run may have outlived its time to live, but by less than the lifetime of
   a draft. *)
PlanCurrent == [][\A p \in Plans : build[p] = None /\ build'[p] # None =>
    LET d == draft[p]
        ideal == Ideal(d.request, d.created)
        shown(s) == Look(d.request.branch, s).version
    IN /\ d.writes = ideal.writes /\ d.ideal = ideal
       /\ \A r \in d.reads :
            /\ r.branch # None => Look(r.branch, r.dataset).version = r.version
            /\ <<r.key, r.version>> \in ideal.reads \/ Preceded(d.request, r)
       /\ \A s \in Scope(d.request) \ d.writes : site.source[s] # Manual =>
            now < made[shown(s)].at + site.source[s] + Ttl]_vars

(* "Record every prior missing fallback as well as the selected head, detecting
   earlier-head arrival." (build_plan.rs:653): a plan is not accepted while a
   branch that precedes the one an input was read from has a head. *)
EarlierHeadDetected == [][\A p \in Plans : build[p] = None /\ build'[p] # None =>
    \A e \in site.edges : \A r \in draft[p].reads : r.key = Key(e) /\ r.branch # None =>
        LET names == Candidates(draft[p].request, e) IN
        \A k \in DOMAIN names :
            (\E m \in DOMAIN names : k < m /\ names[m] = r.branch) => ~Readable(names[k], e.parent)]_vars

(* Every input of every job of a saved plan is either the result of an earlier
   job of the plan or exactly one exact version. *)
EveryInputBound == \A p \in Plans : draft[p] # None =>
    LET d == draft[p]
        Place(x) == CHOOSE k \in DOMAIN site.order : site.order[k] = x
    IN \A e \in site.edges : e.consumer \in d.writes =>
        IF e \in d.planned
        THEN /\ e.parent \in d.writes /\ Place(e.parent) < Place(e.consumer)
             /\ \A r \in d.reads : r.key # Key(e)
        ELSE Cardinality({r \in d.reads : r.key = Key(e)}) = 1

(* The scope of a request is what paths in the graph say: the producers on a
   path to a target that crosses no barrier, and, for the two bounded modes,
   that also start at a boundary or at another target.  A path leads from x to
   y when no set with all that its members feed holds x and leaves y out. *)
Open(r) == {d \in Producers : ~Barrier(r, d)}
Feeding(r) == {S \in SUBSET Open(r) : \A e \in site.edges :
                  Followed(r, e) /\ e.parent \in S /\ e.consumer \in Open(r) => e.consumer \in S}
Path(r, x, y) == \A S \in Feeding(r) : x \in S => y \in S
Reference(r) ==
    LET up == {d \in Open(r) : \E t \in r.targets : Path(r, d, t)}
        edge == {d \in up : \E e \in Into(d) : e.parent \in r.boundaries}
    IN CASE r.mode = "selected" -> r.targets
         [] r.mode = "between" -> {d \in up : \E x \in edge : Path(r, x, d)}
         [] r.mode = "connecting" -> {d \in up : \E t \in r.targets : Path(r, t, d)}
         [] OTHER -> up
ScopeByPaths == \A r \in site.probes : ~Malformed(r) => Scope(r) = Reference(r)

(* The same graph for the explanation of what is current. *)
Explained == [order |-> site.order, source |-> site.source,
              edges |-> {[consumer |-> e.consumer, alias |-> e.alias, parent |-> e.parent,
                          strict |-> e.strict, off |-> e.sel # None] : e \in site.edges}]

(* Whatever the graph and the snapshot, a dataset is reported current, stale or
   unknown, and by which causes at which distance, as the paths say. *)
FreshnessByPaths == site.explained => \A s \in Snapshots : ByPaths(Explained, s)

(* While a build is active its output branch keeps its name and its life, and
   the outputs it has yet to publish stand where it planned them. *)
OutputKept == \A p \in Plans : build[p] # None /\ build[p].state # "ENDED" =>
    LET b == build[p] IN
    /\ row[b.branch].name = draft[p].request.branch /\ ~row[b.branch].dead
    /\ \A d \in b.writes \ b.done : \A g \in draft[p].guards :
        g.name = draft[p].request.branch /\ g.dataset = d => head[<<b.branch, d>>].gen = g.gen
=============================================================================
