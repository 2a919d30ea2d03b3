----------------------------- MODULE Retention -----------------------------
(***************************************************************************)
(* Who may still read the bytes of a version, and when garbage collection  *)
(* may remove them: read leases, pins and reachability of retention.rs,    *)
(* the durable deletion intents of gc.rs, the file system steps of         *)
(* gc_files.rs and the collection command that drives them.                *)
(*                                                                         *)
(* Every repository method is one transaction and needs the runtime lock;  *)
(* collection holds the lock from its inventory to its end, so the other   *)
(* actions require that no collection runs.  The lock falls with its       *)
(* process: GcStop may come between any two steps of a collection.  What   *)
(* survives is the database, the disk, and the tickets of readers in other *)
(* processes, which read files while holding a lease and no lock.          *)
(*                                                                         *)
(* Every timed method takes a clock sample, refuses one below the durable  *)
(* floor and raises the floor to it, even if it then refuses the request.  *)
(* So a call is modelled at the floor, and Tick is a call that raised it.  *)
(* Publication times are not checked against the floor.                    *)
(***************************************************************************)
EXTENDS Naturals, Sequences, FiniteSets

CONSTANTS
    Digests,      \* content digests of artifacts
    Targets,      \* outputs: a dataset on a branch
    Keys,         \* computation and check fingerprints of a job
    Versions,     \* planned version identities
    Leases, Pins,
    Latest,       \* RetentionPolicy.latest
    Age,          \* RetentionPolicy.age_us
    Grace,        \* GRACE_US
    Ttl,          \* requested duration of a lease
    MaxTime,      \* bound: clock samples
    Drift,        \* bound: how far a publication time is from the floor
    MaxClaims,    \* bound: deletion intents in a behaviour
    MaxFence,     \* bound: renewals of a lease
    MaxHistory,   \* bound: head changes of a target
    None

ASSUME PolicyAssumption ==
    /\ Latest \in Nat \ {0} /\ Age \in Nat /\ Grace \in Nat /\ Ttl \in Nat \ {0}
ASSUME BoundAssumption ==
    {MaxTime, Drift, MaxClaims, MaxFence, MaxHistory} \subseteq Nat
ASSUME NoneAssumption == None \notin Digests \cup Versions \cup Nat

VARIABLES
    floor,      \* retention_clock.now_us
    version,    \* dataset_versions and version_inputs
    history,    \* head_changes of a target, in order of generation
    work,       \* jobs with a frozen contract, by the version they will publish
    known,      \* artifacts rows
    lease,      \* read_leases
    ticket,     \* the capability a reader holds: fence and expiry it was told
    pin,        \* pins
    item,       \* gc_items of kind artifact
    claim,      \* artifact_gc_claims
    deletions,  \* gc_deletions
    disk,       \* objects installed under their digest
    trash,      \* private directories of deletion intents (possibly half removed)
    gc          \* the collection that runs, if any

catalog == <<version, history, work, known>>
reads == <<lease, ticket, pin>>
intents == <<item, claim, deletions>>
vars == <<floor, catalog, reads, intents, disk, trash, gc>>

ClaimIds == 1..MaxClaims
Time == 0..MaxTime
Stamps == {n \in Time : n + Drift >= floor /\ n <= floor + Drift}
Unseen == [state |-> "NONE", first |-> 0, claim |-> None]
Idle == [step |-> "idle", digest |-> None]

Init ==
    /\ floor = 0
    /\ version = [v \in Versions |-> None] /\ history = [t \in Targets |-> <<>>]
    /\ work = [v \in Versions |-> None] /\ known = {}
    /\ lease = [l \in Leases |-> None] /\ ticket = [l \in Leases |-> None]
    /\ pin = [p \in Pins |-> None]
    /\ item = [d \in Digests |-> Unseen] /\ claim = [d \in Digests |-> None]
    /\ deletions = {} /\ disk = {} /\ trash = {} /\ gc = Idle

----------------------------------------------------------------------------
(* Availability and reachability.                                          *)

Published == {v \in Versions : version[v] # None}
Digest(v) == version[v].digest
Elements(s) == {s[n] : n \in 1..Len(s)}
HeadOf(t) == IF history[t] = <<>> THEN None ELSE history[t][Len(history[t])]

\* The least set of versions that has those of vs and the inputs of its own.
Lineage(vs) == {v \in Published : \A s \in SUBSET Published :
    vs \subseteq s /\ (\A w \in s : version[w].inputs \subseteq s) => v \in s}

Available(d) == d \in known /\ item[d].state # "DELETED" /\ claim[d] = None

VersionAvailable(v) == \A w \in Lineage({v}) :
    item[Digest(w)].state # "DELETED" /\ claim[Digest(w)] = None

\* Mutant: a lease ends one sample before its expiry.
LiveLeaseShort(l) == lease[l] # None /\ ~lease[l].released /\ lease[l].expires > floor + 1
LiveLease(l) == lease[l] # None /\ ~lease[l].released /\ lease[l].expires > floor
LivePin(p) == pin[p] # None /\ pin[p].expires > floor
Prepared == {v \in Versions : work[v] # None /\ work[v].phase \in {"prepared", "lapsed"}}
Running == {v \in Versions : work[v] # None /\ work[v].phase \in {"frozen", "prepared"}}

\* The latest publications of each target.
Window == UNION {{history[t][n] : n \in {m \in 1..Len(history[t]) :
                    m + Latest > Len(history[t])}} : t \in Targets}

\* What every version that must stay is, or is an input of: a recent
\* publication, or one a lease, a pin or a running job names.
Needed == {v \in Published : version[v].at + Age >= floor} \cup Window
    \cup {lease[l].version : l \in {k \in Leases : LiveLease(k) /\ lease[k].version # None}}
    \cup {pin[p].version : p \in {q \in Pins : LivePin(q) /\ pin[q].version # None}}
    \cup UNION {work[v].inputs : v \in Running}

\* The versions that must stay, inputs of inputs included.
Retained == Lineage(Needed)

\* The digests a lease, a pin or a prepared publication names.
Held ==
    {lease[l].digest : l \in {k \in Leases : LiveLease(k)}}
    \cup {pin[p].digest : p \in {q \in Pins : LivePin(q)}}
    \cup {work[v].digest : v \in Prepared}

\* retention::roots: the digests that must stay.
Roots == {Digest(v) : v \in Retained} \cup Held

----------------------------------------------------------------------------
(* Publication, as far as it touches bytes (the rest is module Publication). *)

Quiet == gc.step = "idle"

\* freeze_publication_contract: inputs are fixed while their bytes are there.
Freeze(v, t, k, inputs) ==
    /\ Quiet /\ work[v] = None /\ version[v] = None
    /\ inputs \subseteq Published
    /\ \A u \in inputs : Available(Digest(u)) /\ VersionAvailable(u)
    /\ work' = [work EXCEPT ![v] = [phase |-> "frozen", target |-> t, key |-> k,
                                    inputs |-> inputs, digest |-> None]]
    /\ UNCHANGED <<floor, version, history, known, reads, intents, disk, trash, gc>>

Prepare(v, d) ==
    /\ Quiet /\ v \in Running /\ work[v].phase = "frozen"
    /\ claim[d] = None
    /\ work' = [work EXCEPT ![v].phase = "prepared", ![v].digest = d]
    /\ known' = known \cup {d}
    /\ UNCHANGED <<floor, version, history, reads, intents, disk, trash, gc>>

\* Candidate::install for a journaled intent or an import: by content.
Install(d) ==
    /\ Quiet /\ d \notin disk
    /\ disk' = disk \cup {d}
    /\ UNCHANGED <<floor, catalog, reads, intents, trash, gc>>

\* gc::restored: an expired digest that is published again is new.
Larger(a, b) == IF a > b THEN a ELSE b
DeletedAt(d) == CHOOSE n \in Time : \E r \in deletions :
    r.id = item[d].claim /\ r.at = n

\* Mutant: the publication of an expired digest leaves it expired.
RestoredNever(d, at) == UNCHANGED item
Restored(d, at) ==
    IF item[d].state = "DELETED"
    THEN item' = [item EXCEPT ![d] = [state |-> "OBSERVED", claim |-> None,
            first |-> Larger(Larger(item[d].first, DeletedAt(d)), at)]]
    ELSE UNCHANGED item

\* The version row and the new head.
Publish(v, t, k, d, inputs, at, imported) ==
    /\ Len(history[t]) < MaxHistory
    /\ claim[d] = None /\ d \in disk
    /\ version' = [version EXCEPT ![v] = [target |-> t, key |-> k, digest |-> d,
                        inputs |-> inputs, at |-> at, imported |-> imported]]
    /\ history' = [history EXCEPT ![t] = Append(@, v)]
    /\ Restored(d, at)
    /\ UNCHANGED <<floor, reads, claim, deletions, disk, trash, gc>>

Commit(v, at) ==
    LET w == work[v] IN
    /\ Quiet /\ v \in Running /\ w.phase = "prepared"
    /\ Publish(v, w.target, w.key, w.digest, w.inputs, at, FALSE)
    /\ work' = [work EXCEPT ![v].phase = "over"] /\ UNCHANGED known

CommitImport(v, t, d, at) ==
    /\ Quiet /\ work[v] = None /\ version[v] = None
    /\ Publish(v, t, None, d, {}, at, TRUE)
    /\ known' = known \cup {d} /\ UNCHANGED work

\* The build of a job ends without a publication.  Only the next owner's
\* recovery abandons a prepared intent.
EndWork(v) ==
    /\ Quiet /\ v \in Running
    /\ work' = [work EXCEPT ![v].phase = IF @ = "frozen" THEN "over" ELSE "lapsed"]
    /\ UNCHANGED <<floor, version, history, known, reads, intents, disk, trash, gc>>

\* recover_publications at a start: running builds and intents are over.
Recover ==
    /\ Quiet /\ Running \cup Prepared # {}
    /\ work' = [v \in Versions |-> IF v \in Running \cup Prepared
                                   THEN [work[v] EXCEPT !.phase = "over"] ELSE work[v]]
    /\ UNCHANGED <<floor, version, history, known, reads, intents, disk, trash, gc>>

----------------------------------------------------------------------------
(* Leases, pins and cache lookup.                                          *)

Tick ==
    /\ Quiet /\ floor < MaxTime /\ floor' = floor + 1
    /\ UNCHANGED <<catalog, reads, intents, disk, trash, gc>>

\* lease_in_transaction; identities are never used twice.
Grant(l, v, d) ==
    /\ lease[l] = None
    /\ lease' = [lease EXCEPT ![l] = [version |-> v, digest |-> d,
            expires |-> floor + Ttl, fence |-> 0, released |-> FALSE]]
    /\ ticket' = [ticket EXCEPT ![l] = [fence |-> 0, expires |-> floor + Ttl]]
    /\ UNCHANGED <<floor, catalog, pin, intents, disk, trash, gc>>

\* resolve of a head or of an exact version.
AcquireVersion(l, v) ==
    /\ Quiet /\ v \in Published
    /\ Available(Digest(v)) /\ VersionAvailable(v)
    /\ Grant(l, v, Digest(v))

AcquireArtifact(l, d) == Quiet /\ Available(d) /\ Grant(l, None, d)

Renewable(l) == lease[l] # None /\ ~lease[l].released /\ lease[l].expires > floor

\* The reply may be lost: the holder then keeps the stale ticket.
Renew(l, delivered) ==
    /\ Quiet /\ ticket[l] # None /\ Renewable(l)
    /\ ticket[l].fence = lease[l].fence /\ lease[l].fence < MaxFence
    /\ LET e == Larger(lease[l].expires, floor + Ttl) IN
        /\ lease' = [lease EXCEPT ![l].fence = @ + 1, ![l].expires = e]
        /\ ticket' = IF delivered
                     THEN [ticket EXCEPT ![l] = [fence |-> @.fence + 1, expires |-> e]]
                     ELSE ticket
    /\ UNCHANGED <<floor, catalog, pin, intents, disk, trash, gc>>

Release(l) ==
    /\ Quiet /\ ticket[l] # None /\ ~lease[l].released
    /\ ticket[l].fence = lease[l].fence
    /\ lease' = [lease EXCEPT ![l].released = TRUE]
    /\ ticket' = [ticket EXCEPT ![l] = None]
    /\ UNCHANGED <<floor, catalog, pin, intents, disk, trash, gc>>

\* pin_retained of a version or an artifact, with a deadline.
SetPin(p, v, d, until) ==
    /\ Quiet /\ pin[p] = None /\ until > floor
    /\ \/ v \in Published /\ d = Digest(v) /\ Available(d) /\ VersionAvailable(v)
       \/ v = None /\ Available(d)
    /\ pin' = [pin EXCEPT ![p] = [version |-> v, digest |-> d, expires |-> until]]
    /\ UNCHANGED <<floor, catalog, lease, ticket, intents, disk, trash, gc>>

Unpin(p) ==
    /\ Quiet /\ pin[p] # None
    /\ pin' = [pin EXCEPT ![p] = None]
    /\ UNCHANGED <<floor, catalog, lease, ticket, intents, disk, trash, gc>>

\* The match lookup_cache selects: same output and fingerprints, not under
\* collection; the current head first, then the newest publication.
Matches(t, k) == {v \in Published :
    /\ version[v].target = t /\ version[v].key = k /\ ~version[v].imported
    /\ claim[Digest(v)] = None}
Selected(t, k) ==
    IF HeadOf(t) \in Matches(t, k) THEN {HeadOf(t)}
    ELSE {v \in Matches(t, k) : \A w \in Matches(t, k) : version[w].at <= version[v].at}

\* A selected match without its bytes is an error and changes nothing.
Lookup(l, t, k) == Quiet /\ \E v \in Selected(t, k) :
    /\ Available(Digest(v)) /\ VersionAvailable(v)
    /\ Grant(l, v, Digest(v))

\* adopt_cache after the bytes of the leased match were verified.
Adopt(l) ==
    LET v == lease[l].version IN
    /\ Quiet /\ ticket[l] # None /\ LiveLease(l) /\ ticket[l].fence = lease[l].fence
    /\ v # None /\ ~version[v].imported
    /\ Available(Digest(v)) /\ VersionAvailable(v) /\ Digest(v) \in disk
    /\ HeadOf(version[v].target) # v /\ Len(history[version[v].target]) < MaxHistory
    /\ history' = [history EXCEPT ![version[v].target] = Append(@, v)]
    /\ UNCHANGED <<floor, version, work, known, reads, intents, disk, trash, gc>>

----------------------------------------------------------------------------
(* Collection: transflow gc --apply.                                       *)

Claimed == {d \in Digests : item[d].state = "CLAIMED"}

\* The inventory is refused when a claimed object is reachable again.
GcStart ==
    /\ Quiet /\ Claimed \cap Roots = {}
    /\ gc' = [gc EXCEPT !.step = "open"]
    /\ UNCHANGED <<floor, catalog, reads, intents, disk, trash>>

\* End of the command, its failure, or the death of its process.
GcStop ==
    /\ ~Quiet /\ gc' = Idle
    /\ UNCHANGED <<floor, catalog, reads, intents, disk, trash>>

Publishes(d) == \E v \in Published : Digest(v) = d
Aged(d) == item[d].state # "NONE" /\ item[d].first + Grace <= floor

\* items: the bytes found under objects, classified by what the inventory says
\* of them.  Bytes nobody knows, or that reappeared, are to be observed.
Observable(d) ==
    /\ d \in disk \ Roots /\ d \notin Claimed
    /\ \/ item[d].state = "DELETED" \/ d \notin known
       \/ ~Aged(d) /\ (~Publishes(d) \/ item[d].state # "NONE")
\* observe_orphan: verified bytes become known and start their grace period.
GcObserve(d) ==
    /\ gc.step = "open" /\ Observable(d)
    /\ known' = known \cup {d}
    /\ item' = IF item[d].state \in {"NONE", "DELETED"}
               THEN [item EXCEPT ![d] = [state |-> "OBSERVED", first |-> floor,
                                         claim |-> None]]
               ELSE item
    /\ UNCHANGED <<floor, version, history, work, reads, claim, deletions, disk,
                   trash, gc>>

UsedIds == {r.id : r \in deletions} \cup {item[d].claim : d \in Claimed}

Collectible(d) ==
    /\ Available(d) /\ d \notin Roots
    /\ Publishes(d) \/ Aged(d)
    /\ item[d].state # "NONE" => Aged(d)

\* begin_gc: roots and grace are checked again with the durable intent.
GcBegin(d) ==
    /\ gc.step = "open" /\ d \in disk /\ d \notin Claimed /\ Collectible(d)
    /\ \E c \in ClaimIds \ UsedIds :
        /\ claim' = [claim EXCEPT ![d] = c]
        /\ item' = [item EXCEPT ![d] = [state |-> "CLAIMED", claim |-> c,
                    first |-> IF @.state = "NONE" THEN floor ELSE @.first]]
    /\ gc' = [step |-> "claimed", digest |-> d]
    /\ UNCHANGED <<floor, catalog, reads, deletions, disk, trash>>

\* The intent of an interrupted collection is resumed.
GcResume(d) ==
    /\ gc.step = "open" /\ d \in Claimed
    /\ gc' = [step |-> "claimed", digest |-> d]
    /\ UNCHANGED <<floor, catalog, reads, intents, disk, trash>>

\* Directory::remove up to the durable rename; missing bytes are already gone.
GcRetire ==
    LET d == gc.digest c == item[gc.digest].claim IN
    /\ gc.step = "claimed"
    /\ IF c \in trash \/ d \notin disk THEN UNCHANGED <<disk, trash>>
       ELSE disk' = disk \ {d} /\ trash' = trash \cup {c}
    /\ gc' = [gc EXCEPT !.step = IF c \in trash \/ d \in disk THEN "renamed" ELSE "removed"]
    /\ UNCHANGED <<floor, catalog, reads, intents>>

GcPurge ==
    /\ gc.step = "renamed"
    /\ trash' = trash \ {item[gc.digest].claim}
    /\ gc' = [gc EXCEPT !.step = "removed"]
    /\ UNCHANGED <<floor, catalog, reads, intents, disk>>

\* Mutant: the completion is recorded before the bytes are gone.
RemovedOrNot == gc.step \in {"claimed", "renamed", "removed"}
Removed == gc.step = "removed"

GcFinish ==
    LET d == gc.digest IN
    /\ Removed
    /\ item[d].state = "CLAIMED" /\ claim[d] = item[d].claim
    /\ item' = [item EXCEPT ![d].state = "DELETED"]
    /\ claim' = [claim EXCEPT ![d] = None]
    /\ deletions' = deletions \cup {[id |-> item[d].claim, digest |-> d, at |-> floor]}
    /\ gc' = [step |-> "open", digest |-> None]
    /\ UNCHANGED <<floor, catalog, reads, disk, trash>>

----------------------------------------------------------------------------
Publishing ==
    \/ \E v \in Versions, t \in Targets, k \in Keys, i \in SUBSET Published :
        Freeze(v, t, k, i)
    \/ \E v \in Versions, d \in Digests : Prepare(v, d)
    \/ \E d \in Digests : Install(d)
    \/ \E v \in Versions, at \in Stamps : Commit(v, at)
    \/ \E v \in Versions, t \in Targets, d \in Digests, at \in Stamps :
        CommitImport(v, t, d, at)
    \/ \E v \in Versions : EndWork(v)
    \/ Recover

Reading ==
    \/ Tick
    \/ \E l \in Leases, v \in Versions : AcquireVersion(l, v)
    \/ \E l \in Leases, d \in Digests : AcquireArtifact(l, d)
    \/ \E l \in Leases, delivered \in BOOLEAN : Renew(l, delivered)
    \/ \E l \in Leases : Release(l) \/ Adopt(l)
    \/ \E l \in Leases, t \in Targets, k \in Keys : Lookup(l, t, k)
    \/ \E p \in Pins, v \in Versions \cup {None}, d \in Digests, until \in Time :
        SetPin(p, v, d, until)
    \/ \E p \in Pins : Unpin(p)

Collecting ==
    \/ GcStart \/ GcStop \/ GcRetire \/ GcPurge \/ GcFinish
    \/ \E d \in Digests : GcObserve(d) \/ GcBegin(d) \/ GcResume(d)

Next == Publishing \/ Reading \/ Collecting

Spec == Init /\ [][Next]_vars

----------------------------------------------------------------------------
(* Properties.                                                             *)

VersionRow == [target : Targets, key : Keys \cup {None}, digest : Digests,
               inputs : SUBSET Versions, at : Time, imported : BOOLEAN]
WorkRow == [phase : {"frozen", "prepared", "lapsed", "over"}, target : Targets,
            key : Keys, inputs : SUBSET Versions, digest : Digests \cup {None}]
LeaseRow == [version : Versions \cup {None}, digest : Digests, expires : Nat,
             fence : 0..MaxFence, released : BOOLEAN]
TicketRow == [fence : 0..MaxFence, expires : Nat]
PinRow == [version : Versions \cup {None}, digest : Digests, expires : Time]
ItemRow == [state : {"NONE", "OBSERVED", "CLAIMED", "DELETED"}, first : Time,
            claim : ClaimIds \cup {None}]
DeletionRow == [id : ClaimIds, digest : Digests, at : Time]
Collector == [step : {"idle", "open", "claimed", "renamed", "removed"},
              digest : Digests \cup {None}]

\* An absent row is no row.
ASSUME RowAssumption ==
    None \notin VersionRow /\ None \notin WorkRow /\ None \notin LeaseRow
    /\ None \notin TicketRow /\ None \notin PinRow

\* Every row has its type, and the collector's step its object.
TypeOK ==
    /\ floor \in Time
    /\ version \in [Versions -> VersionRow \cup {None}]
    /\ history \in [Targets -> Seq(Versions)]
    /\ \A t \in Targets : Elements(history[t]) \subseteq Published
    /\ work \in [Versions -> WorkRow \cup {None}]
    /\ known \subseteq Digests
    /\ lease \in [Leases -> LeaseRow \cup {None}]
    /\ ticket \in [Leases -> TicketRow \cup {None}]
    /\ pin \in [Pins -> PinRow \cup {None}]
    /\ item \in [Digests -> ItemRow]
    /\ claim \in [Digests -> ClaimIds \cup {None}]
    /\ deletions \subseteq DeletionRow
    /\ disk \subseteq Digests /\ trash \subseteq ClaimIds
    /\ gc \in Collector
    /\ gc.step \in {"claimed", "renamed", "removed"} => gc.digest \in Claimed

\* No reachable object is under collection or expired, and the bytes of every
\* retained version, inputs of inputs included, are on disk, whatever collection
\* was interrupted and whatever was published, adopted or leased in between.
RootsKept ==
    /\ \A d \in Roots : claim[d] = None
    /\ \A v \in Retained : Digest(v) \in disk /\ item[Digest(v)].state # "DELETED"

\* A reader who was told of an expiry the clock has not reached finds the bytes
\* of the version it leased and of its inputs, even if a later renewal's
\* answer was lost.
ReaderProtected == \A l \in Leases :
    ticket[l] # None /\ ticket[l].expires > floor /\ lease[l].version # None =>
        \A v \in Lineage({lease[l].version}) : Digest(v) \in disk

\* The deletion intent is exact at every crash point: a claim row is the claim of
\* a CLAIMED item, a private directory belongs to a claim that still stands, and
\* an item is DELETED only with the evidence of its own claim.
IntentExact ==
    /\ \A d \in Digests :
        /\ claim[d] # None <=> item[d].state = "CLAIMED"
        /\ claim[d] # None => claim[d] = item[d].claim
        /\ item[d].state = "DELETED" =>
            \E r \in deletions : r.id = item[d].claim /\ r.digest = d
    /\ \A c \in trash : \E d \in Digests : claim[d] = c
    /\ \A q, r \in deletions : q.id = r.id => q = r
    /\ \A d, e \in Digests : claim[d] # None /\ claim[d] = claim[e] => d = e

============================================================================
