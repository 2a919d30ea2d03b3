-------------------------- MODULE RetentionProofs --------------------------
(* Proofs about Retention for every set of versions, digests, leases and    *)
(* pins, every policy and grace, and any number of interrupted collections. *)
EXTENDS Retention, SequenceTheorems, TLAPS

----------------------------------------------------------------------------
(* The inductive invariant.                                                 *)

\* What a row names exists, and what will be published does not exist yet.
Closed ==
    /\ \A v \in Published : version[v].inputs \subseteq Published
    /\ \A v \in Versions : work[v] # None => work[v].inputs \subseteq Published
    /\ \A l \in Leases : lease[l] # None /\ lease[l].version # None =>
        lease[l].version \in Published
    /\ \A p \in Pins : pin[p] # None /\ pin[p].version # None =>
        pin[p].version \in Published
    /\ \A v \in Running : version[v] = None
    /\ \A v \in Prepared : work[v].digest \in Digests

\* The intents, with what keeps them exact: the identity of a claim is never
\* that of a completed deletion, and when the bytes are said to be removed the
\* private directory is gone.
Intents ==
    /\ IntentExact
    /\ \A d \in Digests : claim[d] # None => \A r \in deletions : r.id # claim[d]
    /\ gc.step = "removed" => claim[gc.digest] \notin trash

\* A published digest lacks its bytes only under a claim or after its deletion.
BytesThere == \A v \in Published :
    item[Digest(v)].state # "DELETED" /\ claim[Digest(v)] = None => Digest(v) \in disk

\* A holder is never told of more than its lease has.
Told == \A l \in Leases : ticket[l] # None =>
    /\ lease[l] # None /\ ~lease[l].released
    /\ ticket[l].expires <= lease[l].expires

DInv == TypeOK /\ Closed /\ Intents
IInv == DInv /\ BytesThere /\ RootsKept /\ Told

----------------------------------------------------------------------------
(* Reachability: a lineage is the least set closed under inputs.            *)

LEMMA LineageLeast ==
    ASSUME NEW vs, NEW s \in SUBSET Published, vs \subseteq s,
           \A w \in s : version[w].inputs \subseteq s
    PROVE  Lineage(vs) \subseteq s
BY DEF Lineage

LEMMA LineageBase ==
    ASSUME NEW vs
    PROVE  Lineage(vs) \subseteq Published /\ vs \cap Published \subseteq Lineage(vs)
BY DEF Lineage

LEMMA LineageClosed ==
    ASSUME Closed, NEW vs, NEW w \in Lineage(vs)
    PROVE  version[w].inputs \subseteq Lineage(vs)
<1>1. w \in Published
  BY DEF Lineage
<1>2. version[w].inputs \subseteq Published
  BY <1>1 DEF Closed
<1>3. ASSUME NEW s \in SUBSET Published, vs \subseteq s,
             \A x \in s : version[x].inputs \subseteq s
      PROVE  version[w].inputs \subseteq s
  BY <1>3 DEF Lineage
<1> QED BY <1>2, <1>3 DEF Lineage

LEMMA LineageMonotone ==
    ASSUME NEW vs, NEW us, vs \subseteq us
    PROVE  Lineage(vs) \subseteq Lineage(us)
BY DEF Lineage

\* Whatever set holds what is needed after a step, and the inputs of its own,
\* holds all that is retained after the step.
LEMMA RetainedLeast ==
    ASSUME NEW s \in SUBSET Published', Needed' \subseteq s,
           \A w \in s : version'[w].inputs \subseteq s
    PROVE  Retained' \subseteq s
BY DEF Retained, Lineage

\* What is needed exists.
LEMMA NeededPublished ==
    ASSUME TypeOK, Closed
    PROVE  Needed \subseteq Published
<1>1. Window \subseteq Published
  BY DEF Window, Elements, TypeOK
<1>2. \A v \in Running : work[v].inputs \subseteq Published
  BY DEF Running, Closed
<1> QED BY <1>1, <1>2 DEF Needed, Closed, LiveLease, LivePin

----------------------------------------------------------------------------
(* Rows.                                                                    *)

LEMMA Writable ==
    /\ \A x, y \in Time : Larger(x, y) \in Time
    /\ Time \subseteq Nat /\ 0 \in Time
    /\ None \notin Versions /\ None \notin Digests /\ None \notin ClaimIds
    /\ Ttl \in Nat /\ \A x \in Nat : x + Ttl \in Nat
    /\ \A x, y \in Nat : Larger(x, y) \in Nat /\ x <= Larger(x, y) /\ y <= Larger(x, y)
<1>1. MaxTime \in Nat /\ MaxClaims \in Nat
  BY BoundAssumption
<1> QED BY <1>1, PolicyAssumption, NoneAssumption DEF Time, ClaimIds, Larger

\* A new version.
LEMMA VersionWritten ==
    ASSUME TypeOK, NEW v \in Versions, NEW r \in VersionRow, version' = [version EXCEPT ![v] = r]
    PROVE  /\ version' \in [Versions -> VersionRow \cup {None}]
           /\ version'[v] = r /\ version'[v] # None
           /\ \A w \in Versions : w # v => version'[w] = version[w]
           /\ Published' = Published \cup {v}
BY RowAssumption DEF TypeOK, Published

\* A new head.
LEMMA HistoryWritten ==
    ASSUME TypeOK, NEW t \in Targets, NEW v \in Versions,
           history' = [history EXCEPT ![t] = Append(@, v)]
    PROVE  /\ history' \in [Targets -> Seq(Versions)]
           /\ \A u \in Targets : Elements(history[u])' \subseteq Elements(history[u]) \cup {v}
           /\ Window' \subseteq Window \cup {v}
<1>1. history[t] \in Seq(Versions) /\ Len(history[t]) \in Nat
  BY DEF TypeOK
<1>2. history'[t] = Append(history[t], v) /\ \A u \in Targets : u # t => history'[u] = history[u]
  BY DEF TypeOK
<1>3. /\ Append(history[t], v) \in Seq(Versions)
      /\ Len(Append(history[t], v)) = Len(history[t]) + 1
      /\ \A n \in 1..Len(history[t]) : Append(history[t], v)[n] = history[t][n]
      /\ Append(history[t], v)[Len(history[t]) + 1] = v
  BY <1>1, AppendProperties
<1>4. history' \in [Targets -> Seq(Versions)]
  BY <1>3 DEF TypeOK
<1>5. ASSUME NEW u \in Targets, NEW n \in 1..Len(history'[u])
      PROVE  \/ u = t /\ history'[u][n] = v
             \/ /\ n \in 1..Len(history[u]) /\ history'[u][n] = history[u][n]
                /\ n + Latest > Len(history'[u]) => n + Latest > Len(history[u])
  <2>1. CASE u # t
    BY <1>2, <2>1
  <2>2. CASE u = t /\ n = Len(history[t]) + 1
    BY <1>2, <1>3, <2>2
  <2>3. CASE u = t /\ n # Len(history[t]) + 1
    <3>1. n \in 1..Len(history[t])
      BY <1>1, <1>2, <1>3, <2>3
    <3> QED BY <1>1, <1>2, <1>3, <2>3, <3>1, PolicyAssumption
  <2> QED BY <2>1, <2>2, <2>3
<1>6. \A u \in Targets : Elements(history[u])' \subseteq Elements(history[u]) \cup {v}
  BY <1>5 DEF Elements
<1>7. Window' \subseteq Window \cup {v}
  BY <1>5 DEF Window
<1> QED BY <1>4, <1>6, <1>7

\* An expired digest that is published again is new.
LEMMA ItemRestored ==
    ASSUME TypeOK, Intents, NEW d \in Digests, NEW at \in Time, Restored(d, at), claim[d] = None
    PROVE  /\ item' \in [Digests -> ItemRow]
           /\ item'[d].state \notin {"CLAIMED", "DELETED"}
           /\ \A e \in Digests : e # d => item'[e] = item[e]
<1>1. item[d] \in ItemRow /\ item[d].state # "CLAIMED"
  BY DEF TypeOK, Intents, IntentExact
<1>2. CASE item[d].state # "DELETED"
  BY <1>1, <1>2 DEF Restored, TypeOK
<1>3. CASE item[d].state = "DELETED"
  <2>1. PICK r \in deletions : r.id = item[d].claim /\ r.digest = d
    BY <1>3 DEF Intents, IntentExact
  <2>2. r.at \in Time
    BY DEF TypeOK, DeletionRow
  <2>3. DeletedAt(d) \in Time
    BY <2>1, <2>2 DEF DeletedAt
  <2>4. item[d].first \in Time
    BY <1>1 DEF ItemRow
  <2> DEFINE r0 == [state |-> "OBSERVED", claim |-> None,
                    first |-> Larger(Larger(item[d].first, DeletedAt(d)), at)]
  <2>5. Larger(Larger(item[d].first, DeletedAt(d)), at) \in Time
    BY <2>3, <2>4, Writable
  <2>6. r0 \in ItemRow /\ r0.state = "OBSERVED"
    BY <2>5 DEF ItemRow
  <2>7. item' = [item EXCEPT ![d] = r0]
    BY <1>3 DEF Restored
  <2> HIDE DEF r0
  <2> QED BY <2>6, <2>7 DEF TypeOK
<1> QED BY <1>2, <1>3

----------------------------------------------------------------------------
(* Types and intents: publication.                                          *)

\* Steps that write the row of one job.
LEMMA WorkWritten ==
    ASSUME DInv, NEW v \in Versions, NEW r \in WorkRow, work' = [work EXCEPT ![v] = r],
           r.inputs \subseteq Published,
           r.phase \in {"frozen", "prepared"} => version[v] = None,
           r.phase \in {"prepared", "lapsed"} => r.digest \in Digests,
           known' \subseteq Digests,
           UNCHANGED <<floor, version, history, reads, intents, disk, trash, gc>>
    PROVE  DInv'
<1>1. /\ work' \in [Versions -> WorkRow \cup {None}] /\ work'[v] = r /\ r # None
      /\ \A w \in Versions : w # v => work'[w] = work[w]
  BY RowAssumption DEF DInv, TypeOK
<1>2. Published' = Published
  BY DEF Published
<1>3. \A w \in Versions : work'[w] # None => work'[w].inputs \subseteq Published
  BY <1>1 DEF DInv, Closed
<1>4. \A w \in Running' : version[w] = None
  BY <1>1 DEF DInv, Closed, Running
<1>5. \A w \in Prepared' : work'[w].digest \in Digests
  BY <1>1 DEF DInv, Closed, Prepared
<1>6. Closed'
  BY <1>2, <1>3, <1>4, <1>5 DEF DInv, Closed, reads
<1>7. TypeOK'
  BY <1>1, <1>2 DEF DInv, TypeOK, reads, intents, Claimed, Elements
<1>8. Intents'
  BY DEF DInv, Intents, IntentExact, intents
<1> QED BY <1>6, <1>7, <1>8 DEF DInv

LEMMA FreezeTyped ==
    ASSUME DInv, NEW v \in Versions, NEW t \in Targets, NEW k \in Keys,
           NEW i \in SUBSET Published, Freeze(v, t, k, i)
    PROVE  DInv'
<1> DEFINE r == [phase |-> "frozen", target |-> t, key |-> k, inputs |-> i, digest |-> None]
<1>1. r \in WorkRow /\ r.inputs = i /\ r.phase = "frozen"
  BY DEF WorkRow, Published
<1>2. work' = [work EXCEPT ![v] = r]
  BY DEF Freeze
<1> HIDE DEF r
<1> QED BY <1>1, <1>2, WorkWritten DEF Freeze, DInv, TypeOK

LEMMA PrepareTyped ==
    ASSUME DInv, NEW v \in Versions, NEW d \in Digests, Prepare(v, d)
    PROVE  DInv'
<1> DEFINE r == [work[v] EXCEPT !.phase = "prepared", !.digest = d]
<1>1. work[v] \in WorkRow /\ work[v] # None /\ v \in Running
  BY DEF Prepare, Running, DInv, TypeOK
<1>2. r \in WorkRow /\ r.inputs = work[v].inputs /\ r.phase = "prepared" /\ r.digest = d
  BY <1>1 DEF WorkRow
<1>3. work' = [work EXCEPT ![v] = r]
  BY DEF Prepare
<1> HIDE DEF r
<1>4. version[v] = None /\ work[v].inputs \subseteq Published
  BY <1>1 DEF DInv, Closed
<1>5. known' \subseteq Digests
  BY DEF Prepare, DInv, TypeOK
<1> QED BY <1>2, <1>3, <1>4, <1>5, WorkWritten DEF Prepare

LEMMA EndWorkTyped ==
    ASSUME DInv, NEW v \in Versions, EndWork(v)
    PROVE  DInv'
<1> DEFINE r == [work[v] EXCEPT !.phase = IF work[v].phase = "frozen" THEN "over" ELSE "lapsed"]
<1>1. work[v] \in WorkRow /\ work[v] # None /\ v \in Running
  BY DEF EndWork, Running, DInv, TypeOK
<1>2. r \in WorkRow /\ r.inputs = work[v].inputs /\ r.digest = work[v].digest
      /\ r.phase \in {"over", "lapsed"} /\ (r.phase = "lapsed" => work[v].phase = "prepared")
  BY <1>1 DEF WorkRow, Running
<1>3. work' = [work EXCEPT ![v] = r]
  BY DEF EndWork
<1> HIDE DEF r
<1>4. work[v].inputs \subseteq Published /\ (r.phase = "lapsed" => work[v].digest \in Digests)
  BY <1>1, <1>2 DEF DInv, Closed, Prepared
<1>5. known' \subseteq Digests
  BY DEF EndWork, DInv, TypeOK
<1> QED BY <1>2, <1>3, <1>4, <1>5, WorkWritten DEF EndWork

\* What recovery leaves of the rows.
LEMMA RecoverRows ==
    ASSUME DInv, Recover
    PROVE  /\ work' \in [Versions -> WorkRow \cup {None}]
           /\ \A v \in Versions : work'[v] # None =>
                work[v] # None /\ work'[v].inputs = work[v].inputs
           /\ Running' = {} /\ Prepared' = {}
<1>1. work' = [v \in Versions |-> IF v \in Running \cup Prepared
                                  THEN [work[v] EXCEPT !.phase = "over"] ELSE work[v]]
  BY DEF Recover
<1>2. ASSUME NEW v \in Versions
      PROVE  /\ work'[v] \in WorkRow \cup {None}
             /\ work'[v] # None => work[v] # None /\ work'[v].inputs = work[v].inputs
             /\ work'[v] # None => work'[v].phase = "over"
  <2>1. CASE v \in Running \cup Prepared
    <3> DEFINE r == [work[v] EXCEPT !.phase = "over"]
    <3>1. work[v] \in WorkRow /\ work[v] # None
      BY <2>1 DEF Running, Prepared, DInv, TypeOK
    <3>2. r \in WorkRow /\ r.inputs = work[v].inputs /\ r.phase = "over"
      BY <3>1 DEF WorkRow
    <3>3. work'[v] = r
      BY <1>1, <2>1
    <3> HIDE DEF r
    <3> QED BY <3>1, <3>2, <3>3
  <2>2. CASE v \notin Running \cup Prepared
    <3>1. work'[v] = work[v]
      BY <1>1, <2>2
    <3>2. work[v] # None => work[v].phase = "over"
      BY <2>2 DEF Running, Prepared, DInv, TypeOK, WorkRow
    <3> QED BY <3>1, <3>2 DEF DInv, TypeOK
  <2> QED BY <2>1, <2>2
<1>3. work' \in [Versions -> WorkRow \cup {None}]
  BY <1>1, <1>2
<1>4. Running' = {} /\ Prepared' = {}
  BY <1>2 DEF Running, Prepared
<1> QED BY <1>2, <1>3, <1>4

LEMMA RecoverTyped ==
    ASSUME DInv, Recover
    PROVE  DInv'
<1>1. UNCHANGED <<floor, version, history, known, reads, intents, disk, trash, gc>>
  BY DEF Recover
<1>2. Published' = Published
  BY <1>1 DEF Published
<1>3. Closed'
  BY <1>1, <1>2, RecoverRows DEF DInv, Closed, reads
<1>4. TypeOK'
  BY <1>1, <1>2, RecoverRows DEF DInv, TypeOK, reads, intents, Claimed, Elements
<1>5. Intents'
  BY <1>1 DEF DInv, Intents, IntentExact, intents
<1> QED BY <1>3, <1>4, <1>5 DEF DInv

\* A published version closes the graph of inputs: its own exist, and it was
\* nobody's input before.
LEMMA PublishTyped ==
    ASSUME DInv, NEW v \in Versions, NEW t \in Targets, NEW k \in Keys \cup {None},
           NEW d \in Digests, NEW i \in SUBSET Published, NEW at \in Stamps, NEW b \in BOOLEAN,
           Publish(v, t, k, d, i, at, b), version[v] = None,
           work' \in [Versions -> WorkRow \cup {None}], known' \subseteq Digests,
           Running' \subseteq Running \ {v}, Prepared' \subseteq Prepared,
           \A w \in Versions : work'[w] # None =>
                /\ work[w] # None /\ work'[w].inputs = work[w].inputs
                /\ work'[w].digest = work[w].digest
    PROVE  DInv'
<1> DEFINE r == [target |-> t, key |-> k, digest |-> d, inputs |-> i, at |-> at, imported |-> b]
<1>1. r \in VersionRow /\ r.inputs = i
  BY DEF VersionRow, Published, Stamps
<1>2. version' = [version EXCEPT ![v] = r] /\ history' = [history EXCEPT ![t] = Append(@, v)]
      /\ claim[d] = None /\ Restored(d, at)
      /\ UNCHANGED <<floor, reads, claim, deletions, disk, trash, gc>>
  BY DEF Publish
<1> HIDE DEF r
<1>3. /\ version' \in [Versions -> VersionRow \cup {None}]
      /\ version'[v] = r /\ Published' = Published \cup {v}
      /\ \A w \in Versions : w # v => version'[w] = version[w]
  BY <1>1, <1>2, VersionWritten DEF DInv
<1>4. /\ history' \in [Targets -> Seq(Versions)]
      /\ \A u \in Targets : Elements(history[u])' \subseteq Elements(history[u]) \cup {v}
  BY <1>2, HistoryWritten DEF DInv
<1>5. /\ item' \in [Digests -> ItemRow] /\ item'[d].state \notin {"CLAIMED", "DELETED"}
      /\ \A e \in Digests : e # d => item'[e] = item[e]
  BY <1>2, ItemRestored DEF DInv, Stamps
<1>6. Closed'
  <2>1. \A w \in Published' : version'[w].inputs \subseteq Published'
    BY <1>1, <1>3 DEF DInv, Closed, Published
  <2>2. \A w \in Versions : work'[w] # None => work'[w].inputs \subseteq Published'
    BY <1>3 DEF DInv, Closed
  <2>3. \A w \in Running' : version'[w] = None
    BY <1>3 DEF DInv, Closed, Running
  <2>4. \A w \in Prepared' : work'[w].digest \in Digests
    BY DEF DInv, Closed, Prepared
  <2> QED BY <1>2, <1>3, <2>1, <2>2, <2>3, <2>4 DEF DInv, Closed, reads
<1>7. Claimed' = Claimed
  BY <1>2, <1>5 DEF Claimed, DInv, Intents, IntentExact
<1>8. TypeOK'
  BY <1>2, <1>3, <1>4, <1>5, <1>7 DEF DInv, TypeOK, reads
<1>9. IntentExact'
  BY <1>2, <1>5 DEF DInv, Intents, IntentExact
<1>10. Intents'
  BY <1>2, <1>9 DEF DInv, Intents
<1> QED BY <1>6, <1>8, <1>10 DEF DInv

\* A job that publishes has a version to write, and is over after.
LEMMA CommitRows ==
    ASSUME DInv, NEW v \in Versions, NEW at \in Stamps, Commit(v, at)
    PROVE  /\ work[v] \in WorkRow /\ v \in Running \cap Prepared
           /\ work[v].digest \in Digests /\ work[v].inputs \subseteq Published
           /\ version[v] = None
           /\ work' \in [Versions -> WorkRow \cup {None}]
           /\ Running' \subseteq Running \ {v} /\ Prepared' \subseteq Prepared
           /\ \A w \in Versions : work'[w] # None =>
                /\ work[w] # None /\ work'[w].inputs = work[w].inputs
                /\ work'[w].digest = work[w].digest
           /\ \A w \in Versions : w # v => work'[w] = work[w]
<1> DEFINE r == [work[v] EXCEPT !.phase = "over"]
<1>1. work[v] \in WorkRow /\ work[v] # None /\ v \in Running \cap Prepared
  BY DEF Commit, Running, Prepared, DInv, TypeOK
<1>2. r \in WorkRow /\ r.inputs = work[v].inputs /\ r.digest = work[v].digest /\ r.phase = "over"
  BY <1>1 DEF WorkRow
<1>3. work' = [work EXCEPT ![v] = r]
  BY DEF Commit
<1> HIDE DEF r
<1>4. work'[v] = r /\ \A w \in Versions : w # v => work'[w] = work[w]
  BY <1>3 DEF DInv, TypeOK
<1>5. Running' \subseteq Running \ {v} /\ Prepared' \subseteq Prepared
  BY <1>2, <1>4 DEF Running, Prepared
<1>6. version[v] = None /\ work[v].digest \in Digests /\ work[v].inputs \subseteq Published
  BY <1>1 DEF DInv, Closed
<1>7. work' \in [Versions -> WorkRow \cup {None}]
  BY <1>2, <1>3 DEF DInv, TypeOK
<1> QED BY <1>1, <1>2, <1>4, <1>5, <1>6, <1>7

LEMMA CommitTyped ==
    ASSUME DInv, NEW v \in Versions, NEW at \in Stamps, Commit(v, at)
    PROVE  DInv'
<1>1. work[v].target \in Targets /\ work[v].key \in Keys
  BY CommitRows DEF WorkRow
<1>2. Publish(v, work[v].target, work[v].key, work[v].digest, work[v].inputs, at, FALSE)
      /\ known' \subseteq Digests
  BY DEF Commit, DInv, TypeOK
<1> QED BY <1>1, <1>2, CommitRows, PublishTyped

LEMMA ImportTyped ==
    ASSUME DInv, NEW v \in Versions, NEW t \in Targets, NEW d \in Digests, NEW at \in Stamps,
           CommitImport(v, t, d, at)
    PROVE  DInv'
<1>1. Publish(v, t, None, d, {}, at, TRUE) /\ version[v] = None /\ work[v] = None
      /\ known' \subseteq Digests /\ UNCHANGED work
  BY DEF CommitImport, DInv, TypeOK
<1>2. Running' \subseteq Running \ {v} /\ Prepared' \subseteq Prepared
  BY <1>1 DEF Running, Prepared
<1>3. work' \in [Versions -> WorkRow \cup {None}]
  BY <1>1 DEF DInv, TypeOK
<1> QED BY <1>1, <1>2, <1>3, PublishTyped

LEMMA InstallTyped ==
    ASSUME DInv, NEW d \in Digests, Install(d)
    PROVE  DInv'
<1>1. UNCHANGED <<floor, version, history, work, known, reads, intents, trash, gc>>
      /\ disk' \subseteq Digests
  BY DEF Install, catalog, DInv, TypeOK
<1> QED BY <1>1 DEF DInv, TypeOK, Closed, Intents, IntentExact, reads, intents, Claimed,
            Elements, Published, Running, Prepared

----------------------------------------------------------------------------
(* Types and intents: readers.                                              *)

\* Steps that write leases, tickets or pins.
LEMMA ReadsWritten ==
    ASSUME DInv, lease' \in [Leases -> LeaseRow \cup {None}],
           ticket' \in [Leases -> TicketRow \cup {None}], pin' \in [Pins -> PinRow \cup {None}],
           \A l \in Leases : lease'[l] # None /\ lease'[l].version # None =>
                lease'[l].version \in Published,
           \A p \in Pins : pin'[p] # None /\ pin'[p].version # None =>
                pin'[p].version \in Published,
           UNCHANGED <<floor, catalog, intents, disk, trash, gc>>
    PROVE  DInv'
<1>1. UNCHANGED <<floor, version, history, work, known, item, claim, deletions, disk, trash, gc>>
  BY DEF catalog, intents
<1> QED BY <1>1 DEF DInv, TypeOK, Closed, Intents, IntentExact, Claimed, Elements,
            Published, Running, Prepared

\* What a grant writes.
LEMMA Granted ==
    ASSUME DInv, NEW l \in Leases, NEW v \in Published \cup {None}, NEW d \in Digests, Grant(l, v, d)
    PROVE  /\ DInv'
           /\ lease[l] = None /\ lease'[l] # None /\ ticket'[l] # None
           /\ lease'[l].version = v /\ lease'[l].digest = d /\ ~lease'[l].released
           /\ lease'[l].expires = floor + Ttl /\ ticket'[l].expires = floor + Ttl
           /\ \A k \in Leases : k # l => lease'[k] = lease[k] /\ ticket'[k] = ticket[k]
           /\ UNCHANGED <<floor, catalog, pin, intents, disk, trash, gc>>
<1> DEFINE r == [version |-> v, digest |-> d, expires |-> floor + Ttl, fence |-> 0, released |-> FALSE]
<1> DEFINE c == [fence |-> 0, expires |-> floor + Ttl]
<1>1. floor + Ttl \in Nat /\ 0 \in 0..MaxFence /\ v \in Versions \cup {None}
  BY Writable, BoundAssumption DEF DInv, TypeOK, Published
<1>2. r \in LeaseRow /\ c \in TicketRow
  BY <1>1 DEF LeaseRow, TicketRow
<1>3. r.version = v /\ r.digest = d /\ ~r.released /\ r.expires = floor + Ttl /\ c.expires = floor + Ttl
  OBVIOUS
<1>4. lease' = [lease EXCEPT ![l] = r] /\ ticket' = [ticket EXCEPT ![l] = c] /\ lease[l] = None
      /\ UNCHANGED <<floor, catalog, pin, intents, disk, trash, gc>>
  BY DEF Grant
<1> HIDE DEF r, c
<1>5. r # None /\ c # None
  BY <1>2, RowAssumption
<1>6. /\ lease' \in [Leases -> LeaseRow \cup {None}] /\ ticket' \in [Leases -> TicketRow \cup {None}]
      /\ lease'[l] = r /\ ticket'[l] = c
      /\ \A k \in Leases : k # l => lease'[k] = lease[k] /\ ticket'[k] = ticket[k]
  BY <1>2, <1>4 DEF DInv, TypeOK
<1>7. \A k \in Leases : lease'[k] # None /\ lease'[k].version # None => lease'[k].version \in Published
  BY <1>3, <1>6 DEF DInv, Closed
<1>8. DInv'
  BY <1>4, <1>6, <1>7, ReadsWritten DEF DInv, TypeOK, Closed
<1> QED BY <1>3, <1>4, <1>6, <1>8, <1>5

\* What a renewal writes: more time for the lease, and perhaps the news of it.
LEMMA Renewed ==
    ASSUME DInv, NEW l \in Leases, NEW delivered \in BOOLEAN, Renew(l, delivered)
    PROVE  /\ DInv'
           /\ lease'[l] # None /\ lease[l] # None /\ LiveLease(l) /\ ticket[l] # None
           /\ lease'[l].version = lease[l].version /\ lease'[l].digest = lease[l].digest
           /\ lease'[l].released = lease[l].released
           /\ lease'[l].expires \in Nat /\ lease[l].expires <= lease'[l].expires
           /\ lease[l].expires \in Nat
           /\ \/ ticket'[l] = ticket[l]
              \/ ticket'[l] # None /\ ticket'[l].expires = lease'[l].expires
           /\ \A k \in Leases : k # l => lease'[k] = lease[k] /\ ticket'[k] = ticket[k]
           /\ UNCHANGED <<floor, catalog, pin, intents, disk, trash, gc>>
<1> DEFINE e == Larger(lease[l].expires, floor + Ttl)
<1> DEFINE r == [lease[l] EXCEPT !.fence = lease[l].fence + 1, !.expires = e]
<1> DEFINE c == [fence |-> ticket[l].fence + 1, expires |-> e]
<1>1. /\ lease[l] \in LeaseRow /\ lease[l] # None /\ LiveLease(l)
      /\ ticket[l] \in TicketRow /\ ticket[l] # None
      /\ ticket[l].fence = lease[l].fence /\ lease[l].fence < MaxFence
  BY DEF Renew, Renewable, LiveLease, DInv, TypeOK
<1>2. floor + Ttl \in Nat /\ lease[l].expires \in Nat
  BY <1>1, Writable DEF DInv, TypeOK, LeaseRow
<1>3. e \in Nat /\ lease[l].expires <= e
  BY <1>2, Writable
<1>4. lease[l].fence + 1 \in 0..MaxFence
  BY <1>1, BoundAssumption DEF LeaseRow
<1>5. lease' = [lease EXCEPT ![l] = r]
  BY DEF Renew
<1>6. \/ ticket' = ticket
      \/ ticket' = [ticket EXCEPT ![l] = c]
  BY DEF Renew
<1>7. UNCHANGED <<floor, catalog, pin, intents, disk, trash, gc>>
  BY DEF Renew
<1> HIDE DEF e
<1>8. r \in LeaseRow /\ r.version = lease[l].version /\ r.digest = lease[l].digest
      /\ r.released = lease[l].released /\ r.expires = e
  BY <1>1, <1>3, <1>4 DEF LeaseRow
<1>9. c \in TicketRow /\ c.expires = e
  BY <1>1, <1>3, <1>4 DEF TicketRow
<1> HIDE DEF r, c
<1>10. r # None /\ c # None
  BY <1>8, <1>9, RowAssumption
<1>11. /\ lease' \in [Leases -> LeaseRow \cup {None}] /\ ticket' \in [Leases -> TicketRow \cup {None}]
       /\ lease'[l] = r /\ (ticket'[l] = ticket[l] \/ ticket'[l] = c)
       /\ \A k \in Leases : k # l => lease'[k] = lease[k] /\ ticket'[k] = ticket[k]
  BY <1>5, <1>6, <1>8, <1>9 DEF DInv, TypeOK
<1>12. \A k \in Leases : lease'[k] # None /\ lease'[k].version # None => lease'[k].version \in Published
  BY <1>1, <1>8, <1>11 DEF DInv, Closed
<1>13. DInv'
  BY <1>7, <1>11, <1>12, ReadsWritten DEF DInv, TypeOK, Closed
<1> QED BY <1>1, <1>2, <1>3, <1>7, <1>8, <1>9, <1>10, <1>11, <1>13

\* What a release writes.
LEMMA Released ==
    ASSUME DInv, Told, NEW l \in Leases, Release(l)
    PROVE  /\ DInv'
           /\ ticket'[l] = None /\ lease'[l] # None /\ lease'[l].released
           /\ \A k \in Leases : k # l => lease'[k] = lease[k] /\ ticket'[k] = ticket[k]
           /\ UNCHANGED <<floor, catalog, pin, intents, disk, trash, gc>>
           /\ ticket[l] # None
<1> DEFINE r == [lease[l] EXCEPT !.released = TRUE]
<1>1. lease' = [lease EXCEPT ![l] = r] /\ ticket' = [ticket EXCEPT ![l] = None]
      /\ UNCHANGED <<floor, catalog, pin, intents, disk, trash, gc>> /\ ticket[l] # None
      /\ ~lease[l].released /\ ticket[l].fence = lease[l].fence
  BY DEF Release
<1>2. lease[l] # None /\ lease[l] \in LeaseRow
  BY <1>1 DEF Told, DInv, TypeOK
<1>3. r \in LeaseRow /\ r.version = lease[l].version /\ r.released
  BY <1>2 DEF LeaseRow
<1> HIDE DEF r
<1>4. r # None
  BY <1>3, RowAssumption
<1>5. /\ lease' \in [Leases -> LeaseRow \cup {None}] /\ ticket' \in [Leases -> TicketRow \cup {None}]
      /\ lease'[l] = r /\ ticket'[l] = None
      /\ \A k \in Leases : k # l => lease'[k] = lease[k] /\ ticket'[k] = ticket[k]
  BY <1>1, <1>3 DEF DInv, TypeOK
<1>6. \A k \in Leases : lease'[k] # None /\ lease'[k].version # None => lease'[k].version \in Published
  BY <1>2, <1>3, <1>5 DEF DInv, Closed
<1>7. DInv'
  BY <1>1, <1>5, <1>6, ReadsWritten DEF DInv, TypeOK, Closed
<1> QED BY <1>1, <1>3, <1>4, <1>5, <1>7

\* A reader is granted what is available, and a version with its lineage.
Grants(l, v, d) ==
    /\ Grant(l, v, d) /\ Available(d)
    /\ v # None => v \in Published /\ d = Digest(v) /\ VersionAvailable(v)

LEMMA GrantCases ==
    ASSUME DInv, NEW l \in Leases
    PROVE  /\ \A v \in Versions : AcquireVersion(l, v) =>
                \E u \in Published \cup {None}, d \in Digests : Grants(l, u, d)
           /\ \A d \in Digests : AcquireArtifact(l, d) =>
                \E u \in Published \cup {None}, e \in Digests : Grants(l, u, e)
           /\ \A t \in Targets, k \in Keys : Lookup(l, t, k) =>
                \E u \in Published \cup {None}, d \in Digests : Grants(l, u, d)
<1>1. \A v \in Published : Digest(v) \in Digests
  BY DEF Published, Digest, DInv, TypeOK, VersionRow
<1>2. \A t \in Targets, k \in Keys : Selected(t, k) \subseteq Published
  BY DEF Selected, Matches
<1> QED BY <1>1, <1>2 DEF AcquireVersion, AcquireArtifact, Lookup, Grants

\* What a pin writes.
LEMMA Pinned ==
    ASSUME DInv, NEW p \in Pins, NEW v \in Versions \cup {None}, NEW d \in Digests,
           NEW until \in Time, SetPin(p, v, d, until)
    PROVE  /\ DInv'
           /\ pin'[p].version = v /\ pin'[p].digest = d /\ Available(d)
           /\ v # None => v \in Published /\ d = Digest(v) /\ VersionAvailable(v)
           /\ \A q \in Pins : q # p => pin'[q] = pin[q]
           /\ UNCHANGED <<floor, catalog, lease, ticket, intents, disk, trash, gc>>
<1> DEFINE r == [version |-> v, digest |-> d, expires |-> until]
<1>1. r \in PinRow /\ r.version = v /\ r.digest = d
  BY DEF PinRow
<1>2. pin' = [pin EXCEPT ![p] = r] /\ UNCHANGED <<floor, catalog, lease, ticket, intents, disk, trash, gc>>
  BY DEF SetPin
<1> HIDE DEF r
<1>3. pin' \in [Pins -> PinRow \cup {None}] /\ pin'[p] = r
      /\ \A q \in Pins : q # p => pin'[q] = pin[q]
  BY <1>1, <1>2 DEF DInv, TypeOK
<1>4. Available(d) /\ (v # None => v \in Published /\ d = Digest(v) /\ VersionAvailable(v))
  BY DEF SetPin
<1>5. \A q \in Pins : pin'[q] # None /\ pin'[q].version # None => pin'[q].version \in Published
  BY <1>1, <1>3, <1>4 DEF DInv, Closed
<1>6. DInv'
  BY <1>2, <1>3, <1>5, ReadsWritten DEF DInv, TypeOK, Closed
<1> QED BY <1>1, <1>2, <1>3, <1>4, <1>6

LEMMA UnpinTyped ==
    ASSUME DInv, NEW p \in Pins, Unpin(p)
    PROVE  DInv' /\ pin'[p] = None /\ \A q \in Pins : q # p => pin'[q] = pin[q]
<1>1. pin' = [pin EXCEPT ![p] = None] /\ UNCHANGED <<floor, catalog, lease, ticket, intents, disk, trash, gc>>
  BY DEF Unpin
<1>2. pin' \in [Pins -> PinRow \cup {None}] /\ pin'[p] = None /\ \A q \in Pins : q # p => pin'[q] = pin[q]
  BY <1>1 DEF DInv, TypeOK
<1>3. DInv'
  BY <1>1, <1>2, ReadsWritten DEF DInv, TypeOK, Closed
<1> QED BY <1>2, <1>3

LEMMA TickTyped ==
    ASSUME DInv, Tick
    PROVE  DInv'
<1>1. UNCHANGED <<version, history, work, known, lease, ticket, pin, item, claim, deletions, disk, trash, gc>>
  BY DEF Tick, catalog, reads, intents
<1>2. floor' \in Time
  BY BoundAssumption DEF Tick, DInv, TypeOK, Time
<1> QED BY <1>1, <1>2 DEF DInv, TypeOK, Closed, Intents, IntentExact, Claimed, Elements,
            Published, Running, Prepared

\* A reuse moves the head to a version with all its lineage.
LEMMA AdoptTyped ==
    ASSUME DInv, Told, NEW l \in Leases, Adopt(l)
    PROVE  /\ DInv'
           /\ lease[l].version \in Published /\ VersionAvailable(lease[l].version)
           /\ Window' \subseteq Window \cup {lease[l].version}
           /\ UNCHANGED <<floor, version, work, known, reads, intents, disk, trash, gc>>
<1> DEFINE v == lease[l].version
<1>1. lease[l] # None /\ v # None
  BY DEF Adopt, Told
<1>2. v \in Published /\ v \in Versions
  BY <1>1 DEF DInv, Closed, Published
<1>3. version[v].target \in Targets
  BY <1>2 DEF Published, DInv, TypeOK, VersionRow
<1>4. history' = [history EXCEPT ![version[v].target] = Append(@, v)] /\ VersionAvailable(v)
      /\ UNCHANGED <<floor, version, work, known, reads, intents, disk, trash, gc>>
  BY DEF Adopt
<1> HIDE DEF v
<1>5. /\ history' \in [Targets -> Seq(Versions)] /\ Window' \subseteq Window \cup {v}
      /\ \A u \in Targets : Elements(history[u])' \subseteq Elements(history[u]) \cup {v}
  BY <1>2, <1>3, <1>4, HistoryWritten DEF DInv
<1>6. UNCHANGED <<lease, ticket, pin, item, claim, deletions>> /\ Published' = Published
  BY <1>4 DEF reads, intents, Published
<1>7. Claimed' = Claimed /\ Running' = Running /\ Prepared' = Prepared
  BY <1>4, <1>6 DEF Claimed, Running, Prepared
<1>8. TypeOK'
  BY <1>2, <1>4, <1>5, <1>6, <1>7 DEF DInv, TypeOK
<1>9. Closed' /\ Intents'
  BY <1>4, <1>6, <1>7 DEF DInv, Closed, Intents, IntentExact
<1> QED BY <1>2, <1>4, <1>5, <1>8, <1>9 DEF DInv, v

----------------------------------------------------------------------------
(* Types and intents: collection.                                           *)

\* Steps of a collection that leave the intents alone.
LEMMA CollectorMoved ==
    ASSUME DInv, UNCHANGED <<floor, catalog, reads, intents>>, disk' \subseteq Digests,
           trash' \subseteq ClaimIds, gc' \in Collector,
           gc'.step \in {"claimed", "renamed", "removed"} => gc'.digest \in Claimed,
           \A c \in trash' : \E d \in Digests : claim[d] = c,
           gc'.step = "removed" => claim[gc'.digest] \notin trash'
    PROVE  DInv'
<1>1. UNCHANGED <<floor, version, history, work, known, lease, ticket, pin, item, claim, deletions>>
  BY DEF catalog, reads, intents
<1>2. Claimed' = Claimed /\ Published' = Published /\ Running' = Running /\ Prepared' = Prepared
  BY <1>1 DEF Claimed, Published, Running, Prepared
<1>3. TypeOK'
  BY <1>1, <1>2 DEF DInv, TypeOK, Elements
<1>4. Closed'
  BY <1>1, <1>2 DEF DInv, Closed
<1>5. Intents'
  BY <1>1 DEF DInv, Intents, IntentExact
<1> QED BY <1>3, <1>4, <1>5 DEF DInv

LEMMA GcWalkTyped ==
    ASSUME DInv, GcStart \/ GcStop \/ GcRetire \/ GcPurge \/ \E d \in Digests : GcResume(d)
    PROVE  DInv' /\ UNCHANGED <<floor, catalog, reads, intents>> /\ disk' \subseteq disk
           /\ disk \ disk' \subseteq Claimed
<1>0. gc \in Collector /\ \A d \in Claimed : d \in Digests /\ claim[d] # None /\ claim[d] = item[d].claim /\ claim[d] \in ClaimIds
  BY DEF DInv, TypeOK, Claimed, Intents, IntentExact
<1>1. CASE GcStart
  <2>1. gc' = [gc EXCEPT !.step = "open"] /\ UNCHANGED <<floor, catalog, reads, intents, disk, trash>>
    BY <1>1 DEF GcStart
  <2>2. gc' \in Collector /\ gc'.step = "open"
    BY <1>0, <2>1 DEF Collector
  <2> QED BY <2>1, <2>2, CollectorMoved DEF DInv, TypeOK, Intents, IntentExact
<1>2. CASE GcStop
  <2>1. gc' = Idle /\ UNCHANGED <<floor, catalog, reads, intents, disk, trash>>
    BY <1>2 DEF GcStop
  <2>2. gc' \in Collector /\ gc'.step = "idle"
    BY <2>1 DEF Collector, Idle
  <2> QED BY <2>1, <2>2, CollectorMoved DEF DInv, TypeOK, Intents, IntentExact
<1>3. CASE GcRetire
  <2> DEFINE d == gc.digest
  <2> DEFINE c == item[d].claim
  <2>1. d \in Claimed /\ c = claim[d] /\ c \in ClaimIds
    BY <1>0, <1>3 DEF GcRetire, DInv, TypeOK
  <2>2. /\ gc' = [gc EXCEPT !.step = IF c \in trash \/ d \in disk THEN "renamed" ELSE "removed"]
        /\ UNCHANGED <<floor, catalog, reads, intents>>
        /\ IF c \in trash \/ d \notin disk THEN UNCHANGED <<disk, trash>>
           ELSE disk' = disk \ {d} /\ trash' = trash \cup {c}
    BY <1>3 DEF GcRetire
  <2>3. gc' \in Collector /\ gc'.digest = d
        /\ (gc'.step = "removed" => c \notin trash /\ d \notin disk)
    BY <1>0, <2>2 DEF Collector
  <2>4. disk' \subseteq disk /\ disk \ disk' \subseteq {d} /\ trash' \subseteq trash \cup {c}
        /\ (gc'.step = "removed" => trash' = trash)
    BY <2>2, <2>3
  <2>5. \A b \in trash' : \E e \in Digests : claim[e] = b
    BY <1>0, <2>1, <2>4 DEF DInv, Intents, IntentExact
  <2>6. disk' \subseteq Digests /\ trash' \subseteq ClaimIds
    BY <2>1, <2>4 DEF DInv, TypeOK
  <2>7. gc'.step = "removed" => claim[gc'.digest] \notin trash'
    BY <2>1, <2>3, <2>4
  <2>8. gc'.digest \in Claimed
    BY <2>1, <2>3
  <2> HIDE DEF d, c
  <2> QED BY <2>1, <2>2, <2>3, <2>4, <2>5, <2>6, <2>7, <2>8, CollectorMoved
<1>4. CASE GcPurge
  <2>1. gc.digest \in Claimed /\ item[gc.digest].claim = claim[gc.digest]
    BY <1>0, <1>4 DEF GcPurge, DInv, TypeOK
  <2>2. /\ gc' = [gc EXCEPT !.step = "removed"] /\ trash' = trash \ {claim[gc.digest]}
        /\ UNCHANGED <<floor, catalog, reads, intents, disk>>
    BY <1>4, <2>1 DEF GcPurge
  <2>3. gc' \in Collector /\ gc'.digest = gc.digest
    BY <1>0, <2>2 DEF Collector
  <2> QED BY <2>1, <2>2, <2>3, CollectorMoved DEF DInv, TypeOK, Intents, IntentExact
<1>5. ASSUME NEW d \in Digests, GcResume(d) PROVE DInv' /\ UNCHANGED <<floor, catalog, reads, intents, disk>>
  <2>1. gc' = [step |-> "claimed", digest |-> d] /\ d \in Claimed
        /\ UNCHANGED <<floor, catalog, reads, intents, disk, trash>>
    BY <1>5 DEF GcResume
  <2>2. gc' \in Collector /\ gc'.step = "claimed" /\ gc'.digest = d
    BY <2>1 DEF Collector
  <2> QED BY <2>1, <2>2, CollectorMoved DEF DInv, TypeOK, Intents, IntentExact
<1>6. CASE \E d \in Digests : GcResume(d)
  BY <1>5, <1>6
<1> QED BY <1>1, <1>2, <1>3, <1>4, <1>6 DEF GcStart, GcStop, GcPurge, GcRetire

\* What each step writes to the item of one digest.
LEMMA Observed ==
    ASSUME DInv, NEW d \in Digests, GcObserve(d)
    PROVE  /\ DInv'
           /\ \A e \in Digests : item'[e].state = "DELETED" => item[e].state = "DELETED"
           /\ item[d].state = "DELETED" => d \in disk
           /\ \A e \in Digests : e # d => item'[e] = item[e]
           /\ UNCHANGED <<floor, version, history, work, reads, claim, deletions, disk, trash, gc>>
<1> DEFINE r == [state |-> "OBSERVED", first |-> floor, claim |-> None]
<1>1. UNCHANGED <<floor, version, history, work, reads, claim, deletions, disk, trash, gc>>
      /\ known' = known \cup {d} /\ d \in disk /\ d \notin Claimed
      /\ item' = IF item[d].state \in {"NONE", "DELETED"} THEN [item EXCEPT ![d] = r] ELSE item
  BY DEF GcObserve, Observable
<1>2. r \in ItemRow /\ r.state = "OBSERVED"
  BY DEF ItemRow, DInv, TypeOK
<1> HIDE DEF r
<1>3. /\ item' \in [Digests -> ItemRow] /\ (item'[d] = item[d] \/ item'[d].state = "OBSERVED")
      /\ \A e \in Digests : e # d => item'[e] = item[e]
  BY <1>1, <1>2 DEF DInv, TypeOK
<1>4. UNCHANGED <<lease, ticket, pin>> /\ item[d].state # "CLAIMED"
  BY <1>1 DEF reads, Claimed
<1>5. Published' = Published /\ Running' = Running /\ Prepared' = Prepared /\ Claimed' = Claimed
  BY <1>1, <1>3, <1>4 DEF Published, Running, Prepared, Claimed
<1>6. TypeOK'
  BY <1>1, <1>3, <1>4, <1>5 DEF DInv, TypeOK, Elements
<1>7. Closed'
  BY <1>1, <1>4, <1>5 DEF DInv, Closed
<1>8. IntentExact'
  BY <1>1, <1>3, <1>4 DEF DInv, Intents, IntentExact
<1>9. Intents'
  BY <1>1, <1>8 DEF DInv, Intents
<1> QED BY <1>1, <1>3, <1>6, <1>7, <1>9 DEF DInv

\* A new claim has an identity no intent had before.
LEMMA Begun ==
    ASSUME DInv, NEW d \in Digests, GcBegin(d)
    PROVE  /\ DInv'
           /\ d \notin Roots /\ item'[d].state = "CLAIMED" /\ claim'[d] # None
           /\ \A e \in Digests : e # d => item'[e] = item[e] /\ claim'[e] = claim[e]
           /\ UNCHANGED <<floor, catalog, reads, deletions, disk, trash>>
<1>1. PICK c \in ClaimIds \ UsedIds :
        /\ claim' = [claim EXCEPT ![d] = c]
        /\ item' = [item EXCEPT ![d] = [state |-> "CLAIMED", claim |-> c,
                    first |-> IF item[d].state = "NONE" THEN floor ELSE item[d].first]]
  BY DEF GcBegin
<1> DEFINE r == [state |-> "CLAIMED", claim |-> c,
                 first |-> IF item[d].state = "NONE" THEN floor ELSE item[d].first]
<1>2. item[d] \in ItemRow /\ floor \in Time /\ c \in ClaimIds /\ c # None
  BY Writable DEF DInv, TypeOK
<1>3. r \in ItemRow /\ r.state = "CLAIMED" /\ r.claim = c
  BY <1>2 DEF ItemRow
<1>4. item' = [item EXCEPT ![d] = r]
  BY <1>1
<1> HIDE DEF r
<1>5. /\ item' \in [Digests -> ItemRow] /\ claim' \in [Digests -> ClaimIds \cup {None}]
      /\ item'[d] = r /\ claim'[d] = c
      /\ \A e \in Digests : e # d => item'[e] = item[e] /\ claim'[e] = claim[e]
  BY <1>1, <1>2, <1>3, <1>4 DEF DInv, TypeOK
<1>6. /\ gc' = [step |-> "claimed", digest |-> d] /\ d \notin Claimed /\ d \notin Roots
      /\ UNCHANGED <<floor, catalog, reads, deletions, disk, trash>>
  BY DEF GcBegin, Collectible
<1>7. gc' \in Collector /\ gc'.digest = d /\ gc'.step = "claimed"
  BY <1>6 DEF Collector
<1>8. UNCHANGED <<version, history, work, known, lease, ticket, pin>>
  BY <1>6 DEF catalog, reads
<1>9. Published' = Published /\ Running' = Running /\ Prepared' = Prepared /\ d \in Claimed'
  BY <1>3, <1>5, <1>8 DEF Published, Running, Prepared, Claimed
<1>10. TypeOK'
  BY <1>5, <1>6, <1>7, <1>8, <1>9 DEF DInv, TypeOK, Elements
<1>11. Closed'
  BY <1>8, <1>9 DEF DInv, Closed
<1>12. /\ \A q \in deletions : q.id # c
       /\ \A e \in Digests : claim[e] # None => claim[e] # c
       /\ claim[d] = None
  <2>1. \A e \in Digests : claim[e] # None => e \in Claimed /\ claim[e] = item[e].claim
    BY DEF DInv, Intents, IntentExact, Claimed
  <2> QED BY <1>6, <2>1 DEF UsedIds
<1>13. IntentExact'
  <2>1. \A e \in Digests :
          /\ claim'[e] # None <=> item'[e].state = "CLAIMED"
          /\ claim'[e] # None => claim'[e] = item'[e].claim
          /\ item'[e].state = "DELETED" => \E q \in deletions : q.id = item'[e].claim /\ q.digest = e
    BY <1>2, <1>3, <1>5 DEF DInv, Intents, IntentExact
  <2>2. \A b \in trash : \E e \in Digests : claim'[e] = b
    <3> SUFFICES ASSUME NEW b \in trash PROVE \E e \in Digests : claim'[e] = b
      OBVIOUS
    <3>1. PICK e \in Digests : claim[e] = b
      BY DEF DInv, Intents, IntentExact
    <3>2. b # None
      BY Writable DEF DInv, TypeOK
    <3> QED BY <1>5, <1>12, <3>1, <3>2
  <2>3. \A e, f \in Digests : claim'[e] # None /\ claim'[e] = claim'[f] => e = f
    BY <1>5, <1>12 DEF DInv, Intents, IntentExact
  <2>4. \A q, s \in deletions : q.id = s.id => q = s
    BY DEF DInv, Intents, IntentExact
  <2> QED BY <1>6, <2>1, <2>2, <2>3, <2>4 DEF IntentExact
<1>14. Intents'
  BY <1>5, <1>6, <1>7, <1>12, <1>13 DEF DInv, Intents
<1> QED BY <1>3, <1>2, <1>5, <1>6, <1>10, <1>11, <1>14 DEF DInv

\* A completed deletion leaves its evidence and frees nothing else.
LEMMA Completed ==
    ASSUME DInv, GcFinish
    PROVE  /\ DInv'
           /\ gc.digest \in Claimed /\ item'[gc.digest].state = "DELETED"
           /\ \A e \in Digests : e # gc.digest => item'[e] = item[e] /\ claim'[e] = claim[e]
           /\ claim'[gc.digest] = None
           /\ UNCHANGED <<floor, catalog, reads, disk, trash>>
<1> DEFINE d == gc.digest
<1> DEFINE r == [item[d] EXCEPT !.state = "DELETED"]
<1> DEFINE q == [id |-> item[d].claim, digest |-> d, at |-> floor]
<1>1. d \in Claimed /\ d \in Digests /\ gc.step = "removed"
  BY DEF GcFinish, Removed, DInv, TypeOK, Claimed
<1>2. item[d] \in ItemRow /\ claim[d] = item[d].claim /\ claim[d] \in ClaimIds /\ claim[d] # None
      /\ floor \in Time /\ claim[d] \notin trash
  BY <1>1 DEF DInv, TypeOK, Claimed, Intents, IntentExact
<1>3. r \in ItemRow /\ r.state = "DELETED" /\ r.claim = claim[d]
  BY <1>2 DEF ItemRow
<1>4. q \in DeletionRow /\ q.id = claim[d] /\ q.digest = d
  BY <1>1, <1>2 DEF DeletionRow
<1>5. /\ item' = [item EXCEPT ![d] = r] /\ claim' = [claim EXCEPT ![d] = None]
      /\ deletions' = deletions \cup {q} /\ gc' = [step |-> "open", digest |-> None]
      /\ UNCHANGED <<floor, catalog, reads, disk, trash>>
  BY DEF GcFinish
<1> HIDE DEF d, r, q
<1>6. /\ item' \in [Digests -> ItemRow] /\ claim' \in [Digests -> ClaimIds \cup {None}]
      /\ item'[d] = r /\ claim'[d] = None
      /\ \A e \in Digests : e # d => item'[e] = item[e] /\ claim'[e] = claim[e]
  BY <1>1, <1>3, <1>5 DEF DInv, TypeOK
<1>7. gc' \in Collector /\ gc'.step = "open"
  BY <1>5 DEF Collector
<1>8. UNCHANGED <<version, history, work, known, lease, ticket, pin>>
  BY <1>5 DEF catalog, reads
<1>9. Published' = Published /\ Running' = Running /\ Prepared' = Prepared
  BY <1>8 DEF Published, Running, Prepared
<1>10. TypeOK'
  BY <1>4, <1>5, <1>6, <1>7, <1>8, <1>9 DEF DInv, TypeOK, Elements
<1>11. Closed'
  BY <1>8, <1>9 DEF DInv, Closed
<1>12. IntentExact'
  <2>1. \A e \in Digests :
          /\ claim'[e] # None <=> item'[e].state = "CLAIMED"
          /\ claim'[e] # None => claim'[e] = item'[e].claim
          /\ item'[e].state = "DELETED" => \E s \in deletions' : s.id = item'[e].claim /\ s.digest = e
    BY <1>3, <1>4, <1>5, <1>6 DEF DInv, Intents, IntentExact
  <2>2. \A b \in trash' : \E e \in Digests : claim'[e] = b
    <3> SUFFICES ASSUME NEW b \in trash PROVE \E e \in Digests : claim'[e] = b
      BY <1>5
    <3>1. PICK e \in Digests : claim[e] = b
      BY DEF DInv, Intents, IntentExact
    <3>2. e # d
      BY <1>2, <3>1
    <3> QED BY <1>6, <3>1, <3>2
  <2>3. \A e, f \in Digests : claim'[e] # None /\ claim'[e] = claim'[f] => e = f
    BY <1>6 DEF DInv, Intents, IntentExact
  <2>4. \A s \in deletions : s.id # q.id
    BY <1>1, <1>2, <1>4 DEF DInv, Intents
  <2>5. \A p, s \in deletions' : p.id = s.id => p = s
    BY <1>5, <2>4 DEF DInv, Intents, IntentExact
  <2> QED BY <2>1, <2>2, <2>3, <2>5 DEF IntentExact
<1>13. Intents'
  <2>1. ASSUME NEW e \in Digests, claim'[e] # None, NEW s \in deletions' PROVE s.id # claim'[e]
    <3>1. e # d /\ claim'[e] = claim[e]
      BY <1>6, <2>1
    <3>2. claim[e] # claim[d]
      BY <1>1, <1>2, <2>1, <3>1 DEF DInv, Intents, IntentExact
    <3> QED BY <1>4, <1>5, <2>1, <3>1, <3>2 DEF DInv, Intents
  <2> QED BY <1>7, <1>12, <2>1 DEF Intents
<1> QED BY <1>1, <1>3, <1>5, <1>6, <1>10, <1>11, <1>13 DEF DInv, d

----------------------------------------------------------------------------
(* Types, closure and intents together.                                     *)

LEMMA DInvInit == Init => DInv
<1> SUFFICES ASSUME Init PROVE DInv
  OBVIOUS
<1>1. Published = {} /\ Running = {} /\ Prepared = {}
  BY DEF Init, Published, Running, Prepared
<1>2. Unseen \in ItemRow
  BY Writable DEF Unseen, ItemRow
<1>3. Idle \in Collector /\ Idle.step = "idle"
  BY DEF Idle, Collector
<1>4. \A t \in Targets : history[t] \in Seq(Versions) /\ Elements(history[t]) = {}
  BY DEF Init, Elements
<1>5. TypeOK
  <2>1. item \in [Digests -> ItemRow]
    BY <1>2 DEF Init
  <2>2. history \in [Targets -> Seq(Versions)]
    BY <1>4 DEF Init
  <2>3. gc \in Collector /\ gc.step = "idle"
    BY <1>3 DEF Init
  <2> QED BY <1>4, <2>1, <2>2, <2>3, Writable DEF Init, TypeOK
<1>6. Closed
  BY <1>1 DEF Init, Closed
<1>7. Intents
  BY <1>3 DEF Init, Intents, IntentExact, Unseen
<1> QED BY <1>5, <1>6, <1>7 DEF DInv

LEMMA ToldStep ==
    ASSUME DInv, Told, [Next]_vars
    PROVE  Told'
<1>1. ASSUME UNCHANGED <<lease, ticket>> PROVE Told'
  BY <1>1 DEF Told
<1>2. ASSUME NEW l \in Leases, NEW v \in Published \cup {None}, NEW d \in Digests, Grants(l, v, d)
      PROVE  Told'
  <2>1. floor + Ttl \in Nat
    BY Writable DEF DInv, TypeOK
  <2> QED BY <1>2, <2>1, Granted DEF Grants, Told
<1>3. ASSUME NEW l \in Leases, NEW v \in Versions, AcquireVersion(l, v) PROVE Told'
  BY <1>2, <1>3, GrantCases
<1>4. ASSUME NEW l \in Leases, NEW d \in Digests, AcquireArtifact(l, d) PROVE Told'
  BY <1>2, <1>4, GrantCases
<1>5. ASSUME NEW l \in Leases, NEW t \in Targets, NEW k \in Keys, Lookup(l, t, k) PROVE Told'
  BY <1>2, <1>5, GrantCases
<1>6. ASSUME NEW l \in Leases, NEW b \in BOOLEAN, Renew(l, b) PROVE Told'
  <2>1. ticket[l].expires \in Nat /\ ticket[l].expires <= lease[l].expires /\ ~lease[l].released
    BY <1>6, Renewed DEF Told, DInv, TypeOK, TicketRow
  <2> QED BY <1>6, <2>1, Renewed DEF Told
<1>7. ASSUME NEW l \in Leases, Release(l) PROVE Told'
  BY <1>7, Released DEF Told
<1>8. ASSUME Publishing PROVE UNCHANGED <<lease, ticket>>
  BY <1>8 DEF Publishing, Freeze, Prepare, Install, Commit, CommitImport, Publish, EndWork, Recover, reads
<1>9. ASSUME Collecting PROVE UNCHANGED <<lease, ticket>>
  BY <1>9 DEF Collecting, GcStart, GcStop, GcRetire, GcPurge, GcFinish, GcObserve, GcBegin, GcResume, reads
<1>10. ASSUME \/ Tick
              \/ \E l \in Leases : Adopt(l)
              \/ \E p \in Pins, v \in Versions \cup {None}, d \in Digests, until \in Time :
                    SetPin(p, v, d, until)
              \/ \E p \in Pins : Unpin(p)
       PROVE  UNCHANGED <<lease, ticket>>
  BY <1>10 DEF Tick, Adopt, SetPin, Unpin, reads
<1>11. CASE Reading
  BY <1>1, <1>3, <1>4, <1>5, <1>6, <1>7, <1>10, <1>11 DEF Reading
<1>12. ASSUME UNCHANGED vars PROVE UNCHANGED <<lease, ticket>>
  BY <1>12 DEF vars, reads
<1> QED BY <1>1, <1>8, <1>9, <1>11, <1>12 DEF Next

LEMMA DInvStep ==
    ASSUME DInv, Told, [Next]_vars
    PROVE  DInv'
<1>1. CASE Publishing
  BY <1>1, FreezeTyped, PrepareTyped, InstallTyped, CommitTyped, ImportTyped, EndWorkTyped, RecoverTyped
     DEF Publishing
<1>2. ASSUME NEW l \in Leases, NEW v \in Published \cup {None}, NEW d \in Digests, Grants(l, v, d)
      PROVE  DInv'
  BY <1>2, Granted DEF Grants
<1>3. ASSUME NEW l \in Leases, NEW v \in Versions, AcquireVersion(l, v) PROVE DInv'
  BY <1>2, <1>3, GrantCases
<1>4. ASSUME NEW l \in Leases, NEW d \in Digests, AcquireArtifact(l, d) PROVE DInv'
  BY <1>2, <1>4, GrantCases
<1>5. ASSUME NEW l \in Leases, NEW t \in Targets, NEW k \in Keys, Lookup(l, t, k) PROVE DInv'
  BY <1>2, <1>5, GrantCases
<1>6. CASE Reading
  BY <1>3, <1>4, <1>5, <1>6, TickTyped, Renewed, Released, AdoptTyped, Pinned, UnpinTyped DEF Reading
<1>7. CASE Collecting
  BY <1>7, GcWalkTyped, Observed, Begun, Completed DEF Collecting
<1>8. CASE UNCHANGED vars
  BY <1>8 DEF vars, catalog, reads, intents, DInv, TypeOK, Closed, Intents, IntentExact, Claimed,
              Elements, Published, Running, Prepared
<1> QED BY <1>1, <1>6, <1>7, <1>8 DEF Next

\* The durable deletion intents of any number of collections, each interrupted
\* anywhere, stay exact: what a resumed collection finds is what one left.
THEOREM IntentsKept == Spec => []IntentExact
<1> DEFINE I == DInv /\ Told
<1>1. Init => I
  BY DInvInit DEF Init, Told
<1>2. I /\ [Next]_vars => I'
  BY DInvStep, ToldStep
<1>3. I => IntentExact
  BY DEF DInv, Intents
<1> QED BY <1>1, <1>2, <1>3, PTL DEF Spec

----------------------------------------------------------------------------
(* Bytes: a publication finds its own, and only a claim loses any.          *)

\* A version that is available with its lineage has every byte of it on disk.
LEMMA AvailableOnDisk ==
    ASSUME BytesThere, NEW v, VersionAvailable(v), NEW w \in Lineage({v})
    PROVE  /\ Digest(w) \in disk /\ claim[Digest(w)] = None
           /\ item[Digest(w)].state # "DELETED"
<1>1. w \in Published
  BY LineageBase
<1> QED BY <1>1 DEF VersionAvailable, BytesThere

\* What a publication leaves: the new version with its bytes, the others as
\* they were, and no more expired digests.
Wrote(v, d, i) ==
    /\ version'[v] # None /\ Digest(v)' = d /\ version'[v].inputs = i
    /\ \A w \in Versions : w # v => version'[w] = version[w]
    /\ Published' = Published \cup {v}
    /\ Window' \subseteq Window \cup {v}
    /\ d \in disk /\ claim[d] = None /\ item'[d].state # "DELETED"
    /\ \A e \in Digests : e # d => item'[e] = item[e]
    /\ UNCHANGED <<floor, reads, claim, deletions, disk, trash, gc>>

LEMMA PublishWrites ==
    ASSUME DInv, NEW v \in Versions, NEW t \in Targets, NEW k \in Keys \cup {None},
           NEW d \in Digests, NEW i \in SUBSET Published, NEW at \in Stamps, NEW b \in BOOLEAN,
           Publish(v, t, k, d, i, at, b)
    PROVE  Wrote(v, d, i)
<1> DEFINE r == [target |-> t, key |-> k, digest |-> d, inputs |-> i, at |-> at, imported |-> b]
<1>1. r \in VersionRow /\ r.inputs = i /\ r.digest = d
  BY DEF VersionRow, Published, Stamps
<1>2. version' = [version EXCEPT ![v] = r] /\ history' = [history EXCEPT ![t] = Append(@, v)]
      /\ claim[d] = None /\ d \in disk /\ Restored(d, at)
      /\ UNCHANGED <<floor, reads, claim, deletions, disk, trash, gc>>
  BY DEF Publish
<1> HIDE DEF r
<1>3. version'[v] = r /\ version'[v] # None /\ Published' = Published \cup {v}
      /\ \A w \in Versions : w # v => version'[w] = version[w]
  BY <1>1, <1>2, VersionWritten DEF DInv
<1>4. Window' \subseteq Window \cup {v}
  BY <1>2, HistoryWritten DEF DInv
<1>5. item'[d].state # "DELETED" /\ \A e \in Digests : e # d => item'[e] = item[e]
  BY <1>2, ItemRestored DEF DInv, Stamps
<1> QED BY <1>1, <1>2, <1>3, <1>4, <1>5 DEF Digest, Wrote

LEMMA CommitWrites ==
    ASSUME DInv, NEW v \in Versions, NEW at \in Stamps, Commit(v, at)
    PROVE  Wrote(v, work[v].digest, work[v].inputs)
<1>1. Publish(v, work[v].target, work[v].key, work[v].digest, work[v].inputs, at, FALSE)
  BY DEF Commit
<1>2. work[v].target \in Targets /\ work[v].key \in Keys
  BY CommitRows DEF WorkRow
<1> QED BY <1>1, <1>2, CommitRows, PublishWrites

LEMMA ImportWrites ==
    ASSUME DInv, NEW v \in Versions, NEW t \in Targets, NEW d \in Digests, NEW at \in Stamps,
           CommitImport(v, t, d, at)
    PROVE  Wrote(v, d, {})
BY PublishWrites DEF CommitImport

LEMMA BytesStep ==
    ASSUME DInv, BytesThere, Told, [Next]_vars
    PROVE  BytesThere'
<1>0. \A v \in Published : Digest(v) \in Digests
  BY DEF Published, Digest, DInv, TypeOK, VersionRow
<1>1. ASSUME NEW v \in Versions, NEW d \in Digests, NEW i \in SUBSET Published, Wrote(v, d, i)
      PROVE  BytesThere'
  <2> SUFFICES ASSUME NEW w \in Published', item'[Digest(w)'].state # "DELETED", claim'[Digest(w)'] = None
               PROVE  Digest(w)' \in disk'
    BY DEF BytesThere
  <2>1. CASE w = v
    BY <1>1, <2>1 DEF Wrote
  <2>2. CASE w # v
    <3>1. w \in Published /\ Digest(w)' = Digest(w)
      BY <1>1, <2>2 DEF Wrote, Digest, Published
    <3>2. CASE Digest(w) = d
      BY <1>1, <3>1, <3>2 DEF Wrote
    <3>3. CASE Digest(w) # d
      BY <1>0, <1>1, <3>1, <3>3 DEF BytesThere, Wrote
    <3> QED BY <3>2, <3>3
  <2> QED BY <2>1, <2>2
<1>2. ASSUME NEW v \in Versions, NEW at \in Stamps, Commit(v, at) PROVE BytesThere'
  BY <1>1, <1>2, CommitRows, CommitWrites
<1>3. ASSUME NEW v \in Versions, NEW t \in Targets, NEW d \in Digests, NEW at \in Stamps,
             CommitImport(v, t, d, at)
      PROVE  BytesThere'
  BY <1>1, <1>3, ImportWrites
<1>4. ASSUME UNCHANGED <<version, item, claim>>, disk \subseteq disk' PROVE BytesThere'
  BY <1>4 DEF BytesThere, Published, Digest
<1>5. ASSUME \/ \E v \in Versions, t \in Targets, k \in Keys, i \in SUBSET Published : Freeze(v, t, k, i)
             \/ \E v \in Versions, d \in Digests : Prepare(v, d)
             \/ \E d \in Digests : Install(d)
             \/ \E v \in Versions : EndWork(v)
             \/ Recover
      PROVE  UNCHANGED <<version, item, claim>> /\ disk \subseteq disk'
  BY <1>5 DEF Freeze, Prepare, Install, EndWork, Recover, catalog, intents
<1>6. ASSUME Reading PROVE UNCHANGED <<version, item, claim>> /\ disk \subseteq disk'
  BY <1>6 DEF Reading, Tick, AcquireVersion, AcquireArtifact, Grant, Renew, Release, Adopt, Lookup,
              SetPin, Unpin, catalog, intents
<1>7. ASSUME \/ GcStart \/ GcStop \/ GcRetire \/ GcPurge
             \/ \E d \in Digests : GcResume(d)
      PROVE  BytesThere'
  <2>1. UNCHANGED <<version, item, claim>> /\ disk \ disk' \subseteq Claimed
    BY <1>7, GcWalkTyped DEF catalog, intents
  <2>2. \A d \in Claimed : claim[d] # None
    BY DEF DInv, Intents, IntentExact, Claimed
  <2> QED BY <2>1, <2>2 DEF BytesThere, Published, Digest
<1>8. ASSUME NEW d \in Digests, GcObserve(d) PROVE BytesThere'
  <2>1. UNCHANGED <<version, claim, disk>>
    BY <1>8, Observed
  <2> QED BY <1>0, <1>8, <2>1, Observed DEF BytesThere, Published, Digest
<1>9. ASSUME NEW d \in Digests, GcBegin(d) PROVE BytesThere'
  <2>1. UNCHANGED <<version, disk>>
    BY <1>9, Begun DEF catalog
  <2> QED BY <1>0, <1>9, <2>1, Begun DEF BytesThere, Published, Digest
<1>10. ASSUME GcFinish PROVE BytesThere'
  <2>1. UNCHANGED <<version, disk>>
    BY <1>10, Completed DEF catalog
  <2> QED BY <1>0, <1>10, <2>1, Completed DEF BytesThere, Published, Digest
<1>11. ASSUME UNCHANGED vars PROVE UNCHANGED <<version, item, claim>> /\ disk \subseteq disk'
  BY <1>11 DEF vars, catalog, intents
<1>12. CASE Publishing
  BY <1>2, <1>3, <1>4, <1>5, <1>12 DEF Publishing
<1>13. CASE Collecting
  BY <1>7, <1>8, <1>9, <1>10, <1>13 DEF Collecting
<1> QED BY <1>4, <1>6, <1>11, <1>12, <1>13 DEF Next

----------------------------------------------------------------------------
(* Roots: what each step adds to what must stay.                            *)

Recent == {v \in Published : version[v].at + Age >= floor}
LeaseVersions == {lease[l].version : l \in {k \in Leases : LiveLease(k) /\ lease[k].version # None}}
LeaseDigests == {lease[l].digest : l \in {k \in Leases : LiveLease(k)}}
PinVersions == {pin[p].version : p \in {q \in Pins : LivePin(q) /\ pin[q].version # None}}
PinDigests == {pin[p].digest : p \in {q \in Pins : LivePin(q)}}
WorkInputs == UNION {work[v].inputs : v \in Running}
WorkDigests == {work[v].digest : v \in Prepared}

LEMMA Parts ==
    /\ Needed = Recent \cup Window \cup LeaseVersions \cup PinVersions \cup WorkInputs
    /\ Held = LeaseDigests \cup PinDigests \cup WorkDigests
BY DEF Needed, Held, Recent, LeaseVersions, PinVersions, WorkInputs, LeaseDigests, PinDigests, WorkDigests

LEMMA PartsStep ==
    /\ Needed' = Recent' \cup Window' \cup LeaseVersions' \cup PinVersions' \cup WorkInputs'
    /\ Held' = LeaseDigests' \cup PinDigests' \cup WorkDigests'
BY DEF Needed, Held, Recent, LeaseVersions, PinVersions, WorkInputs, LeaseDigests, PinDigests, WorkDigests

LEMMA PartsKept ==
    /\ UNCHANGED <<floor, version>> => Recent' = Recent
    /\ UNCHANGED history => Window' = Window
    /\ UNCHANGED <<floor, lease>> => LeaseVersions' = LeaseVersions /\ LeaseDigests' = LeaseDigests
    /\ UNCHANGED <<floor, pin>> => PinVersions' = PinVersions /\ PinDigests' = PinDigests
    /\ UNCHANGED work => WorkInputs' = WorkInputs /\ WorkDigests' = WorkDigests
BY DEF Recent, Published, Window, LeaseVersions, LeaseDigests, LiveLease, PinVersions, PinDigests,
       LivePin, WorkInputs, WorkDigests, Running, Prepared

\* A step that writes no bytes, and adds only what is available to what must stay.
LEMMA RootsGrow ==
    ASSUME IInv, UNCHANGED <<version, item, claim>>, disk \subseteq disk',
           \A v \in Needed' \ Needed : v \in Published /\ VersionAvailable(v),
           \A d \in Held' \ Held : claim[d] = None
    PROVE  RootsKept'
<1> DEFINE B == Needed' \ Needed
<1> DEFINE S == Retained \cup UNION {Lineage({v}) : v \in B}
<1>1. TypeOK /\ Closed /\ BytesThere /\ RootsKept
  BY DEF IInv, DInv
<1>2. Published' = Published /\ \A v \in Published : Digest(v)' = Digest(v)
  BY DEF Published, Digest
<1>3. S \subseteq Published
  BY LineageBase DEF Retained
<1>4. Needed \subseteq Retained
  BY <1>1, NeededPublished, LineageBase DEF Retained
<1>5. \A v \in B : v \in Lineage({v})
  BY LineageBase
<1>6. Needed' \subseteq S
  BY <1>4, <1>5
<1>7. \A w \in S : version[w].inputs \subseteq S
  <2>1. \A w \in Retained : version[w].inputs \subseteq Retained
    BY <1>1, LineageClosed DEF Retained
  <2>2. \A v \in B : \A w \in Lineage({v}) : version[w].inputs \subseteq Lineage({v})
    BY <1>1, LineageClosed
  <2> QED BY <2>1, <2>2
<1>8. \A w \in S : /\ Digest(w) \in disk /\ claim[Digest(w)] = None
                   /\ item[Digest(w)].state # "DELETED"
  <2>1. \A w \in Retained : /\ Digest(w) \in disk /\ claim[Digest(w)] = None
                            /\ item[Digest(w)].state # "DELETED"
    BY <1>1 DEF RootsKept, Roots
  <2>2. ASSUME NEW v \in B, NEW w \in Lineage({v})
        PROVE  /\ Digest(w) \in disk /\ claim[Digest(w)] = None
               /\ item[Digest(w)].state # "DELETED"
    BY <1>1, AvailableOnDisk
  <2> QED BY <2>1, <2>2
<1>9. \A w \in S : version'[w].inputs \subseteq S
  BY <1>7
<1>10. S \in SUBSET Published'
  BY <1>2, <1>3
<1> HIDE DEF S
<1>11. Retained' \subseteq S
  BY <1>6, <1>9, <1>10, RetainedLeast
<1>12. \A d \in Held' : claim[d] = None
  BY <1>1 DEF RootsKept, Roots
<1>13. \A v \in Retained' : /\ Digest(v)' \in disk' /\ claim'[Digest(v)'] = None
                            /\ item'[Digest(v)'].state # "DELETED"
  BY <1>2, <1>3, <1>8, <1>11
<1> QED BY <1>12, <1>13 DEF RootsKept, Roots

\* A publication adds its version, whose inputs were needed by its job.
LEMMA RootsPublish ==
    ASSUME IInv, NEW v \in Versions, NEW d \in Digests, NEW i \in SUBSET Published,
           Wrote(v, d, i), version[v] = None, i \subseteq Needed,
           Needed' \subseteq Needed \cup {v}, Held' \subseteq Held \cup {d}
    PROVE  RootsKept'
<1> DEFINE S == Retained \cup {v}
<1>1. TypeOK /\ Closed /\ RootsKept
  BY DEF IInv, DInv
<1>2. Retained \subseteq Published /\ v \notin Retained
  BY LineageBase DEF Retained, Published
<1>3. \A w \in Retained : version'[w] = version[w] /\ Digest(w)' = Digest(w)
  BY <1>2 DEF Wrote, Digest, Published
<1>4. Needed \subseteq Retained
  BY <1>1, NeededPublished, LineageBase DEF Retained
<1>5. \A w \in S : version'[w].inputs \subseteq S
  <2>1. \A w \in Retained : version[w].inputs \subseteq Retained
    BY <1>1, LineageClosed DEF Retained
  <2>2. version'[v].inputs = i
    BY DEF Wrote
  <2> QED BY <1>3, <1>4, <2>1, <2>2
<1>6. S \in SUBSET Published' /\ Needed' \subseteq S
  BY <1>2, <1>4 DEF Wrote
<1>7. Retained' \subseteq S
  BY <1>5, <1>6, RetainedLeast
<1>8. \A w \in Retained : /\ Digest(w) \in disk /\ claim[Digest(w)] = None
                          /\ item[Digest(w)].state # "DELETED" /\ Digest(w) \in Digests
  BY <1>1, <1>2 DEF RootsKept, Roots, Published, Digest, TypeOK, VersionRow
<1>9. \A e \in Digests : item[e].state # "DELETED" => item'[e].state # "DELETED"
  BY DEF Wrote
<1>10. \A w \in S : /\ Digest(w)' \in disk' /\ claim'[Digest(w)'] = None
                    /\ item'[Digest(w)'].state # "DELETED"
  <2>1. ASSUME NEW w \in Retained
        PROVE  /\ Digest(w)' \in disk' /\ claim'[Digest(w)'] = None
               /\ item'[Digest(w)'].state # "DELETED"
    BY <1>3, <1>8, <1>9 DEF Wrote
  <2>2. /\ Digest(v)' \in disk' /\ claim'[Digest(v)'] = None
        /\ item'[Digest(v)'].state # "DELETED"
    BY DEF Wrote
  <2> QED BY <2>1, <2>2
<1>11. \A e \in Held' : claim'[e] = None
  BY <1>1 DEF RootsKept, Roots, Wrote
<1> HIDE DEF S
<1> QED BY <1>7, <1>10, <1>11 DEF RootsKept, Roots

\* A collection leaves what must stay as it is.
LEMMA RootsSame ==
    ASSUME UNCHANGED <<floor, version, history, work, lease, pin>>
    PROVE  /\ Retained' = Retained /\ Roots' = Roots
           /\ \A v \in Published : Digest(v)' = Digest(v)
<1>1. Needed' = Needed /\ Held' = Held
  BY Parts, PartsStep, PartsKept
<1>2. Published' = Published /\ \A v \in Published : Digest(v)' = Digest(v)
  BY DEF Published, Digest
<1>3. Retained' = Retained
  BY <1>1, <1>2 DEF Retained, Lineage
<1>4. \A v \in Retained : v \in Published
  BY LineageBase DEF Retained
<1>5. {Digest(v)' : v \in Retained} = {Digest(v) : v \in Retained}
  BY <1>2, <1>4
<1> QED BY <1>1, <1>2, <1>3, <1>5 DEF Roots

\* Steps that write the table of jobs.
LEMMA WorkRoots ==
    ASSUME IInv, UNCHANGED <<floor, version, history, reads, intents, disk>>,
           \A u \in WorkInputs' \ WorkInputs : u \in Published /\ VersionAvailable(u),
           \A d \in WorkDigests' \ WorkDigests : claim[d] = None
    PROVE  RootsKept'
<1>1. UNCHANGED <<lease, pin, item, claim>>
  BY DEF reads, intents
<1>2. Needed' \ Needed \subseteq WorkInputs' \ WorkInputs /\ Held' \ Held \subseteq WorkDigests' \ WorkDigests
  BY <1>1, Parts, PartsStep, PartsKept
<1> QED BY <1>1, <1>2, RootsGrow

LEMMA PublishingRoots ==
    ASSUME IInv, Publishing
    PROVE  RootsKept'
<1>0. DInv /\ TypeOK
  BY DEF IInv, DInv
<1>1. ASSUME NEW v \in Versions, NEW t \in Targets, NEW k \in Keys, NEW i \in SUBSET Published,
             Freeze(v, t, k, i)
      PROVE  RootsKept'
  <2>1. UNCHANGED <<floor, version, history, reads, intents, disk>> /\ \A u \in i : VersionAvailable(u)
    BY <1>1 DEF Freeze
  <2> DEFINE r == [phase |-> "frozen", target |-> t, key |-> k, inputs |-> i, digest |-> None]
  <2>2. work' = [work EXCEPT ![v] = r] /\ r.phase = "frozen" /\ r.inputs = i
    BY <1>1 DEF Freeze
  <2> HIDE DEF r
  <2>3. work'[v] = r /\ \A w \in Versions : w # v => work'[w] = work[w]
    BY <1>0, <2>2 DEF TypeOK
  <2>4. WorkInputs' \subseteq WorkInputs \cup i
    BY <2>2, <2>3 DEF WorkInputs, Running
  <2>5. WorkDigests' \subseteq WorkDigests
    BY <2>2, <2>3 DEF WorkDigests, Prepared
  <2> QED BY <2>1, <2>4, <2>5, WorkRoots
<1>2. ASSUME NEW v \in Versions, NEW d \in Digests, Prepare(v, d)
      PROVE  RootsKept'
  <2>1. UNCHANGED <<floor, version, history, reads, intents, disk>> /\ claim[d] = None
    BY <1>2 DEF Prepare
  <2> DEFINE r == [work[v] EXCEPT !.phase = "prepared", !.digest = d]
  <2>2. work[v] \in WorkRow /\ v \in Running
    BY <1>0, <1>2 DEF Prepare, Running, TypeOK
  <2>3. r.digest = d /\ r.inputs = work[v].inputs
    BY <2>2 DEF WorkRow
  <2>4. work' = [work EXCEPT ![v] = r]
    BY <1>2 DEF Prepare
  <2> HIDE DEF r
  <2>5. work'[v] = r /\ \A w \in Versions : w # v => work'[w] = work[w]
    BY <1>0, <2>4 DEF TypeOK
  <2>6. WorkInputs' \subseteq WorkInputs
    BY <2>2, <2>3, <2>5 DEF WorkInputs, Running
  <2>7. WorkDigests' \subseteq WorkDigests \cup {d}
    BY <2>3, <2>5 DEF WorkDigests, Prepared
  <2> QED BY <2>1, <2>6, <2>7, WorkRoots
<1>3. ASSUME NEW v \in Versions, EndWork(v) PROVE RootsKept'
  <2>1. UNCHANGED <<floor, version, history, reads, intents, disk>>
    BY <1>3 DEF EndWork
  <2> DEFINE r == [work[v] EXCEPT !.phase = IF work[v].phase = "frozen" THEN "over" ELSE "lapsed"]
  <2>2. work[v] \in WorkRow /\ v \in Running
    BY <1>0, <1>3 DEF EndWork, Running, TypeOK
  <2>3. r.digest = work[v].digest /\ r.inputs = work[v].inputs /\ r.phase \in {"over", "lapsed"}
        /\ (r.phase = "lapsed" => v \in Prepared)
    BY <2>2 DEF WorkRow, Running, Prepared
  <2>4. work' = [work EXCEPT ![v] = r]
    BY <1>3 DEF EndWork
  <2> HIDE DEF r
  <2>5. work'[v] = r /\ \A w \in Versions : w # v => work'[w] = work[w]
    BY <1>0, <2>4 DEF TypeOK
  <2>6. WorkInputs' \subseteq WorkInputs
    BY <2>2, <2>3, <2>5 DEF WorkInputs, Running
  <2>7. WorkDigests' \subseteq WorkDigests
    BY <2>3, <2>5 DEF WorkDigests, Prepared
  <2> QED BY <2>1, <2>6, <2>7, WorkRoots
<1>4. ASSUME Recover PROVE RootsKept'
  <2>1. UNCHANGED <<floor, version, history, reads, intents, disk>>
    BY <1>4 DEF Recover
  <2>2. WorkInputs' \subseteq WorkInputs /\ WorkDigests' \subseteq WorkDigests
    BY <1>0, <1>4, RecoverRows DEF WorkInputs, WorkDigests
  <2> QED BY <2>1, <2>2, WorkRoots
<1>5. ASSUME NEW d \in Digests, Install(d) PROVE RootsKept'
  <2>1. UNCHANGED <<floor, version, history, work, lease, pin, item, claim>> /\ disk \subseteq disk'
    BY <1>5 DEF Install, catalog, reads, intents
  <2>2. Needed' \subseteq Needed /\ Held' \subseteq Held
    BY <2>1, Parts, PartsStep, PartsKept
  <2> QED BY <2>1, <2>2, RootsGrow
<1>6. ASSUME NEW v \in Versions, NEW d \in Digests, NEW i \in SUBSET Published, Wrote(v, d, i),
             WorkInputs' \subseteq WorkInputs, WorkDigests' \subseteq WorkDigests
      PROVE  Needed' \subseteq Needed \cup {v} /\ Held' \subseteq Held \cup {d}
  <2>1. UNCHANGED <<floor, lease, pin>> /\ Window' \subseteq Window \cup {v}
    BY <1>6 DEF Wrote, reads
  <2>2. Recent' \subseteq Recent \cup {v}
    BY <1>6 DEF Wrote, Recent, Published
  <2> QED BY <1>6, <2>1, <2>2, Parts, PartsStep, PartsKept
<1>7. ASSUME NEW v \in Versions, NEW at \in Stamps, Commit(v, at) PROVE RootsKept'
  <2>1. Wrote(v, work[v].digest, work[v].inputs)
    BY <1>0, <1>7, CommitWrites
  <2>2. /\ v \in Running /\ version[v] = None /\ work[v].digest \in Digests
        /\ work[v].inputs \subseteq Published
        /\ Running' \subseteq Running /\ Prepared' \subseteq Prepared
        /\ \A w \in Versions : work'[w] # None =>
                work'[w].inputs = work[w].inputs /\ work'[w].digest = work[w].digest
    BY <1>0, <1>7, CommitRows
  <2>3. WorkInputs' \subseteq WorkInputs /\ WorkDigests' \subseteq WorkDigests
    BY <2>2 DEF WorkInputs, WorkDigests, Running, Prepared
  <2>4. work[v].inputs \subseteq Needed
    BY <2>2, Parts DEF WorkInputs
  <2> QED BY <1>6, <2>1, <2>2, <2>3, <2>4, RootsPublish
<1>8. ASSUME NEW v \in Versions, NEW t \in Targets, NEW d \in Digests, NEW at \in Stamps,
             CommitImport(v, t, d, at)
      PROVE  RootsKept'
  <2>1. Wrote(v, d, {})
    BY <1>0, <1>8, ImportWrites
  <2>2. version[v] = None /\ UNCHANGED work
    BY <1>8 DEF CommitImport
  <2>3. WorkInputs' \subseteq WorkInputs /\ WorkDigests' \subseteq WorkDigests
    BY <2>2, PartsKept
  <2> QED BY <1>6, <2>1, <2>2, <2>3, RootsPublish
<1> QED BY <1>1, <1>2, <1>3, <1>4, <1>5, <1>7, <1>8 DEF Publishing

LEMMA ReadingRoots ==
    ASSUME IInv, Reading
    PROVE  RootsKept'
<1>0. DInv /\ TypeOK /\ Told
  BY DEF IInv, DInv
<1>1. ASSUME Tick PROVE RootsKept'
  <2>1. UNCHANGED <<version, history, work, lease, pin, item, claim, disk>> /\ floor' = floor + 1
    BY <1>1 DEF Tick, catalog, reads, intents
  <2>2. floor \in Nat /\ Age \in Nat /\ Time \subseteq Nat
    BY <1>0, Writable, PolicyAssumption DEF TypeOK
  <2>3. Recent' \subseteq Recent
    <3>1. \A v \in Published : version[v].at \in Nat
      BY <1>0, <2>2 DEF TypeOK, Published, VersionRow
    <3> QED BY <2>1, <2>2, <3>1 DEF Recent, Published
  <2>4. \A l \in Leases : LiveLease(l)' => LiveLease(l)
    BY <1>0, <2>1, <2>2 DEF LiveLease, TypeOK, LeaseRow
  <2>5. \A p \in Pins : LivePin(p)' => LivePin(p)
    <3>1. \A p \in Pins : pin[p] # None => pin[p].expires \in Nat
      BY <1>0, <2>2 DEF TypeOK, PinRow
    <3> QED BY <2>1, <2>2, <3>1 DEF LivePin
  <2>6. LeaseVersions' \subseteq LeaseVersions /\ LeaseDigests' \subseteq LeaseDigests
    BY <2>1, <2>4 DEF LeaseVersions, LeaseDigests
  <2>7. PinVersions' \subseteq PinVersions /\ PinDigests' \subseteq PinDigests
    BY <2>1, <2>5 DEF PinVersions, PinDigests
  <2>8. Needed' \subseteq Needed /\ Held' \subseteq Held
    BY <2>1, <2>3, <2>6, <2>7, Parts, PartsStep, PartsKept
  <2> QED BY <2>1, <2>8, RootsGrow
<1>2. ASSUME UNCHANGED <<floor, catalog, pin, intents, disk>>,
             \A v \in LeaseVersions' \ LeaseVersions : v \in Published /\ VersionAvailable(v),
             \A d \in LeaseDigests' \ LeaseDigests : claim[d] = None
      PROVE  RootsKept'
  <2>1. UNCHANGED <<version, history, work, item, claim>>
    BY <1>2 DEF catalog, intents
  <2>2. Needed' \ Needed \subseteq LeaseVersions' \ LeaseVersions /\ Held' \ Held \subseteq LeaseDigests' \ LeaseDigests
    BY <1>2, <2>1, Parts, PartsStep, PartsKept
  <2> QED BY <1>2, <2>1, <2>2, RootsGrow
<1>3. ASSUME NEW l \in Leases, NEW v \in Published \cup {None}, NEW d \in Digests, Grants(l, v, d)
      PROVE  RootsKept'
  <2> DEFINE B == IF v = None THEN {} ELSE {v}
  <2>1. /\ lease'[l].version = v /\ lease'[l].digest = d
        /\ \A k \in Leases : k # l => lease'[k] = lease[k]
        /\ UNCHANGED <<floor, catalog, pin, intents, disk>>
    BY <1>0, <1>3, Granted DEF Grants
  <2>2. \A k \in Leases : k # l => (LiveLease(k)' <=> LiveLease(k))
    BY <2>1 DEF LiveLease
  <2>3. LeaseVersions' \subseteq LeaseVersions \cup B /\ LeaseDigests' \subseteq LeaseDigests \cup {d}
    BY <2>1, <2>2 DEF LeaseVersions, LeaseDigests
  <2>4. B \in SUBSET Published /\ (\A u \in B : VersionAvailable(u)) /\ claim[d] = None
    BY <1>3 DEF Grants, Available
  <2> HIDE DEF B
  <2> QED BY <1>2, <2>1, <2>3, <2>4
<1>4. ASSUME NEW l \in Leases, NEW v \in Versions, AcquireVersion(l, v) PROVE RootsKept'
  BY <1>0, <1>3, <1>4, GrantCases
<1>5. ASSUME NEW l \in Leases, NEW d \in Digests, AcquireArtifact(l, d) PROVE RootsKept'
  BY <1>0, <1>3, <1>5, GrantCases
<1>6. ASSUME NEW l \in Leases, NEW t \in Targets, NEW k \in Keys, Lookup(l, t, k) PROVE RootsKept'
  BY <1>0, <1>3, <1>6, GrantCases
<1>7. ASSUME NEW l \in Leases, NEW b \in BOOLEAN, Renew(l, b) PROVE RootsKept'
  <2>1. /\ LiveLease(l) /\ lease'[l].version = lease[l].version /\ lease'[l].digest = lease[l].digest
        /\ \A k \in Leases : k # l => lease'[k] = lease[k]
        /\ UNCHANGED <<floor, catalog, pin, intents, disk>>
    BY <1>0, <1>7, Renewed
  <2>2. \A k \in Leases : LiveLease(k)' => LiveLease(k)
    BY <2>1 DEF LiveLease
  <2>3. LeaseVersions' \subseteq LeaseVersions /\ LeaseDigests' \subseteq LeaseDigests
    BY <2>1, <2>2 DEF LeaseVersions, LeaseDigests
  <2> QED BY <1>2, <2>1, <2>3
<1>8. ASSUME NEW l \in Leases, Release(l) PROVE RootsKept'
  <2>1. /\ lease'[l].released /\ \A k \in Leases : k # l => lease'[k] = lease[k]
        /\ UNCHANGED <<floor, catalog, pin, intents, disk>>
    BY <1>0, <1>8, Released
  <2>2. \A k \in Leases : LiveLease(k)' => k # l /\ LiveLease(k)
    BY <2>1 DEF LiveLease
  <2>3. LeaseVersions' \subseteq LeaseVersions /\ LeaseDigests' \subseteq LeaseDigests
    BY <2>1, <2>2 DEF LeaseVersions, LeaseDigests
  <2> QED BY <1>2, <2>1, <2>3
<1>9. ASSUME UNCHANGED <<floor, catalog, lease, intents, disk>>,
             \A v \in PinVersions' \ PinVersions : v \in Published /\ VersionAvailable(v),
             \A d \in PinDigests' \ PinDigests : claim[d] = None
      PROVE  RootsKept'
  <2>1. UNCHANGED <<version, history, work, item, claim>>
    BY <1>9 DEF catalog, intents
  <2>2. Needed' \ Needed \subseteq PinVersions' \ PinVersions /\ Held' \ Held \subseteq PinDigests' \ PinDigests
    BY <1>9, <2>1, Parts, PartsStep, PartsKept
  <2> QED BY <1>9, <2>1, <2>2, RootsGrow
<1>10. ASSUME NEW p \in Pins, NEW v \in Versions \cup {None}, NEW d \in Digests, NEW until \in Time,
              SetPin(p, v, d, until)
       PROVE  RootsKept'
  <2> DEFINE B == IF v = None THEN {} ELSE {v}
  <2>1. /\ pin'[p].version = v /\ pin'[p].digest = d /\ Available(d)
        /\ v # None => v \in Published /\ VersionAvailable(v)
        /\ \A q \in Pins : q # p => pin'[q] = pin[q]
        /\ UNCHANGED <<floor, catalog, lease, intents, disk>>
    BY <1>0, <1>10, Pinned
  <2>2. \A q \in Pins : q # p => (LivePin(q)' <=> LivePin(q))
    BY <2>1 DEF LivePin
  <2>3. PinVersions' \subseteq PinVersions \cup B /\ PinDigests' \subseteq PinDigests \cup {d}
    BY <2>1, <2>2 DEF PinVersions, PinDigests
  <2>4. B \in SUBSET Published /\ (\A u \in B : VersionAvailable(u)) /\ claim[d] = None
    BY <2>1 DEF Available
  <2> HIDE DEF B
  <2> QED BY <1>9, <2>1, <2>3, <2>4
<1>11. ASSUME NEW p \in Pins, Unpin(p) PROVE RootsKept'
  <2>1. UNCHANGED <<floor, catalog, lease, intents, disk>>
    BY <1>11 DEF Unpin
  <2>2. \A q \in Pins : LivePin(q)' => q # p /\ pin'[q] = pin[q] /\ LivePin(q)
    BY <1>0, <1>11, <2>1, UnpinTyped DEF LivePin
  <2>3. PinVersions' \subseteq PinVersions /\ PinDigests' \subseteq PinDigests
    BY <2>2 DEF PinVersions, PinDigests
  <2> QED BY <1>9, <2>1, <2>3
<1>12. ASSUME NEW l \in Leases, Adopt(l) PROVE RootsKept'
  <2> DEFINE v == lease[l].version
  <2>1. /\ v \in Published /\ VersionAvailable(v) /\ Window' \subseteq Window \cup {v}
        /\ UNCHANGED <<floor, version, work, reads, intents, disk>>
    BY <1>0, <1>12, AdoptTyped
  <2>2. UNCHANGED <<lease, pin, item, claim>>
    BY <2>1 DEF reads, intents
  <2>3. Needed' \subseteq Needed \cup {v} /\ Held' \subseteq Held
    BY <2>1, <2>2, Parts, PartsStep, PartsKept
  <2> HIDE DEF v
  <2> QED BY <2>1, <2>2, <2>3, RootsGrow
<1> QED BY <1>1, <1>4, <1>5, <1>6, <1>7, <1>8, <1>10, <1>11, <1>12 DEF Reading

\* A collection takes bytes, and expires digests, only under a claim, and no
\* root has one.
LEMMA CollectingRoots ==
    ASSUME IInv, Collecting
    PROVE  RootsKept'
<1>0. DInv /\ TypeOK /\ RootsKept /\ \A d \in Claimed : d \notin Roots
  BY DEF IInv, DInv, RootsKept, Intents, IntentExact, Claimed
<1>1. \A v \in Retained : Digest(v) \in Digests /\ Digest(v) \in Roots
  BY <1>0, LineageBase DEF Retained, Published, Digest, TypeOK, VersionRow, Roots
<1>2. UNCHANGED <<floor, version, history, work, lease, pin>>
  BY DEF Collecting, GcStart, GcStop, GcRetire, GcPurge, GcFinish, GcObserve, GcBegin, GcResume,
         catalog, reads
<1>3. /\ Retained' = Retained /\ Roots' = Roots /\ Retained \subseteq Published
      /\ \A v \in Retained : Digest(v)' = Digest(v)
  BY <1>2, RootsSame, LineageBase DEF Retained
<1>4. SUFFICES /\ \A d \in Roots : claim[d] = None => claim'[d] = None
               /\ \A v \in Retained : /\ Digest(v) \in disk'
                                      /\ item'[Digest(v)].state # "DELETED"
  BY <1>0, <1>3 DEF RootsKept
<1>5. CASE \/ GcStart \/ GcStop \/ GcRetire \/ GcPurge
           \/ \E d \in Digests : GcResume(d)
  <2>1. UNCHANGED <<item, claim>> /\ disk \ disk' \subseteq Claimed
    BY <1>0, <1>5, GcWalkTyped DEF intents
  <2> QED BY <1>0, <1>1, <2>1 DEF RootsKept
<1>6. ASSUME NEW d \in Digests, GcObserve(d)
      PROVE  UNCHANGED <<claim, disk>> /\ \A e \in Digests : item'[e].state = "DELETED" => item[e].state = "DELETED"
  BY <1>0, <1>6, Observed
<1>7. ASSUME NEW d \in Digests, GcBegin(d)
      PROVE  /\ UNCHANGED disk /\ d \notin Roots
             /\ \A e \in Digests : e # d => claim'[e] = claim[e] /\ item'[e] = item[e]
  BY <1>0, <1>7, Begun
<1>8. ASSUME GcFinish
      PROVE  /\ UNCHANGED disk /\ gc.digest \notin Roots
             /\ \A e \in Digests : e # gc.digest => claim'[e] = claim[e] /\ item'[e] = item[e]
  BY <1>0, <1>8, Completed
<1>9. Held \subseteq Digests /\ Roots \subseteq Digests
  <2>1. LeaseDigests \subseteq Digests
    BY <1>0 DEF LeaseDigests, LiveLease, TypeOK, LeaseRow
  <2>2. PinDigests \subseteq Digests
    BY <1>0 DEF PinDigests, LivePin, TypeOK, PinRow
  <2>3. WorkDigests \subseteq Digests
    BY <1>0 DEF WorkDigests, DInv, Closed
  <2> QED BY <1>1, <2>1, <2>2, <2>3, Parts DEF Roots
<1>10. CASE \E d \in Digests : GcObserve(d)
  BY <1>0, <1>1, <1>6, <1>10 DEF RootsKept
<1>11. CASE \E d \in Digests : GcBegin(d)
  BY <1>0, <1>1, <1>7, <1>9, <1>11 DEF RootsKept
<1>12. CASE GcFinish
  BY <1>0, <1>1, <1>8, <1>9, <1>12 DEF RootsKept
<1> QED BY <1>5, <1>10, <1>11, <1>12 DEF Collecting

\* The invariant is inductive.
LEMMA IInvHolds == Spec => []IInv
<1>1. Init => IInv
  <2> SUFFICES ASSUME Init PROVE IInv
    OBVIOUS
  <2>1. Published = {} /\ Prepared = {}
    BY DEF Init, Published, Prepared
  <2>2. Retained = {} /\ \A d : claim[d] = None \/ d \notin Digests
    BY <2>1, LineageBase DEF Init, Retained
  <2>3. Held = {}
    BY <2>1, Parts DEF Init, LeaseDigests, LiveLease, PinDigests, LivePin, WorkDigests
  <2>4. RootsKept
    BY <2>2, <2>3 DEF RootsKept, Roots
  <2> QED BY <2>1, <2>4, DInvInit DEF IInv, Init, BytesThere, Told
<1>2. IInv /\ [Next]_vars => IInv'
  <2> SUFFICES ASSUME IInv, [Next]_vars PROVE RootsKept'
    BY DInvStep, ToldStep, BytesStep DEF IInv
  <2>1. CASE UNCHANGED vars
    <3>1. UNCHANGED <<floor, version, history, work, lease, pin, item, claim, disk>>
      BY <2>1 DEF vars, catalog, reads, intents
    <3>2. Retained' = Retained /\ Roots' = Roots /\ \A v \in Retained : Digest(v)' = Digest(v)
      BY <3>1, RootsSame, LineageBase DEF Retained
    <3> QED BY <3>1, <3>2 DEF IInv, RootsKept
  <2> QED BY <2>1, PublishingRoots, ReadingRoots, CollectingRoots DEF Next
<1> QED BY <1>1, <1>2, PTL DEF Spec

\* What must stay stays: no collection claims, expires or removes the bytes of
\* a reachable version or of its inputs, whatever else it is interrupted by.
THEOREM RootsStay == Spec => []RootsKept
<1>1. IInv => RootsKept
  BY DEF IInv
<1> QED BY <1>1, IInvHolds, PTL

\* Whoever was told of an expiry the clock has not reached can read the bytes of
\* the version it leased and of its inputs.
THEOREM ReadersProtected == Spec => []ReaderProtected
<1>1. IInv => ReaderProtected
  <2> SUFFICES ASSUME IInv, NEW l \in Leases, ticket[l] # None, ticket[l].expires > floor,
                      lease[l].version # None, NEW v \in Lineage({lease[l].version})
               PROVE  Digest(v) \in disk
    BY DEF ReaderProtected
  <2>1. lease[l] # None /\ ~lease[l].released /\ lease[l].expires \in Nat /\ ticket[l].expires \in Nat
        /\ floor \in Nat /\ ticket[l].expires <= lease[l].expires
    BY Writable DEF IInv, DInv, TypeOK, Told, LeaseRow, TicketRow
  <2>2. LiveLease(l)
    BY <2>1 DEF LiveLease
  <2>3. lease[l].version \in Needed
    BY <2>2, Parts DEF LeaseVersions
  <2>4. v \in Retained
    BY <2>3, LineageMonotone DEF Retained
  <2> QED BY <2>4 DEF IInv, RootsKept
<1> QED BY <1>1, IInvHolds, PTL
=============================================================================
