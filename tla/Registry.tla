------------------------------ MODULE Registry ------------------------------
(***************************************************************************)
(* Registering datasets (transflow/reconcile.rs, catalog.rs, import.rs,    *)
(* preparation.rs, tf-catalog/registry_write.rs, candidate.rs,             *)
(* tf-store/catalog_mutations.rs), composed with Planning.                 *)
(*                                                                         *)
(* The catalogue is a file the author also edits, without any lock.  A     *)
(* command that adds or moves identities journals the exact old and new    *)
(* contents in the database, replaces the file by a rename, and indexes    *)
(* the new identities; after a crash, whatever the file holds decides      *)
(* which of the two happened.  Acceptance of a plan runs the same pipeline *)
(* with the identities its draft kept, so a draft is good for one content  *)
(* of the catalogue, or for the one it would make of it.                   *)
(***************************************************************************)
EXTENDS Planning

CONSTANTS
    Paths,       \* dataset paths
    Ids          \* bound: identities allocated in a behaviour, 1..Ids

ASSUME IdsAssumption == Ids \in Nat

VARIABLES
    source,      \* paths the author's code declares
    file,        \* .transflow/catalog.toml: identities by path, and the rest of its bytes
    edits,       \* deliberate changes of it so far: by hand, or by catalog rename
    journal,     \* the catalog_mutations row in state PREPARED or REPLACED
    known,       \* datasets
    minted,      \* identities allocated so far
    frozen,      \* frozen[p]: source and catalogue a draft was made from, and its replacement
    op,          \* the registry pipeline under way, in memory
    started      \* the session has finished its recovery
registry == <<source, file, edits, journal, known, minted, frozen, op, started>>
rvars == <<vars, registry>>

Registered(f) == {x \in Paths : f.ids[x] # 0}
IdsOf(f) == {f.ids[x] : x \in Registered(f)}

(* RegistrySnapshot::parse: no identity is claimed twice.  A workspace loads
   only when its catalogue parses. *)
Parses(f) == \A x, y \in Registered(f) : f.ids[x] = f.ids[y] => x = y
Loads == Parses(file)

RInit ==
    /\ Init
    /\ source = site.source0 /\ file = [ids |-> site.ids, note |-> 0]
    /\ known = IdsOf(file) /\ minted = Cardinality(known) /\ edits = 0
    /\ journal = None /\ op = None /\ started = TRUE
    /\ frozen = [p \in Plans |-> None]

-----------------------------------------------------------------------------
(* The author. *)

AuthorSource(s) ==
    /\ s # source /\ source' = s
    /\ UNCHANGED <<vars, file, edits, journal, known, minted, frozen, op, started>>

(* Drop an entry, copy another one with its identity, or touch the file. *)
AuthorFile(x) ==
    /\ edits < site.edits /\ edits' = edits + 1
    /\ \/ file' = [file EXCEPT !.note = @ + 1]
       \/ x \in Registered(file) /\ file' = [file EXCEPT !.ids[x] = 0]
       \/ \E id \in IdsOf(file) : x \notin Registered(file) /\ file' = [file EXCEPT !.ids[x] = id]
    /\ UNCHANGED <<vars, source, journal, known, minted, frozen, op, started>>

-----------------------------------------------------------------------------
(* Proposals (tf-catalog/candidate.rs). *)

(* f with a fresh identity for each path of xs that has none. *)
Additions(f, xs) ==
    LET new == SetToSeq(xs \ Registered(f))
        place(x) == CHOOSE k \in DOMAIN new : new[k] = x
    IN [f EXCEPT !.ids = [x \in Paths |-> IF x \in ToSet(new) THEN minted + place(x) ELSE @[x]]]
Fresh(f, xs) ==
    /\ minted' = minted + Cardinality(xs \ Registered(f))
    /\ minted' <= Ids

Moved(f, x, y) == [f EXCEPT !.ids = [@ EXCEPT ![x] = 0, ![y] = f.ids[x]]]

(* lifecycle_blockers: an active build or a live lease. *)
Blocked ==
    \/ \E p \in Plans : build[p] # None /\ build[p].state # "ENDED"
    \/ \E l \in lease : l.until > now

-----------------------------------------------------------------------------
(* Recovery of the journal: the content of the file decides. *)

(* pending_catalog_mutations: at most one row. *)
Pending == journal # None
Recovered == ~Pending \/ file \in {journal.old, journal.new}
Resolve ==
    /\ journal' = None
    /\ known' = known \cup (IF Pending /\ file = journal.new THEN IdsOf(journal.new) ELSE {})

(* Startup of a session, before it takes any command.  A conflict is recorded
   and ends the startup; the next one finds no pending row. *)
Startup ==
    /\ ~started /\ Loads /\ Resolve /\ started' = Recovered
    /\ UNCHANGED <<vars, source, file, edits, minted, frozen, op>>

(* catalog sync and rename, and import, recover first too. *)
Command(kind) ==
    /\ started /\ Loads /\ Idle /\ Resolve
    /\ IF Recovered THEN hand' = kind /\ op' = [kind |-> kind, stage |-> "CAPTURE"]
       ELSE UNCHANGED <<hand, op>>
    /\ UNCHANGED <<site, ask, now, prep, store, source, file, edits, minted, frozen, started>>

-----------------------------------------------------------------------------
(* The pipeline. *)

(* What a capture copies of the working copy, and whether the sources are still
   what was copied; the catalogue is compared apart, since a step may replace it. *)
Working(new) == [source |-> source, old |-> file, new |-> new]
SourceKept(captured) == source = captured.source

Pipeline(kind, stage, new) ==
    [source |-> source, old |-> file, new |-> new, kind |-> kind, stage |-> stage, asof |-> edits]
At(stage) == op # None /\ op.stage = stage
Enter(stage) == op' = [op EXCEPT !.stage = stage]
Leave == op' = None /\ hand' = None /\ UNCHANGED <<site, ask, now, prep, store>>
Unmoved(f) == SourceKept(op) /\ file = f

(* Capture the working copy and propose; without a change there is nothing to do. *)
Capture(new) ==
    /\ At("CAPTURE") /\ Loads
    /\ IF new = file THEN Leave ELSE /\ op' = Pipeline(op.kind, "PREPARE", new) /\ UNCHANGED vars
    /\ UNCHANGED <<source, file, journal, known, frozen, started>>
CaptureSync ==
    /\ At("CAPTURE") /\ op.kind = "sync" /\ Fresh(file, source)
    /\ Capture(Additions(file, source)) /\ UNCHANGED edits
Imported(f, x) == Additions(f, {x})
CaptureImport(x) ==
    /\ At("CAPTURE") /\ op.kind = "import" /\ x \notin source /\ Fresh(file, {x})
    /\ Capture(Imported(file, x)) /\ UNCHANGED edits
CaptureRename(x, y) ==
    /\ At("CAPTURE") /\ op.kind = "rename"
    /\ x \in Registered(file) /\ y \notin Registered(file) /\ ~Blocked
    /\ edits < site.edits /\ edits' = edits + 1
    /\ Capture(Moved(file, x, y)) /\ UNCHANGED minted

(* prepare_catalog_mutation: one intent at a time. *)
Intend ==
    /\ ~Pending /\ journal' = [old |-> op.old, new |-> op.new, state |-> "PREPARED"]

(* RegistryWrite::prepare, then the intent. *)
Journal ==
    /\ At("PREPARE") /\ Unmoved(op.old) /\ Intend /\ Enter("STAGED")
    /\ UNCHANGED <<vars, source, file, edits, known, minted, frozen, started>>

(* stage, then the last guard before the rename ... *)
LastGuardAnyway == At("STAGED") /\ SourceKept(op)
LastGuard == At("STAGED") /\ Unmoved(op.old)
Check ==
    /\ LastGuard /\ op' = [op EXCEPT !.stage = "RENAME", !.asof = edits]
    /\ UNCHANGED <<vars, source, file, edits, journal, known, minted, frozen, started>>
(* ... which editors do not share. *)
Rename ==
    /\ At("RENAME") /\ file' = op.new /\ Enter("SYNC")
    /\ UNCHANGED <<vars, source, edits, journal, known, minted, frozen, started>>

(* sync, then catalog_replaced. *)
MarkReplaced == journal.state = "PREPARED" /\ journal' = [journal EXCEPT !.state = "REPLACED"]
Replaced ==
    /\ At("SYNC") /\ Unmoved(op.new) /\ MarkReplaced /\ Enter("INDEX")
    /\ UNCHANGED <<vars, source, file, edits, known, minted, frozen, started>>

(* guard, then index_catalog_mutation.  An acceptance goes on. *)
Indexed == known' = known \cup IdsOf(journal.new)
Index ==
    /\ At("INDEX") /\ Unmoved(op.new) /\ Indexed /\ journal' = None
    /\ IF op.kind = "accept" THEN Enter("VERIFY") /\ UNCHANGED vars ELSE Leave
    /\ UNCHANGED <<source, file, edits, minted, frozen, started>>

(* A guard that fails, or any error: the intent stays in the journal. *)
Fail == op # None /\ Leave /\ UNCHANGED <<source, file, edits, journal, known, minted, frozen, started>>

-----------------------------------------------------------------------------
(* Planning and acceptance, with the capture they start from. *)

BeginR(p, r) ==
    /\ started /\ Loads /\ Begin(p, r) /\ Scope(r) \cap Paths \subseteq source
    /\ Fresh(file, source)
    /\ frozen' = [frozen EXCEPT ![p] = Working(Additions(file, source))]
    /\ UNCHANGED <<source, file, edits, journal, known, op, started>>

(* verify_selection, save_draft. *)
SaveR ==
    /\ Save /\ SourceKept(frozen[prep.plan]) /\ file = frozen[prep.plan].old
    /\ UNCHANGED registry

(* The catalogue is the one the draft was made from, or already its replacement. *)
Acceptable(p) == file \in {frozen[p].old, frozen[p].new}
TakeR(p) ==
    /\ started /\ Loads /\ Take(p) /\ SourceKept(frozen[p]) /\ Acceptable(p)
    /\ op' = [Pipeline("accept", IF file = frozen[p].new THEN "VERIFY" ELSE "PREPARE", frozen[p].new)
              EXCEPT !.old = frozen[p].old]
    /\ UNCHANGED <<source, file, edits, journal, known, minted, frozen, started>>

(* The working copy and the catalogue, once more. *)
Verify ==
    /\ At("VERIFY") /\ Unmoved(op.new) /\ Enter("ACCEPT")
    /\ UNCHANGED <<vars, source, file, edits, journal, known, minted, frozen, started>>

(* register_dataset for the whole catalogue of the plan, then accept_draft. *)
AcceptR(p, i) ==
    /\ At("ACCEPT") /\ Accept(p, i)
    /\ known' = known \cup IdsOf(op.new) /\ op' = None
    /\ UNCHANGED <<source, file, edits, journal, minted, frozen, started>>

RestartR ==
    /\ Restart /\ op' = None /\ started' = FALSE
    /\ UNCHANGED <<source, file, edits, journal, known, minted, frozen>>

RNext ==
    \/ \E s \in site.sources : AuthorSource(s)
    \/ \E x \in Paths : AuthorFile(x) \/ CaptureImport(x) \/ \E y \in Paths : CaptureRename(x, y)
    \/ \E kind \in site.commands : Command(kind)
    \/ Startup \/ CaptureSync \/ Journal \/ Check \/ Rename \/ Replaced \/ Index \/ Fail
    \/ \E p \in Plans, r \in site.requests : BeginR(p, r)
    \/ SaveR \/ Verify \/ RestartR
    \/ \E p \in Plans : TakeR(p) \/ \E i \in Branches : AcceptR(p, i)
    \/ started /\ Elsewhere /\ UNCHANGED registry

RSpec == RInit /\ [][RNext]_rvars

-----------------------------------------------------------------------------
(* An author's edit is overwritten only when it comes after the last guard. *)
EditsKept == [][file' # file /\ edits' = edits => file = op.old \/ edits > op.asof]_rvars
=============================================================================
