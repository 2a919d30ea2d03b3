------------------------------ MODULE Freshness ------------------------------
(***************************************************************************)
(* Why a dataset is current, stale or not known to be either               *)
(* (tf-plan/freshness.rs, transflow/why.rs): one pass over a validated     *)
(* graph, parents first, over facts frozen in one snapshot.                *)
(*                                                                         *)
(* A graph g is a record: order (producers, parents first), source (refresh *)
(* policies: -1 manual, 0 always, else a time to live) and edges, with off *)
(* for an input that names another branch than the selected one.  A        *)
(* snapshot s gives the bytes of every dataset's head on the selected      *)
(* branch (here) and on the other one (there), the publication times (at)  *)
(* and, for every producer, what comparing its retained computation with   *)
(* the present one finds (work).  Digests, policies' texts and quality     *)
(* are left out; of several shortest paths the code picks by name.         *)
(***************************************************************************)
EXTENDS Integers, FiniteSets, SequencesExt

Heads == {"never", "available", "missing", "corrupt", "unknown"}
Lacking == {"never", "missing", "corrupt"}

(* freshness_snapshot: what one read of the database retains of a head, its
   publication time and what is known of its computation. *)
Retained(s, d) ==
    [bytes |-> s.here[d], at |-> IF s.here[d] = "never" \/ d \notin DOMAIN s.at THEN 0 ELSE s.at[d],
     evidence |-> s.here[d] # "never" /\ d \in DOMAIN s.work /\ s.work[d].retained]

InputsOf(g, d) == {e \in g.edges : e.consumer = d}
Bytes(s, e, place) ==
    CASE place = "here" -> Retained(s, e.parent).bytes
      [] place = "there" -> s.there[e.parent]
      [] OTHER -> "never"

(* The first candidate branch of an input that has a head. *)
Where(s, e) ==
    IF ~e.off /\ s.here[e.parent] # "never" THEN "here"
    ELSE IF (e.off \/ ~e.strict) /\ s.there[e.parent] # "never" THEN "there" ELSE "nowhere"

(* The facts about one producer: the present computation is known only where
   its policies are stated and every input has a head. *)
Facts(g, s, d) ==
    LET inputs == InputsOf(g, d) IN
    [bytes |-> Retained(s, d).bytes, retained |-> Retained(s, d).evidence,
     current |-> s.work[d].stated /\ \A e \in inputs : Where(s, e) # "nowhere",
     found |-> s.work[d].found, reusable |-> s.work[d].reusable,
     boundaries |-> {e \in inputs : e.off \/ Where(s, e) = "there"},
     inputs |-> [e \in inputs |-> Bytes(s, e, Where(s, e))]]

(* Traversal alone never refreshes a manual source. *)
Due(g, s, d) ==
    /\ d \in DOMAIN g.source /\ g.source[d] # -1
    /\ LET head == Retained(s, d) IN
        g.source[d] = 0 \/ head.bytes = "never" \/ s.now - head.at >= g.source[d]

(* A reason: its code and its subject. *)
When(holds, code, what) == IF holds THEN {<<code, what, "none">>} ELSE {}
Lack(code, what, alias, bytes) ==
    CASE bytes = "available" -> {}
      [] bytes = "unknown" -> {<<"METADATA_UNKNOWN", what, alias>>}
      [] OTHER -> {<<code, what, alias>>}

(* What is wrong with the dataset itself, by dimension, and why. *)
Own(g, s, d) ==
    LET f == Facts(g, s, d)
        known == f.retained /\ f.current
        moved == IF known /\ f.found = "moved" THEN DOMAIN f.inputs ELSE {}
        changed == known /\ f.found = "changed"
        unclassified == known /\ f.found = "unclassified"
        never == f.current /\ ~f.reusable
        bytes == {f.inputs[e] : e \in DOMAIN f.inputs}
    IN [data |-> IF moved # {} \/ bytes \cap Lacking # {} \/ Due(g, s, d) THEN "stale"
                 ELSE IF known /\ "unknown" \notin bytes THEN "current" ELSE "unknown",
        logic |-> IF changed THEN "stale"
                  ELSE IF known /\ ~unclassified /\ ~never THEN "current" ELSE "unknown",
        reasons |->
            Lack(f.bytes, "artifact", "none", f.bytes)
            \cup {<<"INPUT_VERSION_CHANGED", "input", e.alias>> : e \in moved}
            \cup (UNION {Lack("BOUNDARY_STALE", "input", e.alias, f.inputs[e]) : e \in DOMAIN f.inputs})
            \cup {<<"METADATA_UNKNOWN", "boundary", e.alias>> : e \in f.boundaries}
            \cup When(changed, "CODE_CHANGED", "code")
            \cup When(~known, "METADATA_UNKNOWN", "comparison")
            \cup When(unclassified, "METADATA_UNKNOWN", "computation")
            \cup When(never, "CACHE_DISABLED", "cache")
            \cup When(Due(g, s, d), "SOURCE_REFRESH_DUE", "source")]

\* What the consumers of a dataset take from its status.
StaleStatus(x) == "stale" \in {x.data, x.logic, x.inherited} \/ x.bytes \in Lacking
UnknownStatus(x) == "unknown" \in {x.data, x.logic, x.inherited, x.bytes}

(* One cause per root and reason, with a shortest path from the root. *)
Shortest(causes) ==
    LET Same(c) == {k \in causes : k.path[1] = c.path[1] /\ k.reason = c.reason}
    IN {CHOOSE k \in Same(c) : \A m \in Same(c) : Len(k.path) <= Len(m.path) : c \in causes}
\* Mutant: a boundary hides what is stale above another input.
BoundaryFirst(parents, boundary) ==
    IF boundary THEN "unknown"
    ELSE IF \E x \in parents : StaleStatus(x) THEN "stale"
    ELSE IF \E x \in parents : UnknownStatus(x) THEN "unknown" ELSE "current"
Inherits(parents, boundary) ==
    IF \E x \in parents : StaleStatus(x) THEN "stale"
    ELSE IF boundary \/ \E x \in parents : UnknownStatus(x) THEN "unknown" ELSE "current"

(* The status of d from those of its parents; an input from another branch is
   a boundary, and a parent that no code produces says nothing. *)
Judge(g, s, status, d) ==
    LET own == Own(g, s, d)
        f == Facts(g, s, d)
        followed == {e \in InputsOf(g, d) \ f.boundaries : e.parent \in DOMAIN status}
        poor == {e \in followed : StaleStatus(status[e.parent]) \/ UnknownStatus(status[e.parent])}
        roots == {[path |-> <<d>>, reason |-> r] : r \in own.reasons}
        passed == UNION {{[c EXCEPT !.path = Append(@, d)] : c \in status[e.parent].causes} : e \in poor}
    IN [bytes |-> f.bytes, data |-> own.data, logic |-> own.logic,
        inherited |-> Inherits({status[e.parent] : e \in followed}, f.boundaries # {}),
        causes |-> Shortest(roots \cup passed),
        match |-> roots \cup passed = {} /\ f.bytes = "available"]

Evaluate(g, s) ==
    LET Upto[n \in 0..Len(g.order)] ==
            IF n = 0 THEN <<>>
            ELSE LET before == Upto[n - 1]
                     d == g.order[n]
                 IN [x \in DOMAIN before \cup {d} |-> IF x = d THEN Judge(g, s, before, d) ELSE before[x]]
    IN Upto[Len(g.order)]

(***************************************************************************)
(* The same by paths: along the inputs that are followed, a dataset is out *)
(* of date exactly when something on a path to it is; it names every such  *)
(* thing once, at its distance; and it is said to match what was retained  *)
(* only where nothing is.                                                  *)
(***************************************************************************)
Feeds(g, s) ==
    {p \in ToSet(g.order) \X ToSet(g.order) :
        \E e \in InputsOf(g, p[2]) \ Facts(g, s, p[2]).boundaries : e.parent = p[1]}
(* What is above d, d itself included, and after how many steps. *)
Ways(g, feeds, d) ==
    LET steps == 0..Len(g.order) - 1
        Level[n \in steps] ==
            IF n = 0 THEN {d} ELSE {x \in ToSet(g.order) : \E y \in Level[n - 1] : <<x, y>> \in feeds}
    IN {p \in ToSet(g.order) \X steps : p[1] \in Level[p[2]]}
Distance(ways, x) == Min({p[2] : p \in {q \in ways : q[1] = x}})

ByPaths(g, s) ==
    LET made == ToSet(g.order)
        feeds == Feeds(g, s)
        doubts == UNION {{<<x, r>> : r \in Own(g, s, x).reasons} : x \in made}
        bad == {x \in made : "stale" \in {Own(g, s, x).data, Own(g, s, x).logic} \/ s.here[x] \in Lacking}
        status == Evaluate(g, s)
    IN \A d \in made :
        LET ways == Ways(g, feeds, d)
            above == {p[1] : p \in ways} \ {d}
        IN /\ status[d].inherited =
                IF above \cap bad # {} THEN "stale"
                ELSE IF \/ \E p \in doubts : p[1] \in above
                        \/ Facts(g, s, d).boundaries # {} THEN "unknown"
                ELSE "current"
           /\ {<<c.path[1], c.reason, Len(c.path) - 1>> : c \in status[d].causes} =
                {<<p[1], p[2], Distance(ways, p[1])>> : p \in {q \in doubts : q[1] \in above \cup {d}}}
           /\ status[d].match <=> /\ s.here[d] = "available"
                                  /\ ~\E p \in doubts : p[1] \in above \cup {d}
=============================================================================
