-------------------------- MODULE PlanningProofs --------------------------
(* What Planning promises of drafts and builds, alone and under the registry
   (Registry), for every workspace, request and bound. *)
EXTENDS Registry, FiniteSetTheorems, SequenceTheorems, TLAPS

-----------------------------------------------------------------------------
(* The invariant. *)

(* A step of Planning, or of Registry as Planning sees it: the registry's
   commands hold and release the owner. *)
Claim == Idle /\ UNCHANGED <<site, ask, now, prep, store>>
Step == Next \/ Claim

GuardOf == [name : Names, dataset : Datasets, branch : Branches \cup {None}, rev : Nat,
            dead : BOOLEAN, version : Nat, gen : Nat]

VersionOf == [dataset : Datasets, branch : Branches, at : Int]
HeadOf == [version : Nat, gen : Nat]
Unset == [version |-> 0, gen |-> 0]

(* The tables.  A branch that was never there has no heads. *)
Tables ==
    /\ site \in Sites /\ now \in Int
    /\ row \in [Branches -> Row \cup {None}]
    /\ \A i, j \in Branches : row[i] # None /\ row[j] # None /\ i # j => row[i].name # row[j].name
    /\ made \in Seq(VersionOf)
    /\ head \in [Branches \X Datasets -> HeadOf]
    /\ \A i \in Branches, d \in Datasets : head[<<i, d>>].version <= Len(made)
    /\ \A i \in Branches, d \in Datasets : row[i] = None => head[<<i, d>>] = Unset

Previewed == ask # None => ask.seen \in Row

(* A guard about a head; it may have been overtaken, and then for good. *)
About(g, n, d) == g.name = n /\ g.dataset = d
Shows(g) == g.branch # None /\ ~g.dead /\ g.version # 0
Overtaken(g) == g.branch # None /\ head[<<g.branch, g.dataset>>].gen > g.gen

(* The producers of a scope that execute, and their inputs from elsewhere. *)
Rests(r, d, g, at) == d \in Sources /\ ~Executes(r, d, g, at)
Boundary(r, w) == {e \in site.edges : e.consumer \in w /\ ~(Followed(r, e) /\ e.parent \in w)}

(* The guards gs decide which candidate of e is the first with a head. *)
Covered(r, e, gs) ==
    \E k \in DOMAIN Candidates(r, e) :
        /\ \A m \in 1..k : \E g \in gs : About(g, Candidates(r, e)[m], e.parent)
        /\ \E g \in gs : About(g, Candidates(r, e)[k], e.parent) /\ Shows(g)
Foretold(r, e, gs, v) ==
    \E k \in DOMAIN Candidates(r, e) :
        /\ \E g \in gs : About(g, Candidates(r, e)[k], e.parent) /\ Shows(g) /\ g.version = v
        /\ \A m \in 1..k - 1 : \E g \in gs : About(g, Candidates(r, e)[m], e.parent) /\ ~Shows(g)
Foreseen(r, e, gs) == IF Pinned(r, e) THEN r.pins[Key(e)] ELSE CHOOSE v \in {g.version : g \in gs} : Foretold(r, e, gs, v)

\* What guards that all stand make planning decide.
Intended(r, w, gs) ==
    [writes |-> w, reads |-> {<<Key(e), Foreseen(r, e, gs)>> : e \in Boundary(r, w)}]

(* What planning writes down, of the plan in preparation or of a draft. *)
Guarded(r, at, gs, todo, kept) ==
    \A d \in Scope(r) \ todo :
        /\ d \in Producers
        /\ \E g \in gs : About(g, r.branch, d) /\ (d \in kept <=> Rests(r, d, g, at))
OneRead(e, reads) == \E x \in reads : x.key = Key(e) /\ \A y \in reads : y.key = Key(e) => y = x
(* What a read is: the pin, or the candidate the guards cover e up to. *)
Resolved(r, e, gs, x) ==
    IF Pinned(r, e) THEN x.branch = None /\ x.version = r.pins[Key(e)]
    ELSE \E k \in DOMAIN Candidates(r, e) :
        /\ x.branch = Candidates(r, e)[k]
        /\ \A m \in 1..k : \E g \in gs : About(g, Candidates(r, e)[m], e.parent)
        /\ \E g \in gs : About(g, Candidates(r, e)[k], e.parent) /\ Shows(g) /\ g.version = x.version
Bound(r, e, gs, reads) ==
    \E x \in reads : /\ x.key = Key(e) /\ Resolved(r, e, gs, x)
                     /\ \A y \in reads : y.key = Key(e) => y = x
ReadsOf(r, w, reads) ==
    \A x \in reads : \E e \in Boundary(r, w) : x.key = Key(e)
Witnessed(x, gs) ==
    x.branch = None \/ \E g \in gs : About(g, x.branch, x.dataset) /\ g.version = x.version

(* The candidate that is being guarded: u is read on the k-th, the first j - 1 are guarded. *)
Reaching(r, u, gs, reads, rest) ==
    \E k \in DOMAIN Candidates(r, u) : \E j \in 1..k :
        /\ rest = SubSeq(Candidates(r, u), j, k)
        /\ \A m \in 1..j - 1 : \E g \in gs : About(g, Candidates(r, u)[m], u.parent)
        /\ \E x \in reads : /\ x = Read(u, Candidates(r, u)[k], x.version) /\ x.version # 0
                            /\ \A y \in reads : y.key = Key(u) => y = x
        /\ \E i \in RowsNamed(Candidates(r, u)[k]) : ~row[i].dead

\* The inputs not resolved yet, the one under way (u) among them.
Reading(r, w, inputs, u, rest, gs, reads) ==
    /\ inputs \subseteq Boundary(r, w) /\ ReadsOf(r, w, reads)
    /\ \A e \in Boundary(r, w) \ inputs : Bound(r, e, gs, reads)
    /\ \A x \in reads : (rest # <<>> /\ x.key = Key(u)) \/ Witnessed(x, gs)
    /\ \A e \in inputs : rest = <<>> \/ e # u => \A x \in reads : x.key # Key(e)
    /\ rest # <<>> => u \in inputs /\ ~Pinned(r, u) /\ Reaching(r, u, gs, reads, rest)

PrepIs(x) ==
    x = [plan |-> x.plan, request |-> x.request, at |-> x.at, output |-> x.output, todo |-> x.todo,
         writes |-> x.writes, kept |-> x.kept, guards |-> x.guards, reading |-> x.reading,
         planned |-> x.planned, inputs |-> x.inputs, rest |-> x.rest, reads |-> x.reads]
PrepTyped(x) ==
    /\ PrepIs(x) /\ x.plan \in Plans /\ x.request \in site.requests
    /\ x.guards \subseteq GuardOf /\ x.reading \in BOOLEAN /\ x.at \in Int
OutputOf(o, n) == o.name = n /\ o.dataset = None /\ ~o.dead
InputsRead(x) ==
    /\ x.todo = {} /\ x.writes = Scope(x.request) \ x.kept
    /\ x.planned = Planned(x.request, x.writes, {})
    /\ Reading(x.request, x.writes, x.inputs, CHOOSE e \in x.inputs : TRUE, x.rest, x.guards, x.reads)
Prepared(x) ==
    /\ PrepTyped(x) /\ OutputOf(x.output, x.request.branch)
    /\ \A g \in x.guards : g.version <= Len(made) /\ (Sees(g) \/ Overtaken(g))
    /\ Guarded(x.request, x.at, x.guards, x.todo, x.kept) /\ x.kept \cap x.todo = {}
    /\ IF x.reading THEN InputsRead(x)
       ELSE x.writes = Scope(x.request) /\ x.inputs = {} /\ x.rest = <<>> /\ x.reads = {}
Preparing == prep # None => hand = None /\ draft[prep.plan] = None /\ Prepared(prep)

DraftFields == {"request", "created", "output", "guards", "writes", "planned", "reads", "ideal"}
Drafted(d) ==
    LET r == d.request IN
    /\ d = [f \in DraftFields |-> d[f]]
    /\ r \in site.requests /\ d.created \in Int /\ d.guards \subseteq GuardOf
    /\ OutputOf(d.output, r.branch)
    /\ \A g \in d.guards : g.version <= Len(made)
    /\ d.writes \subseteq Scope(r)
    /\ Guarded(r, d.created, d.guards, {}, Scope(r) \ d.writes)
    /\ d.planned = Planned(r, d.writes, {})
    /\ ReadsOf(r, d.writes, d.reads)
    /\ \A e \in Boundary(r, d.writes) : Bound(r, e, d.guards, d.reads)
    /\ \A x \in d.reads : Witnessed(x, d.guards)
    /\ \/ \E g \in d.guards : Overtaken(g)
       \/ d.ideal = Intended(r, d.writes, d.guards)
Drafts ==
    /\ draft = [p \in Plans |-> draft[p]]
    /\ \A p \in Plans : draft[p] # None => Drafted(draft[p])

BuildOf == [branch : Branches, state : {"QUEUED", "RUNNING", "ENDED"}, writes : SUBSET Datasets,
            done : SUBSET Datasets]
Active(p) == build[p] # None /\ build[p].state # "ENDED"
Standing(p) ==
    LET b == build[p] IN
    /\ row[b.branch] # None /\ row[b.branch].name = draft[p].request.branch /\ ~row[b.branch].dead
    /\ \A d \in b.writes \ b.done : \A g \in draft[p].guards :
        About(g, draft[p].request.branch, d) => head[<<b.branch, d>>].gen = g.gen
Builds ==
    /\ build \in [Plans -> BuildOf \cup {None}]
    /\ \A p \in Plans : build[p] # None => draft[p] # None /\ build[p].writes = draft[p].writes
    /\ \A p \in Plans : Active(p) => Standing(p)
    /\ \A p, q \in Plans : Active(p) /\ Active(q) /\ p # q /\ build[p].branch = build[q].branch
                            => build[p].writes \cap build[q].writes = {}

Inv == Tables /\ Previewed /\ Preparing /\ Drafts /\ Builds

-----------------------------------------------------------------------------
(* Numbers. *)

LEMMA LeastNat ==
  ASSUME NEW T, T \subseteq Nat, T # {}
  PROVE  \E n \in T : \A m \in T : n <= m
<1> DEFINE R == OpToRel(<, Nat)
<1>1. IsWellFoundedOn(R, Nat)
  BY NatLessThanWellFounded
<1>2. \A p \in Nat, q \in Nat : <<p, q>> \in R <=> p < q
  BY DEF OpToRel
<1> HIDE DEF R
<1>3. PICK n \in T : \A m \in T : ~(<<m, n>> \in R)
  BY <1>1, WFMin
<1>4. ASSUME NEW m \in T PROVE n <= m
  <2>1. n \in Nat /\ m \in Nat
    OBVIOUS
  <2>2. ~(<<m, n>> \in R)
    BY <1>3
  <2>3. <<m, n>> \in R <=> m < n
    BY <1>2, <2>1
  <2> QED
    BY <2>1, <2>2, <2>3
<1> QED
  BY <1>4

\* Induction, for a set instead of a predicate.
LEMMA SetInduction ==
  ASSUME NEW S, 0 \in S, \A n \in Nat : n \in S => n + 1 \in S
  PROVE  Nat \subseteq S
<1> DEFINE T == {n \in Nat : n \notin S}
<1> SUFFICES ASSUME T # {} PROVE FALSE
  OBVIOUS
<1>1. PICK n \in T : \A m \in T : n <= m
  BY LeastNat
<1>2. n # 0 /\ n - 1 \in Nat /\ n - 1 \in S
  BY <1>1
<1> QED
  BY <1>1, <1>2

\* A value built step by step along 1..top, from one set into itself.
Built(g, top, S, a, G) ==
    g \in [0..top -> S] /\ g[0] = a /\ \A n \in 1..top : g[n] = G[<<g[n - 1], n>>]

LEMMA RecursionThere ==
  ASSUME NEW top \in Nat, NEW S, NEW a \in S, NEW G \in [S \X (1..top) -> S]
  PROVE  \E g : Built(g, top, S, a, G)
<1> DEFINE Is(g, k) == g \in [0..k -> S] /\ g[0] = a /\ \A n \in 1..k : g[n] = G[<<g[n - 1], n>>]
           T == {k \in Nat : k <= top => \E g : Is(g, k)}
<1>1. 0 \in T
  <2> DEFINE g == [n \in 0..0 |-> a]
  <2>1. Is(g, 0)
    OBVIOUS
  <2> QED
    BY <2>1
<1>2. ASSUME NEW k \in Nat, k \in T PROVE k + 1 \in T
  <2> SUFFICES ASSUME k + 1 <= top PROVE \E g : Is(g, k + 1)
    OBVIOUS
  <2>1. PICK g : Is(g, k)
    BY <1>2
  <2>2. g[k] \in S /\ k + 1 \in 1..top
    BY <2>1
  <2>3. G[<<g[k], k + 1>>] \in S
    BY <2>2
  <2> DEFINE h == [n \in 0..(k + 1) |-> IF n = k + 1 THEN G[<<g[k], k + 1>>] ELSE g[n]]
  <2>4. \A n \in 0..k : h[n] = g[n] /\ g[n] \in S
    BY <2>1
  <2>5. h \in [0..(k + 1) -> S] /\ h[0] = a
    BY <2>1, <2>3, <2>4
  <2>6. h[k + 1] = G[<<g[k], k + 1>>]
    OBVIOUS
  <2> HIDE DEF h
  <2>7. ASSUME NEW n \in 1..(k + 1) PROVE h[n] = G[<<h[n - 1], n>>]
    <3>1. CASE n = k + 1
      <4>1. n - 1 = k /\ k \in 0..k
        BY <3>1
      <4> QED
        BY <2>4, <2>6, <3>1, <4>1
    <3>2. CASE n \in 1..k
      <4>1. n - 1 \in 0..k /\ n \in 0..k
        BY <3>2
      <4> QED
        BY <2>1, <2>4, <3>2, <4>1
    <3> QED
      BY <3>1, <3>2
  <2>8. Is(h, k + 1)
    BY <2>5, <2>7
  <2> QED
    BY <2>8
<1>3. top \in T
  <2> HIDE DEF T
  <2> QED
    BY <1>1, <1>2, SetInduction
<1> QED
  BY <1>3 DEF Built

-----------------------------------------------------------------------------
(* What does not depend on the state, and what depends on the workspace alone. *)

LEMMA RequestFixed ==
  ASSUME NEW r, NEW e
  PROVE  /\ Candidates(r, e)' = Candidates(r, e) /\ Pinned(r, e)' = Pinned(r, e)
         /\ Followed(r, e)' = Followed(r, e)
BY DEF Candidates, Start, FallbackOf, Pinned, Followed, OffBranch, Key

LEMMA SiteFixed ==
  ASSUME site' = site
  PROVE  /\ \A r : Scope(r)' = Scope(r)
         /\ Producers' = Producers /\ Sources' = Sources
         /\ \A r, w : Boundary(r, w)' = Boundary(r, w)
         /\ \A r, w, o : Planned(r, w, o)' = Planned(r, w, o)
<1>1. ASSUME NEW r PROVE Scope(r)' = Scope(r)
  BY DEF Scope, Forward, Pass, AtBoundary, Eligible, Barrier, Producers, Sources, Manual,
         Followed, OffBranch, Pinned, Key, Into
<1>2. Producers' = Producers /\ Sources' = Sources
  BY DEF Producers, Sources
<1>3. ASSUME NEW r, NEW w, NEW o
      PROVE  Boundary(r, w)' = Boundary(r, w) /\ Planned(r, w, o)' = Planned(r, w, o)
  BY DEF Boundary, Planned, Followed, OffBranch, Pinned, Key
<1> QED
  BY <1>1, <1>2, <1>3

LEMMA CoverFixed ==
  ASSUME NEW r, NEW e, NEW gs
  PROVE  Covered(r, e, gs)' = Covered(r, e, gs) /\ Foreseen(r, e, gs)' = Foreseen(r, e, gs)
BY RequestFixed DEF Covered, Foreseen, Foretold, About, Shows, Key

(* The clock, heads and versions only go forward. *)
Grown ==
    /\ site' = site
    /\ Len(made) <= Len(made') /\ \A v \in 1..Len(made) : made'[v] = made[v]
    /\ \A i \in Branches, d \in Datasets :
        head'[<<i, d>>] = head[<<i, d>>] \/ head'[<<i, d>>].gen > head[<<i, d>>].gen

LEMMA RestsKept ==
  ASSUME Tables, Grown, NEW r, NEW d, NEW g, NEW at, g.version \in 0..Len(made)
  PROVE  Rests(r, d, g, at)' = Rests(r, d, g, at)
<1>1. Len(made) \in Nat
  BY DEF Tables
<1>2. g.version # 0 => made'[g.version] = made[g.version]
  BY <1>1 DEF Grown
<1> QED
  BY <1>2 DEF Rests, Executes, Sources, Manual, Grown

LEMMA OvertakenKept ==
  ASSUME Tables, Tables', Grown, NEW g \in GuardOf, Overtaken(g)
  PROVE  Overtaken(g)'
<1>1. g.branch \in Branches /\ g.dataset \in Datasets /\ g.gen \in Nat
  BY DEF Overtaken, GuardOf
<1>2. head[<<g.branch, g.dataset>>].gen \in Nat /\ head'[<<g.branch, g.dataset>>].gen \in Nat
  BY <1>1 DEF Tables, HeadOf
<1> QED
  BY <1>1, <1>2 DEF Overtaken, Grown

LEMMA GuardedKept ==
  ASSUME Tables, Grown, NEW r, NEW at, NEW gs, NEW todo, NEW kept,
         \A g \in gs : g.version \in 0..Len(made), Guarded(r, at, gs, todo, kept)
  PROVE  Guarded(r, at, gs, todo, kept)'
<1>1. \A d, g : g \in gs => Rests(r, d, g, at)' = Rests(r, d, g, at)
  BY RestsKept
<1>2. Scope(r)' = Scope(r) /\ Producers' = Producers
  BY SiteFixed DEF Grown
<1> QED
  BY <1>1, <1>2 DEF Guarded, About

-----------------------------------------------------------------------------
(* Rows and heads. *)

LEMMA LookAt ==
  ASSUME Tables, NEW n \in Names, NEW d \in Datasets
  PROVE  /\ Look(n, d) \in GuardOf /\ About(Look(n, d), n, d) /\ Look(n, d).version \in 0..Len(made)
         /\ Look(n, d).branch = None <=> RowsNamed(n) = {}
         /\ Look(n, d).branch = None => Look(n, d).version = 0 /\ Look(n, d).gen = 0
         /\ Look(n, d).branch # None =>
                /\ Look(n, d).branch \in RowsNamed(n) /\ Look(n, d).dead = row[Look(n, d).branch].dead
                /\ Look(n, d).version = head[<<Look(n, d).branch, d>>].version
                /\ Look(n, d).gen = head[<<Look(n, d).branch, d>>].gen
<1>1. Len(made) \in Nat /\ d # None
  BY IdentityAssumption DEF Tables
<1>2. CASE RowsNamed(n) = {}
  BY <1>1, <1>2 DEF Look, GuardOf, About
<1>3. CASE RowsNamed(n) # {}
  <2> DEFINE i == CHOOSE x \in RowsNamed(n) : TRUE
  <2>1. i \in RowsNamed(n)
    BY <1>3
  <2>2. i \in Branches /\ i # None /\ row[i] # None /\ row[i].name = n
    BY <2>1, IdentityAssumption DEF RowsNamed
  <2>3. row[i] \in Row
    BY <2>2 DEF Tables
  <2>4. head[<<i, d>>] \in HeadOf /\ head[<<i, d>>].version <= Len(made)
    BY <2>2 DEF Tables
  <2> DEFINE g == [name |-> n, dataset |-> d, branch |-> i, rev |-> row[i].rev,
                   dead |-> row[i].dead, version |-> head[<<i, d>>].version, gen |-> head[<<i, d>>].gen]
  <2>5. Look(n, d) = g
    BY <1>1, <1>3 DEF Look
  <2>6. row[i].rev \in Nat /\ row[i].dead \in BOOLEAN
    BY <2>3 DEF Row
  <2>7. head[<<i, d>>].version \in Nat /\ head[<<i, d>>].gen \in Nat
    BY <2>4 DEF HeadOf
  <2>8. g \in GuardOf
    BY <2>2, <2>6, <2>7 DEF GuardOf
  <2>9. g.version \in 0..Len(made)
    BY <1>1, <2>4, <2>7
  <2> HIDE DEF i
  <2> QED
    BY <1>3, <2>1, <2>2, <2>5, <2>8, <2>9 DEF About
<1> QED
  BY <1>2, <1>3

LEMMA OneRow ==
  ASSUME Tables, NEW n, NEW i \in RowsNamed(n), NEW j \in RowsNamed(n)
  PROVE  i = j
BY DEF Tables, RowsNamed

LEMMA LookFixed ==
  ASSUME row' = row
  PROVE  /\ \A n : RowsNamed(n)' = RowsNamed(n)
         /\ head' = head => \A n, d : Look(n, d)' = Look(n, d)
<1>1. ASSUME NEW n PROVE RowsNamed(n)' = RowsNamed(n)
  BY DEF RowsNamed
<1>2. ASSUME head' = head, NEW n, NEW d PROVE Look(n, d)' = Look(n, d)
  <2>1. RowsNamed(n)' = RowsNamed(n)
    BY <1>1
  <2>2. CASE RowsNamed(n) = {}
    BY <2>1, <2>2 DEF Look
  <2>3. CASE RowsNamed(n) # {}
    <3> DEFINE i == CHOOSE x \in RowsNamed(n) : TRUE
               h == IF d = None THEN [version |-> 0, gen |-> 0] ELSE head[<<i, d>>]
               g == [name |-> n, dataset |-> d, branch |-> i, rev |-> row[i].rev,
                     dead |-> row[i].dead, version |-> h.version, gen |-> h.gen]
    <3>1. Look(n, d) = g
      BY <2>3 DEF Look
    <3>2. Look(n, d)' = g
      BY <1>2, <2>1, <2>3 DEF Look
    <3> QED
      BY <3>1, <3>2
  <2> QED
    BY <2>2, <2>3
<1> QED
  BY <1>1, <1>2

\* What a guard saw stays, or is overtaken.
LEMMA SeesKept ==
  ASSUME Tables, Tables', Grown, row' = row, NEW g \in GuardOf, Sees(g) \/ Overtaken(g)
  PROVE  Sees(g)' \/ Overtaken(g)'
<1>1. CASE Overtaken(g)
  BY <1>1, OvertakenKept
<1>2. CASE Sees(g)
  <2> DEFINE i == CHOOSE x \in RowsNamed(g.name) : TRUE
  <2>1. RowsNamed(g.name)' = RowsNamed(g.name) /\ g.dataset \in Datasets /\ g.dataset # None
    BY LookFixed, IdentityAssumption DEF GuardOf
  <2>2. CASE RowsNamed(g.name) = {}
    BY <1>2, <2>1, <2>2 DEF Sees, Look
  <2>3. CASE RowsNamed(g.name) # {}
    <3>1. i \in RowsNamed(g.name)
      BY <2>3
    <3>2. i \in Branches /\ i # None
      BY <3>1, IdentityAssumption DEF RowsNamed
    <3> DEFINE Is(h, r) == [name |-> g.name, dataset |-> g.dataset, branch |-> i, rev |-> r.rev,
                            dead |-> r.dead, version |-> h.version, gen |-> h.gen]
    <3>3. Look(g.name, g.dataset) = Is(head[<<i, g.dataset>>], row[i])
      BY <2>1, <2>3 DEF Look
    <3>4. Look(g.name, g.dataset)' = Is(head'[<<i, g.dataset>>], row[i])
      BY <2>1, <2>3 DEF Look
    <3> HIDE DEF i
    <3>5. g = Is(head[<<i, g.dataset>>], row[i])
      BY <1>2, <3>3 DEF Sees
    <3>6. g.branch = i /\ g.gen = head[<<i, g.dataset>>].gen
      BY <3>5
    <3>7. CASE head'[<<i, g.dataset>>] = head[<<i, g.dataset>>]
      <4>1. Look(g.name, g.dataset)' = g
        BY <3>4, <3>5, <3>7
      <4> QED
        BY <4>1 DEF Sees
    <3>8. CASE head'[<<i, g.dataset>>].gen > head[<<i, g.dataset>>].gen
      BY <3>2, <3>6, <3>8 DEF Overtaken
    <3> QED
      BY <2>1, <3>2, <3>7, <3>8 DEF Grown
  <2> QED
    BY <2>2, <2>3
<1> QED
  BY <1>1, <1>2

LEMMA StillGrown ==
  ASSUME Tables, UNCHANGED <<site, row, head, made>>, now' \in Int
  PROVE  Tables' /\ Grown
<1>1. Tables'
  BY DEF Tables
<1>2. Len(made) \in Nat
  BY DEF Tables
<1> QED
  BY <1>1, <1>2 DEF Grown

LEMMA PublishGrows ==
  ASSUME Tables, NEW i \in Branches, NEW d \in Datasets, row[i] # None, Publish(i, d),
         UNCHANGED <<site, row, now>>
  PROVE  Tables' /\ Grown
<1> DEFINE v == [dataset |-> d, branch |-> i, at |-> now]
<1>1. v \in VersionOf /\ made \in Seq(VersionOf) /\ Len(made) \in Nat
  BY DEF Tables, VersionOf
<1>2. made' = Append(made, v)
  BY DEF Publish
<1> HIDE DEF v
<1>3. made' \in Seq(VersionOf) /\ Len(made') = Len(made) + 1 /\ \A k \in 1..Len(made) : made'[k] = made[k]
  BY <1>1, <1>2
<1>4. head \in [Branches \X Datasets -> HeadOf] /\ <<i, d>> \in Branches \X Datasets
  BY DEF Tables
<1>5. head[<<i, d>>] \in HeadOf
  BY <1>4
<1> DEFINE h == [version |-> Len(made'), gen |-> head[<<i, d>>].gen + 1]
<1>6. h \in HeadOf /\ h.version = Len(made') /\ h.gen > head[<<i, d>>].gen
  BY <1>1, <1>3, <1>5 DEF HeadOf
<1>7. head' = [head EXCEPT ![<<i, d>>] = h]
  BY DEF Publish
<1> HIDE DEF h
<1>8. head' \in [Branches \X Datasets -> HeadOf]
  BY <1>4, <1>6, <1>7
<1>9. \A j \in Branches, x \in Datasets :
        head'[<<j, x>>] = IF j = i /\ x = d THEN h ELSE head[<<j, x>>]
  BY <1>4, <1>7
<1>10. \A j \in Branches, x \in Datasets : head[<<j, x>>].version \in Nat /\ head[<<j, x>>].version <= Len(made)
  BY DEF Tables, HeadOf
<1>11. \A j \in Branches, x \in Datasets : head'[<<j, x>>].version <= Len(made')
  <2> TAKE j \in Branches, x \in Datasets
  <2>1. CASE j = i /\ x = d
    BY <1>1, <1>3, <1>6, <1>9, <2>1
  <2>2. CASE ~(j = i /\ x = d)
    <3>1. head'[<<j, x>>] = head[<<j, x>>]
      BY <1>9, <2>2
    <3> QED
      BY <1>1, <1>3, <1>10, <3>1
  <2> QED
    BY <2>1, <2>2
<1>12. \A j \in Branches, x \in Datasets : row'[j] = None => head'[<<j, x>>] = Unset
  BY <1>9 DEF Tables
<1>13. Tables'
  BY <1>3, <1>8, <1>11, <1>12 DEF Tables, Unset
<1>14. Len(made) <= Len(made')
  BY <1>1, <1>3
<1> QED
  BY <1>3, <1>6, <1>9, <1>13, <1>14 DEF Grown

LEMMA RowMoves ==
  ASSUME Tables, NEW i \in Branches, NEW x \in Row, row' = [row EXCEPT ![i] = x],
         \A j \in Branches \ {i} : row[j] # None => row[j].name # x.name,
         UNCHANGED <<site, head, made, now>>
  PROVE  Tables' /\ Grown
<1>1. x # None
  BY IdentityAssumption
<1>2. row \in [Branches -> Row \cup {None}] /\ row' \in [Branches -> Row \cup {None}]
  BY DEF Tables
<1>3. \A j \in Branches : row'[j] = IF j = i THEN x ELSE row[j]
  BY <1>2
<1>4. \A j, k \in Branches : row'[j] # None /\ row'[k] # None /\ j # k => row'[j].name # row'[k].name
  BY <1>3 DEF Tables
<1>5. \A j \in Branches, d \in Datasets : row'[j] = None => head'[<<j, d>>] = Unset
  BY <1>1, <1>3 DEF Tables
<1>6. Tables'
  BY <1>2, <1>4, <1>5 DEF Tables, Unset
<1>7. Len(made) \in Nat
  BY DEF Tables
<1> QED
  BY <1>6, <1>7 DEF Grown

\* No branch of that name was seen, and there is none.
LEMMA AbsentRow ==
  ASSUME NEW n, NEW d, Look(n, d).branch = None
  PROVE  RowsNamed(n) = {}
<1> SUFFICES ASSUME RowsNamed(n) # {} PROVE FALSE
  OBVIOUS
<1>1. Look(n, d).branch = CHOOSE b \in RowsNamed(n) : TRUE
  BY DEF Look
<1>2. Look(n, d).branch \in Branches
  BY <1>1 DEF RowsNamed
<1> QED
  BY <1>2, IdentityAssumption

-----------------------------------------------------------------------------
(* Every step leaves the tables in order. *)

LEMMA RequestTyped ==
  ASSUME site \in Sites, NEW r \in site.requests
  PROVE  r.branch \in Names /\ (r.fallback \in Seq(Names) \/ r.fallback = None)
BY SiteAssumption DEF Requested

\* The steps that touch neither branches nor heads.
Quiet == UNCHANGED <<site, row, head, made, now, ask>>

LEMMA QuietSteps ==
  /\ \A p, r : Begin(p, r) => Quiet
  /\ GuardOutput \/ Settle \/ GuardInput \/ Abandon \/ Save \/ Decline \/ Restart \/ Claim => Quiet
  /\ \A e : ResolvePin(e) \/ ResolveHead(e) => Quiet
  /\ \A p : StartBuild(p) \/ EndBuild(p) \/ Take(p) => Quiet
  /\ UNCHANGED vars => Quiet
<1>1. ASSUME NEW p, NEW r PROVE Begin(p, r) => Quiet
  BY SMTT(30) DEF Begin, Quiet, store
<1>2. GuardOutput \/ Settle \/ GuardInput \/ Abandon \/ Save \/ Decline \/ Restart \/ Claim => Quiet
  BY DEF GuardOutput, Settle, GuardInput, Abandon, Save, Decline, Restart, Claim, Quiet, store
<1>3. ASSUME NEW e PROVE ResolvePin(e) \/ ResolveHead(e) => Quiet
  BY DEF ResolvePin, ResolveHead, Quiet
<1>4. ASSUME NEW p PROVE StartBuild(p) \/ EndBuild(p) \/ Take(p) => Quiet
  BY DEF StartBuild, EndBuild, Take, Quiet, store
<1>5. UNCHANGED vars => Quiet
  BY DEF vars, Quiet, store
<1> QED
  BY <1>1, <1>2, <1>3, <1>4, <1>5

LEMMA TablesStep ==
  ASSUME Inv, [Step]_vars
  PROVE  Tables' /\ Grown /\ Previewed'
<1>0. Tables /\ Previewed /\ Drafts /\ Builds
  BY DEF Inv
<1>1. now \in Int /\ site \in Sites
  BY <1>0 DEF Tables
<1>2. CASE Quiet
  BY <1>0, <1>1, <1>2, StillGrown DEF Quiet, Previewed
<1>3. ASSUME NEW i \in Branches, NEW d \in Datasets, row[i] # None, Publish(i, d),
             UNCHANGED <<site, row, now, ask>>
      PROVE  Tables' /\ Grown /\ Previewed'
  BY <1>0, <1>3, PublishGrows DEF Previewed
<1>4. ASSUME NEW p \in Plans, NEW i \in Branches, Accept(p, i)
      PROVE  Tables' /\ Grown /\ Previewed'
  <2> DEFINE n == draft[p].request.branch
             x == [name |-> n, rev |-> 0, dead |-> FALSE]
  <2>1. draft[p] # None /\ Sees(draft[p].output) /\ UNCHANGED <<site, head, made, now, ask>>
    BY <1>4 DEF Accept, Valid
  <2>2. Drafted(draft[p])
    BY <1>0, <2>1 DEF Drafts
  <2>3. n \in Names /\ draft[p].output.name = n /\ draft[p].output.dataset = None
    BY <1>1, <2>2, RequestTyped DEF Drafted, OutputOf
  <2>4. x \in Row
    BY <2>3 DEF Row
  <2>5. CASE row' = row
    BY <1>0, <1>1, <2>1, <2>5, StillGrown DEF Previewed
  <2>6. CASE draft[p].output.branch = None /\ row' = [row EXCEPT ![i] = x]
    <3>1. Look(n, None).branch = None
      BY <2>1, <2>3, <2>6 DEF Sees
    <3>2. RowsNamed(n) = {}
      BY <3>1, AbsentRow
    <3>3. \A j \in Branches \ {i} : row[j] # None => row[j].name # x.name
      BY <3>2 DEF RowsNamed
    <3> HIDE DEF x
    <3> QED
      BY <1>0, <2>1, <2>4, <2>6, <3>3, RowMoves DEF Previewed
  <2> QED
    BY <1>4, <2>5, <2>6 DEF Accept
<1>5. ASSUME NEW p \in Plans, NEW d \in Datasets, PublishOutput(p, d)
      PROVE  Tables' /\ Grown /\ Previewed'
  <2>1. Active(p) /\ Publish(build[p].branch, d) /\ UNCHANGED <<site, row, now, ask>>
    BY <1>5 DEF PublishOutput, Active
  <2>2. build[p] \in BuildOf /\ Standing(p)
    BY <1>0, <2>1 DEF Builds, Active
  <2>3. build[p].branch \in Branches /\ row[build[p].branch] # None
    BY <2>2 DEF BuildOf, Standing
  <2> QED
    BY <1>3, <2>1, <2>3
<1>6. ASSUME NEW i \in Branches, NEW d \in Datasets, Import(i, d)
      PROVE  Tables' /\ Grown /\ Previewed'
  BY <1>3, <1>6 DEF Import
<1>7. ASSUME NEW i \in Branches, NEW n \in Names, CreateBranch(i, n)
      PROVE  Tables' /\ Grown /\ Previewed'
  <2> DEFINE x == [name |-> n, rev |-> 0, dead |-> FALSE]
  <2>1. x \in Row
    BY DEF Row
  <2>2. \A j \in Branches \ {i} : row[j] # None => row[j].name # x.name
    BY <1>7 DEF CreateBranch, RowsNamed
  <2>3. row' = [row EXCEPT ![i] = x] /\ UNCHANGED <<site, head, made, now, ask>>
    BY <1>7 DEF CreateBranch
  <2> HIDE DEF x
  <2> QED
    BY <1>0, <2>1, <2>2, <2>3, RowMoves DEF Previewed
<1>8. ASSUME NEW i \in Branches, NEW n \in Names, RenameBranch(i, n)
      PROVE  Tables' /\ Grown /\ Previewed'
  <2> DEFINE x == [name |-> n, rev |-> row[i].rev + 1, dead |-> row[i].dead]
  <2>1. row[i] \in Row /\ row \in [Branches -> Row \cup {None}]
    BY <1>0, <1>8 DEF RenameBranch, ChangeBranch, Previewed, Tables
  <2>2. x \in Row
    BY <2>1 DEF Row
  <2>3. \A j \in Branches \ {i} : row[j] # None => row[j].name # x.name
    BY <1>8 DEF RenameBranch, RowsNamed
  <2>4. UNCHANGED <<site, head, made, now>> /\ ask' = None
    BY <1>8 DEF RenameBranch, ChangeBranch
  <2>5. row' = [row EXCEPT ![i] = x]
    <3>1. row' = [row EXCEPT ![i].name = n, ![i].rev = @ + 1]
      BY <1>8 DEF RenameBranch
    <3>2. \A j \in Branches : row'[j] = IF j = i THEN x ELSE row[j]
      BY <2>1, <3>1 DEF Row
    <3>3. row' = [j \in Branches |-> row'[j]]
      BY <2>1, <3>1
    <3>4. row' = [j \in Branches |-> IF j = i THEN x ELSE row[j]]
      BY <3>2, <3>3
    <3> QED
      BY <2>1, <3>4
  <2> HIDE DEF x
  <2> QED
    BY <1>0, <2>2, <2>3, <2>4, <2>5, RowMoves DEF Previewed
<1>9. ASSUME NEW i \in Branches, DeleteBranch(i)
      PROVE  Tables' /\ Grown /\ Previewed'
  <2> DEFINE x == [name |-> row[i].name, rev |-> row[i].rev + 1, dead |-> TRUE]
  <2>1. row[i] \in Row /\ row \in [Branches -> Row \cup {None}] /\ row[i] # None
    BY <1>0, <1>9, IdentityAssumption DEF DeleteBranch, ChangeBranch, Previewed, Tables
  <2>2. x \in Row
    BY <2>1 DEF Row
  <2>3. \A j \in Branches \ {i} : row[j] # None => row[j].name # x.name
    BY <1>0, <2>1 DEF Tables
  <2>4. UNCHANGED <<site, head, made, now>> /\ ask' = None
    BY <1>9 DEF DeleteBranch, ChangeBranch
  <2>5. row' = [row EXCEPT ![i] = x]
    <3>1. row' = [row EXCEPT ![i].dead = TRUE, ![i].rev = @ + 1]
      BY <1>9 DEF DeleteBranch
    <3>2. \A j \in Branches : row'[j] = IF j = i THEN x ELSE row[j]
      BY <2>1, <3>1 DEF Row
    <3>3. row' = [j \in Branches |-> row'[j]]
      BY <2>1, <3>1
    <3>4. row' = [j \in Branches |-> IF j = i THEN x ELSE row[j]]
      BY <3>2, <3>3
    <3> QED
      BY <2>1, <3>4
  <2> HIDE DEF x
  <2> QED
    BY <1>0, <2>2, <2>3, <2>4, <2>5, RowMoves DEF Previewed
<1>10. ASSUME NEW i \in Branches, NEW n, PreviewBranch(i, n)
       PROVE  Tables' /\ Grown /\ Previewed'
  <2>1. row[i] \in Row /\ ask' = [branch |-> i, seen |-> row[i], to |-> n]
        /\ UNCHANGED <<site, row, head, made, now>>
    BY <1>0, <1>10 DEF PreviewBranch, Tables, store
  <2> QED
    BY <1>0, <1>1, <2>1, StillGrown DEF Previewed
<1>11. CASE Shown \/ Tick
  <2>1. (ask' = None \/ ask' = ask) /\ UNCHANGED <<site, row, head, made>> /\ now' \in Int
    BY <1>1, <1>11 DEF Shown, Tick, store
  <2> QED
    BY <1>0, <2>1, StillGrown DEF Previewed
<1> QED
  BY <1>2, <1>4, <1>5, <1>6, <1>7, <1>8, <1>9, <1>10, <1>11, QuietSteps DEF Step, Next, Elsewhere

-----------------------------------------------------------------------------
(* The candidate branches of an input. *)

LEMMA CandidatesTyped ==
  ASSUME site \in Sites, NEW r \in site.requests, NEW e
  PROVE  Candidates(r, e) \in Seq(Names)
<1> DEFINE tail == IF e.sel \notin Names /\ r.fallback # None THEN r.fallback ELSE FallbackOf(Start(r, e))
           first == <<Start(r, e)>>
           L == Len(tail)
           S == Seq(Names)
           More(before, n) == IF tail[n] \in ToSet(before) THEN before ELSE Append(before, tail[n])
           Is(g) == g = [n \in 0..L |-> IF n = 0 THEN first ELSE More(g[n - 1], n)]
<1>1. Start(r, e) \in Names
  BY RequestTyped DEF Start
<1>2. FallbackOf(Start(r, e)) \in S
  BY <1>1, PolicyAssumption DEF FallbackOf
<1>3. tail \in S
  BY <1>2, RequestTyped
<1>4. Candidates(r, e) = IF e.strict THEN first ELSE (CHOOSE g : Is(g))[L]
  BY DEF Candidates
<1>5. first \in S
  BY <1>1
<1> HIDE DEF tail, first
<1>6. L \in Nat /\ \A n \in 1..L : tail[n] \in Names
  BY <1>3
<1>7. \A before \in S, n \in 1..L : More(before, n) \in S
  BY <1>6
<1> HIDE DEF More, L, S
<1>8. \E g : Is(g)
  <2> DEFINE G == [p \in S \X (1..L) |-> More(p[1], p[2])]
  <2>1. G \in [S \X (1..L) -> S]
    BY <1>7
  <2>2. ASSUME NEW b \in S, NEW n \in 1..L PROVE G[<<b, n>>] = More(b, n)
    <3>1. <<b, n>> \in S \X (1..L)
      OBVIOUS
    <3>2. G[<<b, n>>] = More(<<b, n>>[1], <<b, n>>[2])
      BY <3>1
    <3> QED
      BY <3>2
  <2> HIDE DEF G
  <2>3. PICK g : Built(g, L, S, first, G)
    BY <1>5, <1>6, <2>1, RecursionThere
  <2>4. \A n \in 0..L : g[n] = IF n = 0 THEN first ELSE More(g[n - 1], n)
    <3> TAKE n \in 0..L
    <3>1. CASE n # 0
      <4>1. n \in 1..L /\ n - 1 \in 0..L
        BY <1>6, <3>1
      <4>2. g[n - 1] \in S
        BY <2>3, <4>1 DEF Built
      <4> QED
        BY <2>2, <2>3, <3>1, <4>1, <4>2 DEF Built
    <3>2. CASE n = 0
      BY <2>3, <3>2 DEF Built
    <3> QED
      BY <3>1, <3>2
  <2>5. Is(g)
    BY <2>3, <2>4 DEF Built
  <2> QED
    BY <2>5
<1> DEFINE Once == CHOOSE g : Is(g)
<1>9. Is(Once)
  BY <1>8
<1> HIDE DEF Once
<1>10. \A n \in 0..L : Once[n] = IF n = 0 THEN first ELSE More(Once[n - 1], n)
  BY <1>9
<1> DEFINE T == {n \in Nat : n <= L => Once[n] \in S}
<1>11. 0 \in T
  BY <1>5, <1>6, <1>10
<1>12. ASSUME NEW n \in Nat, n \in T PROVE n + 1 \in T
  <2> SUFFICES ASSUME n + 1 <= L PROVE Once[n + 1] \in S
    OBVIOUS
  <2>1. n + 1 \in 1..L /\ n + 1 \in 0..L /\ (n + 1) - 1 = n /\ n + 1 # 0
    BY <1>6
  <2>2. Once[n + 1] = More(Once[n], n + 1)
    BY <1>10, <2>1
  <2>3. Once[n] \in S
    BY <1>6, <1>12
  <2> QED
    BY <1>7, <2>1, <2>2, <2>3
<1>13. L \in T
  <2> HIDE DEF T
  <2> QED
    BY <1>6, <1>11, <1>12, SetInduction
<1>14. Once[L] \in S
  BY <1>6, <1>13
<1> QED
  BY <1>4, <1>5, <1>14 DEF Once, S

-----------------------------------------------------------------------------
(* Guards that all stand tell what planning would decide. *)

LEMMA ForeseenFirst ==
  ASSUME site \in Sites, NEW r \in site.requests, NEW e \in site.edges, NEW gs,
         \A g \in gs : Sees(g), ~Pinned(r, e), Covered(r, e, gs)
  PROVE  /\ First(r, e) # 0
         /\ Foreseen(r, e, gs) = Look(Candidates(r, e)[First(r, e)], e.parent).version
<1> DEFINE names == Candidates(r, e)
           found == {k \in DOMAIN names : Readable(names[k], e.parent)}
           f == CHOOSE k \in found : \A m \in found : k <= m
           seen(m) == Look(names[m], e.parent)
<1>1. names \in Seq(Names)
  BY CandidatesTyped
<1>2. First(r, e) = IF found = {} THEN 0 ELSE f
  BY DEF First
<1>3. \A m \in DOMAIN names : Readable(names[m], e.parent) <=> Shows(seen(m))
  BY DEF Readable, Shows
<1>4. \A g \in gs, m \in DOMAIN names : About(g, names[m], e.parent) => g = seen(m)
  BY DEF Sees, About
<1>5. PICK k \in DOMAIN names :
        /\ \A m \in 1..k : \E g \in gs : About(g, names[m], e.parent)
        /\ \E g \in gs : About(g, names[k], e.parent) /\ Shows(g)
  BY DEF Covered
<1>6. DOMAIN names = 1..Len(names) /\ Len(names) \in Nat
  BY <1>1
<1> HIDE DEF names, seen
<1>7. k \in found
  BY <1>3, <1>4, <1>5
<1>8. found \subseteq Nat /\ found # {}
  BY <1>6, <1>7
<1>9. f \in found /\ \A m \in found : f <= m
  <2> HIDE DEF found
  <2> QED
    BY <1>8, LeastNat
<1>10. f \in DOMAIN names /\ f \in Nat /\ f # 0 /\ Shows(seen(f)) /\ f <= k
  BY <1>3, <1>6, <1>7, <1>9
<1> HIDE DEF f
<1> DEFINE v == seen(f).version
<1>11. \A m \in 1..f : m \in DOMAIN names /\ \E g \in gs : About(g, names[m], e.parent) /\ g = seen(m)
  BY <1>4, <1>5, <1>6, <1>10
<1>12. \A m \in 1..f - 1 : ~Shows(seen(m))
  <2> TAKE m \in 1..f - 1
  <2>1. m \in DOMAIN names /\ ~(f <= m)
    BY <1>6, <1>10
  <2> QED
    BY <1>3, <1>9, <2>1
<1>13. PICK g0 \in gs : About(g0, names[f], e.parent) /\ g0 = seen(f)
  BY <1>10, <1>11
<1>14. Foretold(r, e, gs, v)
  <2>1. \A m \in 1..f - 1 : m \in 1..f
    BY <1>10
  <2>2. \A m \in 1..f - 1 : \E g \in gs : About(g, names[m], e.parent) /\ ~Shows(g)
    BY <1>11, <1>12, <2>1
  <2>3. \E g \in gs : About(g, names[f], e.parent) /\ Shows(g) /\ g.version = v
    BY <1>10, <1>13
  <2> QED
    BY <1>10, <2>2, <2>3 DEF Foretold, names
<1>15. ASSUME NEW w, Foretold(r, e, gs, w) PROVE w = v
  <2>1. PICK j \in DOMAIN names :
            /\ \E g \in gs : About(g, names[j], e.parent) /\ Shows(g) /\ g.version = w
            /\ \A m \in 1..j - 1 : \E g \in gs : About(g, names[m], e.parent) /\ ~Shows(g)
    BY <1>15 DEF Foretold, names
  <2>2. Shows(seen(j)) /\ w = seen(j).version
    BY <1>4, <2>1
  <2>3. j \in found /\ j \in Nat /\ f <= j
    BY <1>3, <1>6, <1>9, <2>2
  <2>4. CASE f = j
    BY <2>2, <2>4
  <2>5. CASE f # j
    <3>1. f \in 1..j - 1
      BY <1>10, <2>3, <2>5
    <3>2. ~Shows(seen(f))
      BY <1>4, <1>10, <2>1, <3>1
    <3> QED
      BY <1>10, <3>2
  <2> QED
    BY <2>4, <2>5
<1>16. v \in {g.version : g \in gs}
  BY <1>13
<1>17. Foreseen(r, e, gs) = CHOOSE w \in {g.version : g \in gs} : Foretold(r, e, gs, w)
  BY DEF Foreseen
<1>18. Foreseen(r, e, gs) = v
  <2> HIDE DEF v
  <2> QED
    BY <1>14, <1>15, <1>16, <1>17
<1>19. First(r, e) = f
  BY <1>2, <1>8 DEF f
<1> QED
  BY <1>10, <1>18, <1>19 DEF seen, names

LEMMA IdealSeen ==
  ASSUME site \in Sites, NEW r \in site.requests, NEW at, NEW w, NEW gs, \A g \in gs : Sees(g),
         w \subseteq Scope(r), Guarded(r, at, gs, {}, Scope(r) \ w),
         \A e \in Boundary(r, w) : Pinned(r, e) \/ Covered(r, e, gs)
  PROVE  Ideal(r, at) = Intended(r, w, gs)
<1> DEFINE fresh(d) == d \in Sources /\ ~Executes(r, d, Look(r.branch, d), at)
           u == {d \in Scope(r) : ~fresh(d)}
           got(e) == IF Pinned(r, e) THEN r.pins[Key(e)]
                     ELSE IF First(r, e) = 0 THEN 0
                     ELSE Look(Candidates(r, e)[First(r, e)], e.parent).version
           edge(x) == {e \in site.edges : e.consumer \in x /\ ~(Followed(r, e) /\ e.parent \in x)}
<1>1. Ideal(r, at) = [writes |-> u, reads |-> {<<Key(e), got(e)>> : e \in edge(u)}]
  BY DEF Ideal
<1>2. ASSUME NEW d \in Scope(r) PROVE d \in w <=> ~fresh(d)
  <2>1. PICK g \in gs : About(g, r.branch, d) /\ (d \in Scope(r) \ w <=> Rests(r, d, g, at))
    BY DEF Guarded
  <2>2. g = Look(r.branch, d)
    BY <2>1 DEF Sees, About
  <2> QED
    BY <2>1, <2>2 DEF Rests
<1>3. u = w
  BY <1>2
<1>4. edge(w) = Boundary(r, w)
  BY DEF Boundary
<1>5. ASSUME NEW e \in Boundary(r, w) PROVE got(e) = Foreseen(r, e, gs)
  <2>1. CASE Pinned(r, e)
    BY <2>1 DEF Foreseen
  <2>2. CASE ~Pinned(r, e)
    <3>1. e \in site.edges /\ Covered(r, e, gs)
      BY <2>2 DEF Boundary
    <3> QED
      BY <2>2, <3>1, ForeseenFirst
  <2> QED
    BY <2>1, <2>2
<1> HIDE DEF got, edge, u
<1>6. {<<Key(e), got(e)>> : e \in edge(u)} = {<<Key(e), Foreseen(r, e, gs)>> : e \in Boundary(r, w)}
  BY <1>3, <1>4, <1>5
<1> QED
  BY <1>1, <1>3, <1>6 DEF Intended

-----------------------------------------------------------------------------
(* Drafts. *)

\* What is bound is read once, and either pinned or covered by the guards.
LEMMA BoundTells ==
  ASSUME NEW r, NEW e, NEW gs, NEW reads, Bound(r, e, gs, reads)
  PROVE  OneRead(e, reads) /\ (Pinned(r, e) \/ Covered(r, e, gs))
<1>1. PICK x \in reads : /\ x.key = Key(e) /\ Resolved(r, e, gs, x)
                         /\ \A y \in reads : y.key = Key(e) => y = x
  BY DEF Bound
<1>2. Pinned(r, e) \/ Covered(r, e, gs)
  BY <1>1 DEF Resolved, Covered
<1> QED
  BY <1>1, <1>2 DEF OneRead

LEMMA NotesFixed ==
  ASSUME site' = site, NEW r, NEW w, NEW gs, NEW reads
  PROVE  /\ ReadsOf(r, w, reads)' = ReadsOf(r, w, reads)
         /\ \A e : Bound(r, e, gs, reads)' = Bound(r, e, gs, reads)
         /\ \A x : Witnessed(x, gs)' = Witnessed(x, gs)
         /\ Intended(r, w, gs)' = Intended(r, w, gs)
         /\ \A o, n : OutputOf(o, n)' = OutputOf(o, n)
         /\ Boundary(r, w)' = Boundary(r, w)
<1>1. Boundary(r, w)' = Boundary(r, w)
  BY SiteFixed
<1>2. ReadsOf(r, w, reads)' = ReadsOf(r, w, reads)
  BY <1>1 DEF ReadsOf, Key
<1>3. ASSUME NEW e PROVE Bound(r, e, gs, reads)' = Bound(r, e, gs, reads)
  <2>1. \A x : Resolved(r, e, gs, x)' = Resolved(r, e, gs, x)
    BY RequestFixed DEF Resolved, About, Shows, Key
  <2> QED
    BY <2>1 DEF Bound, Key
<1>4. ASSUME NEW x PROVE Witnessed(x, gs)' = Witnessed(x, gs)
  BY DEF Witnessed, About
<1>5. Intended(r, w, gs)' = Intended(r, w, gs)
  BY <1>1, CoverFixed DEF Intended, Key
<1>6. ASSUME NEW o, NEW n PROVE OutputOf(o, n)' = OutputOf(o, n)
  BY DEF OutputOf
<1> QED
  BY <1>1, <1>2, <1>3, <1>4, <1>5, <1>6

LEMMA DraftedKept ==
  ASSUME Tables, Tables', Grown, NEW d, Drafted(d)
  PROVE  Drafted(d)'
<1> DEFINE r == d.request
<1>1. site' = site /\ Len(made) \in Nat /\ Len(made') \in Nat /\ Len(made) <= Len(made')
  BY DEF Grown, Tables
<1>2. d.guards \subseteq GuardOf /\ \A g \in d.guards : g.version \in 0..Len(made)
  <2>1. d.guards \subseteq GuardOf /\ \A g \in d.guards : g.version <= Len(made)
    BY DEF Drafted
  <2>2. \A g \in GuardOf : g.version \in Nat
    BY DEF GuardOf
  <2> QED
    BY <1>1, <2>1, <2>2
<1>3. \A g \in d.guards : g.version <= Len(made')
  BY <1>1, <1>2
<1>4. Guarded(r, d.created, d.guards, {}, Scope(r) \ d.writes)'
  <2> DEFINE k == Scope(r) \ d.writes
  <2>1. Guarded(r, d.created, d.guards, {}, k)
    BY DEF Drafted
  <2>2. \A kept : Guarded(r, d.created, d.guards, {}, kept) => Guarded(r, d.created, d.guards, {}, kept)'
    BY <1>2, GuardedKept
  <2>3. k' = k
    BY <1>1, SiteFixed
  <2> HIDE DEF k
  <2>4. PICK kept : kept = k
    OBVIOUS
  <2>5. Guarded(r, d.created, d.guards, {}, kept)'
    BY <2>1, <2>2, <2>4
  <2> QED
    BY <2>3, <2>4, <2>5 DEF k
<1>5. (\E g \in d.guards : Overtaken(g)) => \E g \in d.guards : Overtaken(g)'
  BY <1>2, OvertakenKept
<1>6. Scope(r)' = Scope(r) /\ Planned(r, d.writes, {})' = Planned(r, d.writes, {})
  BY <1>1, SiteFixed
<1>7. \A e, v : Boundary(r, d.writes)' = Boundary(r, d.writes)
        /\ Bound(r, e, d.guards, d.reads)' = Bound(r, e, d.guards, d.reads)
        /\ ReadsOf(r, d.writes, d.reads)' = ReadsOf(r, d.writes, d.reads)
        /\ Witnessed(v, d.guards)' = Witnessed(v, d.guards)
        /\ Intended(r, d.writes, d.guards)' = Intended(r, d.writes, d.guards)
        /\ OutputOf(d.output, r.branch)' = OutputOf(d.output, r.branch)
  BY <1>1, NotesFixed
<1> QED
  BY <1>1, <1>3, <1>4, <1>5, <1>6, <1>7 DEF Drafted, GuardOf

LEMMA SavedDraft ==
  ASSUME Inv, Save
  PROVE  \E d : Drafted(d) /\ draft' = [draft EXCEPT ![prep.plan] = d]
<1> DEFINE r == prep.request
           d == [request |-> prep.request, created |-> prep.at, output |-> prep.output,
                 guards |-> prep.guards, writes |-> prep.writes, planned |-> prep.planned,
                 reads |-> prep.reads, ideal |-> Ideal(prep.request, prep.at)]
<1>0. Prepared(prep) /\ prep.reading /\ prep.rest = <<>> /\ prep.inputs = {}
  BY DEF Inv, Preparing, Save
<1>1. /\ PrepTyped(prep) /\ OutputOf(prep.output, r.branch)
      /\ \A g \in prep.guards : g.version <= Len(made) /\ (Sees(g) \/ Overtaken(g))
      /\ Guarded(r, prep.at, prep.guards, {}, prep.kept)
      /\ prep.writes = Scope(r) \ prep.kept
      /\ prep.planned = Planned(r, prep.writes, {})
      /\ \E u : Reading(r, prep.writes, {}, u, <<>>, prep.guards, prep.reads)
  BY <1>0 DEF Prepared, InputsRead
<1>2. r \in site.requests /\ prep.at \in Int /\ prep.guards \subseteq GuardOf /\ site \in Sites
  BY <1>1 DEF PrepTyped, Inv, Tables
<1>3. Guarded(r, prep.at, prep.guards, {}, Scope(r) \ prep.writes)
  BY <1>1 DEF Guarded
<1>4. /\ ReadsOf(r, prep.writes, prep.reads)
      /\ \A e \in Boundary(r, prep.writes) : Bound(r, e, prep.guards, prep.reads)
      /\ \A x \in prep.reads : Witnessed(x, prep.guards)
  BY <1>1 DEF Reading
<1>5. (\E g \in prep.guards : Overtaken(g)) \/ d.ideal = Intended(r, prep.writes, prep.guards)
  <2> SUFFICES ASSUME \A g \in prep.guards : ~Overtaken(g)
               PROVE  Ideal(r, prep.at) = Intended(r, prep.writes, prep.guards)
    OBVIOUS
  <2>1. \A g \in prep.guards : Sees(g)
    BY <1>1
  <2>2. \A e \in Boundary(r, prep.writes) : Pinned(r, e) \/ Covered(r, e, prep.guards)
    BY <1>4, BoundTells
  <2>3. prep.writes \subseteq Scope(r)
    BY <1>1
  <2> QED
    BY <1>2, <1>3, <2>1, <2>2, <2>3, IdealSeen
<1>6. d = [f \in DraftFields |-> d[f]]
  BY DEF DraftFields
<1>7. draft' = [draft EXCEPT ![prep.plan] = d]
  BY DEF Save
<1>8. /\ d.request = r /\ d.created = prep.at /\ d.output = prep.output /\ d.guards = prep.guards
      /\ d.writes = prep.writes /\ d.planned = prep.planned /\ d.reads = prep.reads
  OBVIOUS
<1> HIDE DEF d
<1>9. Drafted(d)
  BY <1>1, <1>2, <1>3, <1>4, <1>5, <1>6, <1>8 DEF Drafted
<1> QED
  BY <1>7, <1>9

\* The other steps leave every draft as it is.
LEMMA DraftsStay ==
  ASSUME [Step]_vars, ~Save
  PROVE  draft' = draft
<1>1. ASSUME NEW p, NEW r PROVE Begin(p, r) => draft' = draft
  BY DEF Begin, store
<1>2. GuardOutput \/ Settle \/ GuardInput \/ Abandon \/ Decline \/ Restart \/ Claim \/ UNCHANGED vars
        => draft' = draft
  BY DEF GuardOutput, Settle, GuardInput, Abandon, Decline, Restart, Claim, vars, store
<1>3. ASSUME NEW e PROVE ResolvePin(e) \/ ResolveHead(e) => draft' = draft
  BY DEF ResolvePin, ResolveHead
<1>4. ASSUME NEW p, NEW i, NEW d
      PROVE  StartBuild(p) \/ EndBuild(p) \/ Take(p) \/ Accept(p, i) \/ PublishOutput(p, d) => draft' = draft
  BY DEF StartBuild, EndBuild, Take, Accept, PublishOutput, store
<1>5. ASSUME NEW i, NEW n
      PROVE  Import(i, n) \/ CreateBranch(i, n) \/ RenameBranch(i, n) \/ PreviewBranch(i, n)
                \/ DeleteBranch(i) => draft' = draft
  BY DEF Import, CreateBranch, RenameBranch, PreviewBranch, DeleteBranch, ChangeBranch, store
<1>6. Shown \/ Tick => draft' = draft
  BY DEF Shown, Tick, store
<1> QED
  BY <1>1, <1>2, <1>3, <1>4, <1>5, <1>6 DEF Step, Next, Elsewhere

LEMMA DraftsStep ==
  ASSUME Inv, [Step]_vars, Tables', Grown
  PROVE  Drafts'
<1>0. Tables /\ Drafts /\ Preparing
  BY DEF Inv
<1>1. CASE draft' = draft
  <2>1. \A d : Drafted(d) => Drafted(d)'
    BY <1>0, DraftedKept
  <2> QED
    BY <1>0, <1>1, <2>1 DEF Drafts
<1>2. CASE Save
  <2>1. \A d : Drafted(d) => Drafted(d)'
    BY <1>0, DraftedKept
  <2>2. PICK d : Drafted(d) /\ draft' = [draft EXCEPT ![prep.plan] = d]
    BY <1>2, SavedDraft
  <2>3. draft = [p \in Plans |-> draft[p]]
    BY <1>0 DEF Drafts
  <2>4. draft' = [p \in Plans |-> IF p = prep.plan THEN d ELSE draft[p]]
    BY <2>2, <2>3
  <2>5. draft' = [p \in Plans |-> draft'[p]]
    BY <2>4
  <2>6. \A p \in Plans : draft'[p] = d \/ draft'[p] = draft[p]
    BY <2>4
  <2> QED
    BY <1>0, <2>1, <2>2, <2>5, <2>6 DEF Drafts
<1> QED
  BY <1>1, <1>2, DraftsStay

-----------------------------------------------------------------------------
(* The plan in preparation. *)

\* Meanwhile no branch changes, so the guards taken stay or are overtaken.
LEMMA GuardsKept ==
  ASSUME Tables, Tables', Grown, row' = row, NEW gs, gs \subseteq GuardOf,
         \A g \in gs : g.version <= Len(made) /\ (Sees(g) \/ Overtaken(g))
  PROVE  \A g \in gs : g.version <= Len(made') /\ (Sees(g)' \/ Overtaken(g)')
<1>1. Len(made) \in Nat /\ Len(made') \in Nat /\ Len(made) <= Len(made')
  BY DEF Grown, Tables
<1> TAKE g \in gs
<1>2. g \in GuardOf /\ g.version \in Nat
  BY DEF GuardOf
<1>3. g.version <= Len(made')
  BY <1>1, <1>2
<1> QED
  BY <1>2, <1>3, SeesKept

LEMMA ReachingFixed ==
  ASSUME row' = row, NEW r, NEW u, NEW gs, NEW reads, NEW rest
  PROVE  Reaching(r, u, gs, reads, rest)' = Reaching(r, u, gs, reads, rest)
<1>1. Candidates(r, u)' = Candidates(r, u) /\ \A n : RowsNamed(n)' = RowsNamed(n)
  BY RequestFixed, LookFixed
<1> QED
  BY <1>1 DEF Reaching, About, Key, Read

LEMMA ReadingFixed ==
  ASSUME UNCHANGED <<site, row>>
  PROVE  \A r, w, inputs, u, rest, gs, reads :
            Reading(r, w, inputs, u, rest, gs, reads)' = Reading(r, w, inputs, u, rest, gs, reads)
<1> TAKE r, w, inputs, u, rest, gs, reads
<1>1. Boundary(r, w)' = Boundary(r, w) /\ Pinned(r, u)' = Pinned(r, u)
  BY SiteFixed, RequestFixed
<1>2. Reaching(r, u, gs, reads, rest)' = Reaching(r, u, gs, reads, rest)
  BY ReachingFixed
<1>3. /\ ReadsOf(r, w, reads)' = ReadsOf(r, w, reads)
      /\ \A e : Bound(r, e, gs, reads)' = Bound(r, e, gs, reads)
      /\ \A x : Witnessed(x, gs)' = Witnessed(x, gs)
  BY NotesFixed
<1> QED
  BY <1>1, <1>2, <1>3 DEF Reading, Key

LEMMA PreparedKept ==
  ASSUME Tables, Tables', Grown, row' = row, NEW x, Prepared(x)
  PROVE  Prepared(x)'
<1>1. site' = site /\ Len(made) \in Nat
  BY DEF Grown, Tables
<1>2. PrepTyped(x)' /\ x.guards \subseteq GuardOf
  BY <1>1 DEF Prepared, PrepTyped, PrepIs, GuardOf
<1>3. OutputOf(x.output, x.request.branch)'
  BY DEF Prepared, OutputOf
<1>4. \A g \in x.guards : g.version <= Len(made') /\ (Sees(g)' \/ Overtaken(g)')
  <2>1. \A g \in x.guards : g.version <= Len(made) /\ (Sees(g) \/ Overtaken(g))
    BY DEF Prepared
  <2> QED
    BY <1>2, <2>1, GuardsKept
<1>5. Guarded(x.request, x.at, x.guards, x.todo, x.kept)'
  <2>1. \A g \in x.guards : g.version \in 0..Len(made)
    BY <1>1, <1>2 DEF Prepared, GuardOf
  <2>2. Guarded(x.request, x.at, x.guards, x.todo, x.kept)
    BY DEF Prepared
  <2> QED
    BY <2>1, <2>2, GuardedKept
<1>6. /\ Scope(x.request)' = Scope(x.request)
      /\ Planned(x.request, x.writes, {})' = Planned(x.request, x.writes, {})
  BY <1>1, SiteFixed
<1>7. InputsRead(x) => InputsRead(x)'
  BY <1>1, <1>6, ReadingFixed DEF InputsRead
<1>8. CASE x.reading
  BY <1>2, <1>3, <1>4, <1>5, <1>7, <1>8 DEF Prepared
<1>9. CASE ~x.reading
  BY <1>2, <1>3, <1>4, <1>5, <1>6, <1>9 DEF Prepared
<1> QED
  BY <1>8, <1>9

\* A guard that is taken now stands, and is of the right kind.
LEMMA Guards ==
  ASSUME Tables, NEW n \in Names, NEW d \in Datasets
  PROVE  /\ Look(n, d) \in GuardOf /\ About(Look(n, d), n, d) /\ Sees(Look(n, d))
         /\ Look(n, d).version <= Len(made)
<1>1. Look(n, d) \in GuardOf /\ About(Look(n, d), n, d) /\ Look(n, d).version \in 0..Len(made)
  BY LookAt
<1>2. Look(n, d).name = n /\ Look(n, d).dataset = d
  BY <1>1 DEF About
<1> QED
  BY <1>1, <1>2 DEF Sees

LEMMA BeginPrepares ==
  ASSUME Inv, NEW p \in Plans, NEW r \in site.requests, Begin(p, r)
  PROVE  \E x : prep' = x /\ Prepared(x) /\ x.plan = p
<1> DEFINE o == Look(r.branch, None)
           x == [plan |-> p, request |-> r, at |-> now, output |-> o,
                 todo |-> Scope(r), writes |-> Scope(r), kept |-> {}, guards |-> {},
                 reading |-> FALSE, planned |-> {}, inputs |-> {}, rest |-> <<>>,
                 reads |-> {}]
<1>1. prep' = x /\ ~o.dead
  BY DEF Begin
<1>2. o.name = r.branch /\ o.dataset = None
  BY DEF Look
<1>3. PrepTyped(x)
  BY DEF PrepTyped, PrepIs, Inv, Tables
<1>4. Guarded(r, now, {}, Scope(r), {})
  BY DEF Guarded
<1>5. OutputOf(o, r.branch)
  BY <1>1, <1>2 DEF OutputOf
<1> HIDE DEF o
<1>6. Prepared(x)
  BY <1>3, <1>4, <1>5 DEF Prepared
<1> QED
  BY <1>1, <1>6

LEMMA GuardOutputPrepares ==
  ASSUME Inv, GuardOutput
  PROVE  \E x : prep' = x /\ Prepared(x) /\ x.plan = prep.plan
<1>0. Prepared(prep) /\ Tables
  BY DEF Inv, Preparing, GuardOutput
<1> DEFINE r == prep.request
<1>1. PICK k \in DOMAIN site.order :
        LET d == site.order[k]
            g == Look(r.branch, d)
            keeps == d \in Sources /\ ~Executes(r, d, g, prep.at)
        IN /\ d \in prep.todo
           /\ prep' = [prep EXCEPT !.todo = @ \ {d}, !.guards = @ \cup {g},
                                   !.kept = IF keeps THEN @ \cup {d} ELSE @]
  BY DEF GuardOutput
<1> DEFINE d == site.order[k]
           g == Look(r.branch, d)
           kept == IF Rests(r, d, g, prep.at) THEN prep.kept \cup {d} ELSE prep.kept
           x == [plan |-> prep.plan, request |-> r, at |-> prep.at, output |-> prep.output,
                 todo |-> prep.todo \ {d}, writes |-> prep.writes, kept |-> kept,
                 guards |-> prep.guards \cup {g}, reading |-> prep.reading,
                 planned |-> prep.planned, inputs |-> prep.inputs, rest |-> prep.rest,
                 reads |-> prep.reads]
<1>2. PrepIs(prep) /\ PrepTyped(prep)
  BY <1>0 DEF Prepared, PrepTyped
<1>3. d \in prep.todo
  BY <1>1
<1>4. prep' = x
  <2>1. prep' = [prep EXCEPT !.todo = @ \ {d}, !.guards = @ \cup {g}, !.kept = kept]
    BY <1>1, <1>2 DEF Rests
  <2> HIDE DEF d, g, kept
  <2> QED
    BY <1>2, <2>1 DEF PrepIs
<1>5. r \in site.requests /\ site \in Sites
  BY <1>0, <1>2 DEF PrepTyped, Tables
<1>6. d \in Producers /\ d \in Datasets
  <2>1. site.order \in Seq(Datasets)
    BY <1>5, SiteAssumption DEF Requested
  <2> QED
    BY <2>1 DEF Producers, ToSet
<1>7. g \in GuardOf /\ About(g, r.branch, d) /\ Sees(g) /\ g.version <= Len(made)
  BY <1>0, <1>5, <1>6, RequestTyped, Guards
<1> HIDE DEF d, g
<1>8. Guarded(r, prep.at, prep.guards \cup {g}, prep.todo \ {d}, kept)
  <2>1. Guarded(r, prep.at, prep.guards, prep.todo, prep.kept) /\ d \notin prep.kept
    BY <1>0, <1>3 DEF Prepared
  <2>2. d \in kept <=> Rests(r, d, g, prep.at)
    BY <2>1
  <2>3. \A y : y # d => (y \in kept <=> y \in prep.kept)
    OBVIOUS
  <2> HIDE DEF kept
  <2> SUFFICES ASSUME NEW y \in Scope(r) \ (prep.todo \ {d})
               PROVE  /\ y \in Producers
                      /\ \E h \in prep.guards \cup {g} :
                            About(h, r.branch, y) /\ (y \in kept <=> Rests(r, y, h, prep.at))
    BY DEF Guarded
  <2>4. CASE y = d
    BY <1>6, <1>7, <2>2, <2>4
  <2>5. CASE y # d
    BY <2>1, <2>3, <2>5 DEF Guarded
  <2> QED
    BY <2>4, <2>5
<1>9. PrepTyped(x)
  BY <1>2, <1>7 DEF PrepTyped, PrepIs
<1>10. kept \cap (prep.todo \ {d}) = {}
  BY <1>0 DEF Prepared
<1>11. ~prep.reading
  BY <1>0, <1>3 DEF Prepared, InputsRead
<1> HIDE DEF kept
<1>12. Prepared(x)
  BY <1>0, <1>7, <1>8, <1>9, <1>10, <1>11 DEF Prepared
<1> QED
  BY <1>4, <1>12

LEMMA SettlePrepares ==
  ASSUME Inv, Settle
  PROVE  \E x : prep' = x /\ Prepared(x) /\ x.plan = prep.plan
<1>0. Prepared(prep) /\ prep.todo = {} /\ ~prep.reading
  BY DEF Inv, Preparing, Settle
<1> DEFINE r == prep.request
           w == prep.writes \ prep.kept
           planned == Planned(r, w, prep.kept)
           inputs == {e \in site.edges : e.consumer \in w} \ planned
           x == [plan |-> prep.plan, request |-> r, at |-> prep.at, output |-> prep.output,
                 todo |-> prep.todo, writes |-> w, kept |-> prep.kept,
                 guards |-> prep.guards, reading |-> TRUE,
                 planned |-> planned, inputs |-> inputs, rest |-> prep.rest,
                 reads |-> prep.reads]
<1>1. PrepIs(prep) /\ PrepTyped(prep)
  BY <1>0 DEF Prepared, PrepTyped
<1>2. prep' = x
  <2>1. prep' = [prep EXCEPT !.reading = TRUE, !.writes = w, !.planned = planned, !.inputs = inputs]
    BY DEF Settle
  <2> HIDE DEF w, planned, inputs
  <2> QED
    BY <1>1, <2>1 DEF PrepIs
<1>3. planned = Planned(r, w, {})
  BY DEF Planned
<1>4. inputs = Boundary(r, w)
  BY DEF Boundary, Planned
<1>5. w = Scope(r) \ prep.kept /\ prep.reads = {} /\ prep.rest = <<>>
  BY <1>0 DEF Prepared
<1> HIDE DEF w, planned, inputs
<1>6. \A u : Reading(r, w, inputs, u, <<>>, prep.guards, {})
  BY <1>4 DEF Reading, ReadsOf
<1>7. InputsRead(x)
  BY <1>0, <1>3, <1>5, <1>6 DEF InputsRead
<1>8. PrepTyped(x)
  BY <1>1 DEF PrepTyped, PrepIs
<1>9. Prepared(x)
  BY <1>0, <1>7, <1>8 DEF Prepared
<1> QED
  BY <1>2, <1>9

\* The rest of a walk over a list, from the j-th to the k-th.
LEMMA Walk ==
  ASSUME NEW names \in Seq(Names), NEW k \in DOMAIN names, NEW j \in 1..k, NEW rest,
         rest = SubSeq(names, j, k)
  PROVE  /\ k \in Nat /\ j \in Nat /\ 1 <= j /\ j <= k /\ j \in DOMAIN names
         /\ rest # <<>> /\ Head(rest) = names[j] /\ Tail(rest) = SubSeq(names, j + 1, k)
         /\ Len(rest) = k - j + 1 /\ (j = k <=> Len(rest) = 1)
         /\ j # k => j + 1 \in 1..k
<1>1. DOMAIN names = 1..Len(names) /\ Len(names) \in Nat
  OBVIOUS
<1>2. k \in Nat /\ j \in Nat /\ 1 <= j /\ j <= k /\ j \in 1..Len(names) /\ k \in j..Len(names)
  BY <1>1
<1>3. Head(rest) = names[j] /\ Tail(rest) = SubSeq(names, j + 1, k)
  BY <1>2, HeadTailOfSubSeq
<1>4. \A i \in j..k : names[i] \in Names
  BY <1>1, <1>2
<1>5. Len(rest) = k - j + 1 /\ rest \in Seq(Names)
  BY <1>2, <1>4, SubSeqProperties
<1>6. rest # <<>>
  BY <1>2, <1>5
<1>7. (j = k <=> Len(rest) = 1) /\ (j # k => j + 1 \in 1..k)
  BY <1>2, <1>5
<1> QED
  BY <1>1, <1>2, <1>3, <1>5, <1>6, <1>7

LEMMA OneKey ==
  ASSUME site \in Sites, NEW e \in site.edges, NEW f \in site.edges, Key(e) = Key(f)
  PROVE  e = f
BY SiteAssumption DEF Declared

\* The input that is resolved next.
LEMMA NextInput ==
  ASSUME Inv, NEW e, Resolving(e)
  PROVE  /\ Tables /\ Prepared(prep) /\ prep.reading /\ prep.rest = <<>> /\ InputsRead(prep)
         /\ PrepTyped(prep) /\ PrepIs(prep)
         /\ e = CHOOSE x \in prep.inputs : TRUE
         /\ e \in prep.inputs /\ e \in site.edges /\ e \in Boundary(prep.request, prep.writes)
         /\ prep.request \in site.requests /\ site \in Sites /\ e.parent \in Datasets
         /\ \A x \in prep.reads : x.key # Key(e)
<1>1. Prepared(prep) /\ Tables /\ prep.reading /\ prep.rest = <<>> /\ prep.inputs # {}
  BY DEF Inv, Preparing, Resolving
<1>2. InputsRead(prep) /\ PrepTyped(prep) /\ PrepIs(prep)
  BY <1>1 DEF Prepared, PrepTyped
<1>3. e = CHOOSE x \in prep.inputs : TRUE
  BY DEF Resolving, Upcoming
<1>4. e \in prep.inputs
  BY <1>1, <1>3
<1>5. e \in Boundary(prep.request, prep.writes) /\ \A x \in prep.reads : x.key # Key(e)
  BY <1>1, <1>2, <1>4 DEF InputsRead, Reading
<1>6. prep.request \in site.requests /\ site \in Sites
  BY <1>1, <1>2 DEF PrepTyped, Tables
<1>7. e \in site.edges /\ e.parent \in Datasets
  BY <1>5, <1>6, SiteAssumption DEF Boundary, Requested
<1> QED
  BY <1>1, <1>2, <1>3, <1>4, <1>5, <1>6, <1>7

\* A read more of another input does not disturb what is bound; guards only help.
LEMMA BoundStays ==
  ASSUME NEW r, NEW e, NEW f, Key(e) # Key(f), NEW gs, NEW hs, gs \subseteq hs, NEW reads, NEW x,
         x.key = Key(e), Bound(r, f, gs, reads)
  PROVE  Bound(r, f, hs, reads \cup {x})
<1>1. PICK z \in reads : /\ z.key = Key(f) /\ Resolved(r, f, gs, z)
                         /\ \A y \in reads : y.key = Key(f) => y = z
  BY DEF Bound
<1>2. \A y \in reads \cup {x} : y.key = Key(f) => y = z
  BY <1>1
<1>3. Resolved(r, f, hs, z)
  BY <1>1 DEF Resolved
<1> QED
  BY <1>1, <1>2, <1>3 DEF Bound

LEMMA CoverMore ==
  ASSUME NEW r, NEW gs, NEW hs, gs \subseteq hs, NEW reads
  PROVE  /\ \A f : Bound(r, f, gs, reads) => Bound(r, f, hs, reads)
         /\ \A x : Witnessed(x, gs) => Witnessed(x, hs)
<1>1. ASSUME NEW f, Bound(r, f, gs, reads) PROVE Bound(r, f, hs, reads)
  <2>1. \A z : Resolved(r, f, gs, z) => Resolved(r, f, hs, z)
    BY DEF Resolved
  <2> QED
    BY <1>1, <2>1 DEF Bound
<1>2. ASSUME NEW x, Witnessed(x, gs) PROVE Witnessed(x, hs)
  BY <1>2 DEF Witnessed
<1> QED
  BY <1>1, <1>2

\* The fields of a plan in preparation that reading inputs may change.
LEMMA InputsMove ==
  ASSUME Prepared(prep), prep.reading, InputsRead(prep), NEW inputs, NEW rest, NEW gs, NEW reads, NEW u,
         inputs # {} => u = CHOOSE e \in inputs : TRUE,
         prep' = [prep EXCEPT !.inputs = inputs, !.rest = rest, !.guards = gs, !.reads = reads],
         gs \subseteq GuardOf, prep.guards \subseteq gs,
         \A g \in gs : g.version <= Len(made) /\ (Sees(g) \/ Overtaken(g)),
         rest # <<>> => inputs # {},
         Reading(prep.request, prep.writes, inputs, u, rest, gs, reads)
  PROVE  \E x : prep' = x /\ Prepared(x) /\ x.plan = prep.plan
<1> DEFINE x == [plan |-> prep.plan, request |-> prep.request, at |-> prep.at, output |-> prep.output,
                 todo |-> prep.todo, writes |-> prep.writes, kept |-> prep.kept,
                 guards |-> gs, reading |-> prep.reading, planned |-> prep.planned,
                 inputs |-> inputs, rest |-> rest, reads |-> reads]
<1>1. PrepIs(prep) /\ PrepTyped(prep)
  BY DEF Prepared, PrepTyped
<1>2. prep' = x
  BY <1>1 DEF PrepIs
<1>3. PrepTyped(x)
  BY <1>1 DEF PrepTyped, PrepIs
<1>4. Guarded(prep.request, prep.at, gs, prep.todo, prep.kept)
  <2>1. Guarded(prep.request, prep.at, prep.guards, prep.todo, prep.kept)
    BY DEF Prepared
  <2> QED
    BY <2>1 DEF Guarded
<1> DEFINE c == CHOOSE e \in inputs : TRUE
<1>5. Reading(prep.request, prep.writes, inputs, c, rest, gs, reads)
  <2>1. CASE inputs # {}
    BY <2>1
  <2>2. CASE inputs = {}
    BY <2>2 DEF Reading
  <2> QED
    BY <2>1, <2>2
<1> HIDE DEF c
<1>6. InputsRead(x)
  BY <1>5 DEF InputsRead, c
<1>7. Prepared(x)
  BY <1>3, <1>4, <1>6 DEF Prepared
<1>8. x.plan = prep.plan
  OBVIOUS
<1> HIDE DEF x
<1> QED
  BY <1>2, <1>7, <1>8

LEMMA ResolvePinPrepares ==
  ASSUME Inv, NEW e, ResolvePin(e)
  PROVE  \E x : prep' = x /\ Prepared(x) /\ x.plan = prep.plan
<1> DEFINE r == prep.request
           w == prep.writes
           new == Read(e, None, r.pins[Key(e)])
           reads == prep.reads \cup {new}
           inputs == prep.inputs \ {e}
           u == CHOOSE f \in inputs : TRUE
<1>1. /\ Prepared(prep) /\ prep.reading /\ prep.rest = <<>> /\ InputsRead(prep)
      /\ PrepTyped(prep) /\ PrepIs(prep) /\ Pinned(r, e) /\ site \in Sites
      /\ e \in prep.inputs /\ e \in site.edges /\ e \in Boundary(r, w)
      /\ \A x \in prep.reads : x.key # Key(e)
  BY NextInput DEF ResolvePin
<1>2. prep' = [prep EXCEPT !.inputs = inputs, !.rest = <<>>, !.guards = prep.guards, !.reads = reads]
  <2>1. prep' = [prep EXCEPT !.inputs = inputs, !.reads = reads]
    BY DEF ResolvePin
  <2> HIDE DEF inputs, reads
  <2> QED
    BY <1>1, <2>1 DEF PrepIs
<1>3. new.key = Key(e) /\ new.branch = None /\ new.version = r.pins[Key(e)]
  BY DEF Read
<1>4. \E v : Reading(r, w, prep.inputs, v, <<>>, prep.guards, prep.reads)
  BY <1>1 DEF InputsRead
<1>5. /\ prep.inputs \subseteq Boundary(r, w) /\ ReadsOf(r, w, prep.reads)
      /\ \A f \in Boundary(r, w) \ prep.inputs : Bound(r, f, prep.guards, prep.reads)
      /\ \A x \in prep.reads : Witnessed(x, prep.guards)
      /\ \A f \in prep.inputs : \A x \in prep.reads : x.key # Key(f)
  BY <1>4 DEF Reading
<1>6. \A f \in Boundary(r, w) : f # e => Key(f) # Key(e)
  BY <1>1, OneKey DEF Boundary
<1> HIDE DEF new
<1>7. ReadsOf(r, w, reads)
  BY <1>1, <1>3, <1>5 DEF ReadsOf
<1>8. ASSUME NEW f \in Boundary(r, w) \ inputs PROVE Bound(r, f, prep.guards, reads)
  <2>1. CASE f = e
    <3>1. Resolved(r, e, prep.guards, new)
      BY <1>1, <1>3 DEF Resolved
    <3> QED
      BY <1>1, <1>3, <2>1, <3>1 DEF Bound
  <2>2. CASE f # e
    BY <1>3, <1>5, <1>6, <2>2, BoundStays
  <2> QED
    BY <2>1, <2>2
<1>9. \A x \in reads : Witnessed(x, prep.guards)
  BY <1>3, <1>5 DEF Witnessed
<1>10. \A f \in inputs : \A x \in reads : x.key # Key(f)
  BY <1>3, <1>5, <1>6
<1>11. inputs \subseteq Boundary(r, w)
  BY <1>5
<1> HIDE DEF inputs, reads
<1>12. Reading(r, w, inputs, u, <<>>, prep.guards, reads)
  BY <1>7, <1>8, <1>9, <1>10, <1>11 DEF Reading
<1>13. prep.guards \subseteq GuardOf /\ \A g \in prep.guards : g.version <= Len(made) /\ (Sees(g) \/ Overtaken(g))
  BY <1>1 DEF Prepared, PrepTyped
<1> QED
  BY <1>1, <1>2, <1>12, <1>13, InputsMove

\* A head that can be read: the branch is there and alive.
LEMMA ReadableRow ==
  ASSUME Tables, NEW n \in Names, NEW d \in Datasets, Readable(n, d)
  PROVE  Look(n, d).version # 0 /\ \E i \in RowsNamed(n) : ~row[i].dead
BY LookAt DEF Readable

LEMMA ResolveHeadPrepares ==
  ASSUME Inv, NEW e, ResolveHead(e)
  PROVE  \E x : prep' = x /\ Prepared(x) /\ x.plan = prep.plan
<1> DEFINE r == prep.request
           w == prep.writes
           k == First(r, e)
           names == Candidates(r, e)
           v == Look(names[k], e.parent).version
           new == Read(e, names[k], v)
           reads == prep.reads \cup {new}
           rest == SubSeq(names, 1, k)
<1>1. /\ Prepared(prep) /\ prep.reading /\ prep.rest = <<>> /\ InputsRead(prep) /\ Tables
      /\ PrepTyped(prep) /\ PrepIs(prep) /\ ~Pinned(r, e) /\ site \in Sites /\ r \in site.requests
      /\ e = (CHOOSE x \in prep.inputs : TRUE) /\ e.parent \in Datasets
      /\ e \in prep.inputs /\ e \in site.edges /\ e \in Boundary(r, w)
      /\ \A x \in prep.reads : x.key # Key(e)
  BY NextInput DEF ResolveHead
<1>2. k # 0 /\ prep' = [prep EXCEPT !.rest = SubSeq(names, GuardedFrom(k), k), !.reads = reads]
  BY DEF ResolveHead
<1>3. names \in Seq(Names) /\ DOMAIN names \subseteq Nat
  BY <1>1, CandidatesTyped
<1>4. k \in DOMAIN names /\ Readable(names[k], e.parent)
  <2> DEFINE found == {m \in DOMAIN names : Readable(names[m], e.parent)}
  <2>1. k = IF found = {} THEN 0 ELSE CHOOSE m \in found : \A j \in found : m <= j
    BY DEF First
  <2>2. found # {}
    BY <1>2, <2>1
  <2>3. \E m \in found : \A j \in found : m <= j
    <3>1. found \subseteq Nat
      BY <1>3
    <3> HIDE DEF found
    <3> QED
      BY <2>2, <3>1, LeastNat
  <2> HIDE DEF k
  <2> QED
    BY <2>1, <2>2, <2>3
<1>5. names[k] \in Names
  BY <1>3, <1>4
<1>6. v # 0 /\ \E i \in RowsNamed(names[k]) : ~row[i].dead
  BY <1>1, <1>4, <1>5, ReadableRow
<1>7. prep' = [prep EXCEPT !.inputs = prep.inputs, !.rest = rest, !.guards = prep.guards, !.reads = reads]
  <2>1. prep' = [prep EXCEPT !.rest = rest, !.reads = reads]
    BY <1>2 DEF GuardedFrom
  <2> HIDE DEF rest, reads
  <2> QED
    BY <1>1, <2>1 DEF PrepIs
<1>8. new.key = Key(e) /\ new = Read(e, names[k], new.version) /\ new.version = v
  BY DEF Read
<1>9. Reading(r, w, prep.inputs, e, <<>>, prep.guards, prep.reads)
  BY <1>1 DEF InputsRead
<1>10. /\ prep.inputs \subseteq Boundary(r, w) /\ ReadsOf(r, w, prep.reads)
       /\ \A f \in Boundary(r, w) \ prep.inputs : Bound(r, f, prep.guards, prep.reads)
       /\ \A x \in prep.reads : Witnessed(x, prep.guards)
       /\ \A f \in prep.inputs : \A x \in prep.reads : x.key # Key(f)
  BY <1>9 DEF Reading
<1>11. \A f \in Boundary(r, w) : f # e => Key(f) # Key(e)
  BY <1>1, OneKey DEF Boundary
<1> HIDE DEF new, v, k, names
<1>12. ReadsOf(r, w, reads)
  BY <1>1, <1>8, <1>10 DEF ReadsOf
<1>13. ASSUME NEW f \in Boundary(r, w) \ prep.inputs PROVE Bound(r, f, prep.guards, reads)
  BY <1>1, <1>8, <1>10, <1>11, BoundStays
<1>14. \A x \in reads : x.key = Key(e) \/ Witnessed(x, prep.guards)
  BY <1>8, <1>10
<1>15. \A f \in prep.inputs : f # e => \A x \in reads : x.key # Key(f)
  BY <1>8, <1>10, <1>11
<1>16. Reaching(r, e, prep.guards, reads, rest)
  <2>1. k \in Nat /\ 1 \in 1..k
    BY <1>3, <1>4
  <2>2. \A y \in reads : y.key = Key(e) => y = new
    BY <1>1, <1>8
  <2>3. new \in reads /\ new.version # 0
    BY <1>6, <1>8
  <2>4. \A m \in 1..1 - 1 : \E g \in prep.guards : About(g, names[m], e.parent)
    OBVIOUS
  <2> HIDE DEF reads
  <2> QED
    BY <1>4, <1>6, <1>8, <2>1, <2>2, <2>3, <2>4 DEF Reaching, names
<1>17. rest # <<>>
  <2>1. k \in Nat /\ 1 \in 1..k
    BY <1>3, <1>4
  <2> QED
    BY <1>3, <1>4, <2>1, Walk
<1> HIDE DEF reads, rest
<1>18. Reading(r, w, prep.inputs, e, rest, prep.guards, reads)
  BY <1>1, <1>10, <1>12, <1>13, <1>14, <1>15, <1>16, <1>17 DEF Reading
<1>19. prep.guards \subseteq GuardOf /\ \A g \in prep.guards : g.version <= Len(made) /\ (Sees(g) \/ Overtaken(g))
  BY <1>1 DEF Prepared, PrepTyped
<1> QED
  BY <1>1, <1>7, <1>18, <1>19, InputsMove

LEMMA GuardInputPrepares ==
  ASSUME Inv, GuardInput
  PROVE  \E x : prep' = x /\ Prepared(x) /\ x.plan = prep.plan
<1> DEFINE r == prep.request
           w == prep.writes
           e == Upcoming
           names == Candidates(r, e)
           g == Look(Head(prep.rest), e.parent)
           gs == prep.guards \cup {g}
           last == Len(prep.rest) = 1
           inputs == IF last THEN prep.inputs \ {e} ELSE prep.inputs
           rest == Tail(prep.rest)
           u == IF last THEN CHOOSE f \in inputs : TRUE ELSE e
<1>1. Prepared(prep) /\ Tables /\ prep.rest # <<>> /\ prep.reading
  BY DEF Inv, Preparing, GuardInput, Prepared
<1>2. InputsRead(prep) /\ PrepTyped(prep) /\ PrepIs(prep)
  BY <1>1 DEF Prepared, PrepTyped
<1>3. r \in site.requests /\ site \in Sites
  BY <1>1, <1>2 DEF PrepTyped, Tables
<1>4. e = CHOOSE x \in prep.inputs : TRUE
  BY DEF Upcoming
<1> HIDE DEF e
<1>5. Reading(r, w, prep.inputs, e, prep.rest, prep.guards, prep.reads)
  BY <1>2, <1>4 DEF InputsRead
<1>6. /\ prep.inputs \subseteq Boundary(r, w) /\ ReadsOf(r, w, prep.reads)
      /\ \A f \in Boundary(r, w) \ prep.inputs : Bound(r, f, prep.guards, prep.reads)
      /\ \A x \in prep.reads : x.key = Key(e) \/ Witnessed(x, prep.guards)
      /\ \A f \in prep.inputs : f # e => \A x \in prep.reads : x.key # Key(f)
      /\ e \in prep.inputs /\ ~Pinned(r, e)
      /\ Reaching(r, e, prep.guards, prep.reads, prep.rest)
  BY <1>1, <1>5 DEF Reading
<1>7. e \in site.edges /\ e.parent \in Datasets
  BY <1>3, <1>6, SiteAssumption DEF Boundary, Requested
<1>8. names \in Seq(Names)
  BY <1>3, CandidatesTyped
<1>9. PICK k \in DOMAIN names : \E j \in 1..k :
        /\ prep.rest = SubSeq(names, j, k)
        /\ \A m \in 1..j - 1 : \E h \in prep.guards : About(h, names[m], e.parent)
        /\ \E x \in prep.reads : /\ x = Read(e, names[k], x.version) /\ x.version # 0
                                 /\ \A y \in prep.reads : y.key = Key(e) => y = x
        /\ \E i \in RowsNamed(names[k]) : ~row[i].dead
  BY <1>6 DEF Reaching
<1>10. PICK j \in 1..k :
        /\ prep.rest = SubSeq(names, j, k)
        /\ \A m \in 1..j - 1 : \E h \in prep.guards : About(h, names[m], e.parent)
        /\ \E x \in prep.reads : /\ x = Read(e, names[k], x.version) /\ x.version # 0
                                 /\ \A y \in prep.reads : y.key = Key(e) => y = x
        /\ \E i \in RowsNamed(names[k]) : ~row[i].dead
  BY <1>9
<1>11. PICK read \in prep.reads : /\ read = Read(e, names[k], read.version) /\ read.version # 0
                                  /\ \A y \in prep.reads : y.key = Key(e) => y = read
  BY <1>10
<1>12. /\ k \in Nat /\ j \in Nat /\ 1 <= j /\ j <= k /\ j \in DOMAIN names
       /\ Head(prep.rest) = names[j] /\ rest = SubSeq(names, j + 1, k)
       /\ (j = k <=> last) /\ (j # k => j + 1 \in 1..k)
  <2>1. prep.rest = SubSeq(names, j, k)
    BY <1>10
  <2> DEFINE s == prep.rest
  <2>2. s = SubSeq(names, j, k)
    BY <2>1
  <2> HIDE DEF names, s
  <2>3. /\ k \in Nat /\ j \in Nat /\ 1 <= j /\ j <= k /\ j \in DOMAIN names
        /\ Head(s) = names[j] /\ Tail(s) = SubSeq(names, j + 1, k)
        /\ (j = k <=> Len(s) = 1) /\ (j # k => j + 1 \in 1..k)
    BY <1>8, <2>2, Walk, SMTT(30)
  <2> QED
    BY <2>3 DEF s
<1>13. names[j] \in Names /\ names[k] \in Names
  BY <1>8, <1>12
<1>14. g \in GuardOf /\ About(g, names[j], e.parent) /\ Sees(g) /\ g.version <= Len(made)
       /\ g = Look(names[j], e.parent)
  BY <1>1, <1>7, <1>12, <1>13, Guards
<1>15. prep' = [prep EXCEPT !.inputs = inputs, !.rest = rest, !.guards = gs, !.reads = prep.reads]
       /\ (last => Read(e, g.name, g.version) \in prep.reads)
  <2>1. prep' = [prep EXCEPT !.rest = rest, !.guards = gs, !.inputs = inputs]
        /\ (last => Read(e, g.name, g.version) \in prep.reads)
    BY DEF GuardInput, e
  <2> HIDE DEF rest, gs, inputs, g, last
  <2> QED
    BY <1>2, <2>1 DEF PrepIs
<1> HIDE DEF names, g, rest
<1>16. gs \subseteq GuardOf /\ prep.guards \subseteq gs
       /\ \A h \in gs : h.version <= Len(made) /\ (Sees(h) \/ Overtaken(h))
  BY <1>1, <1>2, <1>14 DEF Prepared, PrepTyped
<1>17. \A m \in 1..j : \E h \in gs : About(h, names[m], e.parent)
  <2> TAKE m \in 1..j
  <2>1. CASE m = j
    BY <1>14, <2>1
  <2>2. CASE m # j
    <3>1. m \in 1..j - 1
      BY <1>12, <2>2
    <3> QED
      BY <1>10, <3>1
  <2> QED
    BY <2>1, <2>2
<1>18. /\ \A f : Bound(r, f, prep.guards, prep.reads) => Bound(r, f, gs, prep.reads)
       /\ \A x : Witnessed(x, prep.guards) => Witnessed(x, gs)
  BY CoverMore
<1>19. read.key = Key(e) /\ read.dataset = e.parent /\ read.branch = names[k]
  BY <1>11 DEF Read
<1>20. CASE last
  <2>1. j = k /\ rest = <<>> /\ inputs = prep.inputs \ {e}
    <3>1. j = k /\ k \in Nat /\ inputs = prep.inputs \ {e} /\ rest = SubSeq(names, j + 1, k)
      BY <1>12, <1>20
    <3>2. SubSeq(names, k + 1, k) = <<>>
      BY <3>1, SubSeqEmpty
    <3> QED
      BY <3>1, <3>2
  <2>2. g.version = read.version
    <3>1. Read(e, g.name, g.version) \in prep.reads /\ Read(e, g.name, g.version).key = Key(e)
      BY <1>15, <1>20 DEF Read
    <3>2. Read(e, g.name, g.version) = read
      BY <1>11, <3>1
    <3> QED
      BY <3>2 DEF Read
  <2>3. Shows(g)
    <3>1. PICK i \in RowsNamed(names[k]) : ~row[i].dead
      BY <1>10
    <3>2. g.branch # None /\ g.branch \in RowsNamed(names[k]) /\ g.dead = row[g.branch].dead
      BY <1>1, <1>7, <1>13, <1>14, <2>1, <3>1, LookAt
    <3>3. g.branch = i
      BY <1>1, <3>1, <3>2, OneRow
    <3> QED
      BY <1>11, <2>2, <3>1, <3>2, <3>3 DEF Shows
  <2>4. Resolved(r, e, gs, read)
    BY <1>6, <1>14, <1>17, <1>19, <2>1, <2>2, <2>3 DEF Resolved, names
  <2>5. Bound(r, e, gs, prep.reads)
    BY <1>11, <1>19, <2>4 DEF Bound
  <2>6. Witnessed(read, gs)
    BY <1>14, <1>19, <2>1, <2>2 DEF Witnessed
  <2>7. \A x \in prep.reads : Witnessed(x, gs)
    BY <1>6, <1>11, <1>18, <2>6
  <2>8. \A f \in Boundary(r, w) \ inputs : Bound(r, f, gs, prep.reads)
    BY <1>6, <1>18, <2>1, <2>5
  <2>9. \A f \in inputs : \A x \in prep.reads : x.key # Key(f)
    BY <1>6, <2>1
  <2>10. inputs \subseteq Boundary(r, w)
    BY <1>6, <2>1
  <2> HIDE DEF inputs, gs, u
  <2>11. Reading(r, w, inputs, u, rest, gs, prep.reads)
    BY <1>6, <2>1, <2>7, <2>8, <2>9, <2>10 DEF Reading
  <2>12. inputs # {} => u = CHOOSE f \in inputs : TRUE
    BY <1>20 DEF u
  <2>13. rest # <<>> => inputs # {}
    BY <2>1
  <2> QED
    BY <1>1, <1>2, <1>15, <1>16, <2>11, <2>12, <2>13, InputsMove
<1>21. CASE ~last
  <2>1. j # k /\ inputs = prep.inputs /\ u = e /\ j + 1 \in 1..k /\ (j + 1) - 1 = j
    BY <1>12, <1>21
  <2>2. rest # <<>>
    <3> DEFINE n == j + 1
    <3>1. n \in 1..k /\ rest = SubSeq(names, n, k) /\ names \in Seq(Names)
      BY <1>8, <1>12, <2>1 DEF names
    <3> HIDE DEF n
    <3> QED
      BY <1>12, <3>1, Walk, SMTT(30)
  <2>3. Reaching(r, e, gs, prep.reads, rest)
    <3> DEFINE n == j + 1
    <3>1. n \in 1..k /\ rest = SubSeq(names, n, k) /\ \A m \in 1..n - 1 : \E h \in gs : About(h, names[m], e.parent)
      BY <1>12, <1>17, <2>1
    <3> HIDE DEF n, gs
    <3> QED
      BY <1>10, <3>1 DEF Reaching, names
  <2> HIDE DEF gs, inputs, u
  <2>4. Reading(r, w, inputs, u, rest, gs, prep.reads)
    BY <1>6, <1>18, <2>1, <2>2, <2>3 DEF Reading
  <2>5. inputs # {} /\ u = CHOOSE f \in inputs : TRUE
    BY <1>4, <1>6, <2>1 DEF e
  <2> QED
    BY <1>1, <1>2, <1>15, <1>16, <2>4, <2>5, InputsMove
<1> QED
  BY <1>20, <1>21

\* A plan in preparation goes on in one of its own steps, or waits.
LEMMA PrepSteps ==
  ASSUME Inv, [Step]_vars, prep' # None
  PROVE  /\ UNCHANGED <<row, hand, draft>> /\ hand = None
         /\ \/ \E p \in Plans, r \in site.requests : Begin(p, r)
            \/ prep # None /\ (GuardOutput \/ Settle \/ GuardInput \/ prep' = prep
                                \/ \E e : ResolvePin(e) \/ ResolveHead(e))
<1>0. prep # None => hand = None
  BY DEF Inv, Preparing
<1>1. ASSUME NEW p \in Plans, NEW r \in site.requests, Begin(p, r)
      PROVE  UNCHANGED <<row, hand, draft>> /\ hand = None
  BY <1>1, SMTT(30) DEF Begin, Idle, store
<1>2. CASE GuardOutput \/ Settle \/ GuardInput
  BY <1>0, <1>2 DEF GuardOutput, Settle, GuardInput, store
<1>3. ASSUME NEW e, ResolvePin(e) \/ ResolveHead(e)
      PROVE  UNCHANGED <<row, hand, draft>> /\ hand = None /\ prep # None
  BY <1>0, <1>3 DEF ResolvePin, ResolveHead, Resolving
<1>4. ~(Abandon \/ Save \/ Restart \/ Claim)
  BY DEF Abandon, Save, Restart, Claim, Idle
<1>5. ASSUME NEW p \in Plans PROVE ~Take(p) /\ \A i : ~Accept(p, i)
  BY <1>0, IdentityAssumption DEF Take, Accept, Idle
<1>6. ~Decline
  BY <1>0 DEF Decline
<1>7. ASSUME NEW p, NEW d, StartBuild(p) \/ EndBuild(p) \/ PublishOutput(p, d)
      PROVE  UNCHANGED <<row, hand, draft>> /\ hand = None /\ prep' = prep /\ prep # None
  BY <1>0, <1>7 DEF StartBuild, EndBuild, PublishOutput
<1>8. ASSUME NEW i, NEW n
      PROVE  ~(Import(i, n) \/ CreateBranch(i, n) \/ RenameBranch(i, n) \/ DeleteBranch(i))
  BY DEF Import, CreateBranch, RenameBranch, DeleteBranch, ChangeBranch, Idle
<1>9. ASSUME NEW i, NEW n, PreviewBranch(i, n) \/ Shown \/ Tick \/ UNCHANGED vars
      PROVE  UNCHANGED <<row, hand, draft>> /\ hand = None /\ prep' = prep /\ prep # None
  BY <1>0, <1>9, SMTT(30) DEF PreviewBranch, Shown, Tick, vars, store
<1>10. CASE Next
  BY <1>1, <1>2, <1>3, <1>4, <1>5, <1>6, <1>7, <1>8, <1>9, <1>10
     DEF Next, Elsewhere, GuardOutput, Settle, GuardInput
<1>11. CASE UNCHANGED vars
  BY <1>9, <1>11
<1> QED
  BY <1>4, <1>10, <1>11 DEF Step

LEMMA PreparingStep ==
  ASSUME Inv, [Step]_vars, Tables', Grown
  PROVE  Preparing'
<1> SUFFICES ASSUME prep' # None
             PROVE  hand' = None /\ draft'[prep'.plan] = None /\ Prepared(prep)'
  BY DEF Preparing
<1>1. UNCHANGED <<row, hand, draft>> /\ hand = None
  BY PrepSteps
<1>2. Tables /\ (prep # None => Prepared(prep) /\ draft[prep.plan] = None)
  BY DEF Inv, Preparing
<1>3. \E x : prep' = x /\ Prepared(x) /\ draft[x.plan] = None
  <2>1. ASSUME NEW p \in Plans, NEW r \in site.requests, Begin(p, r)
        PROVE  \E x : prep' = x /\ Prepared(x) /\ draft[x.plan] = None
    <3>1. PICK x : prep' = x /\ Prepared(x) /\ x.plan = p
      BY <2>1, BeginPrepares
    <3> QED
      BY <2>1, <3>1 DEF Begin
  <2>2. ASSUME prep # None, GuardOutput \/ Settle \/ GuardInput \/ \E e : ResolvePin(e) \/ ResolveHead(e)
        PROVE  \E x : prep' = x /\ Prepared(x) /\ draft[x.plan] = None
    <3>1. PICK x : prep' = x /\ Prepared(x) /\ x.plan = prep.plan
      BY <2>2, GuardOutputPrepares, SettlePrepares, GuardInputPrepares, ResolvePinPrepares, ResolveHeadPrepares
    <3> QED
      BY <1>2, <2>2, <3>1
  <2>3. CASE prep # None /\ prep' = prep
    BY <1>2, <2>3
  <2> QED
    BY <2>1, <2>2, <2>3, PrepSteps
<1>4. PICK x : prep' = x /\ Prepared(x) /\ draft[x.plan] = None
  BY <1>3
<1>5. Prepared(x)'
  BY <1>1, <1>2, <1>4, PreparedKept
<1> QED
  BY <1>1, <1>4, <1>5

-----------------------------------------------------------------------------
(* Builds. *)

LEMMA BuildsKept ==
  ASSUME Builds, build' \in [Plans -> BuildOf \cup {None}],
         \A p \in Plans : build'[p] # None =>
            /\ build[p] # None /\ draft'[p] = draft[p]
            /\ build'[p].branch = build[p].branch /\ build'[p].writes = build[p].writes
            /\ build[p].done \subseteq build'[p].done,
         \A p \in Plans : Active(p)' =>
            /\ Active(p) /\ row'[build[p].branch] = row[build[p].branch]
            /\ \A d \in build'[p].writes \ build'[p].done :
                    head'[<<build[p].branch, d>>] = head[<<build[p].branch, d>>]
  PROVE  Builds'
<1>1. \A p \in Plans : build'[p] # None => draft'[p] # None /\ build'[p].writes = draft'[p].writes
  BY DEF Builds
<1>2. ASSUME NEW p \in Plans, Active(p)' PROVE Standing(p)'
  <2>1. Standing(p) /\ draft'[p] = draft[p] /\ build'[p].branch = build[p].branch
        /\ build'[p].writes = build[p].writes /\ build[p].done \subseteq build'[p].done
    BY <1>2 DEF Builds, Active
  <2>2. row'[build[p].branch] = row[build[p].branch]
        /\ \A d \in build'[p].writes \ build'[p].done :
                head'[<<build[p].branch, d>>] = head[<<build[p].branch, d>>]
    BY <1>2
  <2> QED
    BY <2>1, <2>2 DEF Standing, About
<1>3. \A p, q \in Plans : Active(p)' /\ Active(q)' /\ p # q /\ build'[p].branch = build'[q].branch
                            => build'[p].writes \cap build'[q].writes = {}
  <2>1. \A p \in Plans : Active(p)' => Active(p) /\ build'[p].branch = build[p].branch
                                       /\ build'[p].writes = build[p].writes
    BY DEF Active
  <2> QED
    BY <2>1 DEF Builds
<1> QED
  BY <1>1, <1>2, <1>3 DEF Builds, BuildOf

\* Steps that change no build and nothing that an active one stands on.
LEMMA BuildsQuiet ==
  ASSUME Builds, build' = build, \A p \in Plans : build[p] # None => draft'[p] = draft[p],
         \A p \in Plans : Active(p) =>
            /\ row'[build[p].branch] = row[build[p].branch]
            /\ \A d \in build[p].writes : head'[<<build[p].branch, d>>] = head[<<build[p].branch, d>>]
  PROVE  Builds'
<1>1. \A p \in Plans : Active(p)' => Active(p)
  BY DEF Active
<1>2. build' \in [Plans -> BuildOf \cup {None}]
  BY DEF Builds
<1> QED
  BY <1>1, <1>2, BuildsKept

LEMMA PublishElsewhere ==
  ASSUME Tables, NEW i \in Branches, NEW d \in Datasets, Publish(i, d)
  PROVE  \A j \in Branches, x \in Datasets :
            j # i \/ x # d => head'[<<j, x>>] = head[<<j, x>>]
BY DEF Tables, Publish

LEMMA DraftWrites ==
  ASSUME Tables, NEW d, Drafted(d)
  PROVE  d.writes \subseteq Producers /\ d.writes \subseteq Datasets
<1>1. d.writes \subseteq Producers
  BY DEF Drafted, Guarded
<1>2. site.order \in Seq(Datasets)
  BY SiteAssumption DEF Tables, Requested
<1>3. Producers \subseteq Datasets
  BY <1>2 DEF Producers, ToSet
<1> QED
  BY <1>1, <1>3


\* An accepted plan stands where it was planned.
LEMMA AcceptBuilds ==
  ASSUME Inv, NEW p \in Plans, NEW i \in Branches, Accept(p, i)
  PROVE  Builds'
<1> DEFINE d == draft[p]
           n == d.request.branch
           b == [branch |-> i, state |-> "QUEUED", writes |-> d.writes, done |-> {}]
<1>0. Tables /\ Drafts /\ Builds /\ site \in Sites
  BY DEF Inv, Tables
<1>1. /\ d # None /\ build[p] = None /\ UNCHANGED <<head, draft>>
      /\ \A g \in d.guards \cup {d.output} : Sees(g)
      /\ \A x \in d.writes : ~Reserved(i, x)
      /\ build' = [build EXCEPT ![p] = b]
  BY DEF Accept, Valid
<1>2. Drafted(d)
  BY <1>0, <1>1 DEF Drafts
<1>3. /\ d.request \in site.requests /\ d.guards \subseteq GuardOf
      /\ d.output.name = n /\ d.output.dataset = None /\ ~d.output.dead
  BY <1>2 DEF Drafted, OutputOf
<1>4. n \in Names
  BY <1>0, <1>3, RequestTyped
<1>5. d.writes \subseteq Datasets
  BY <1>0, <1>2, DraftWrites
<1>6. Look(n, None) = d.output
  BY <1>1, <1>3 DEF Sees
<1> DEFINE new == [name |-> n, rev |-> 0, dead |-> FALSE]
<1>7. \/ d.output.branch = i /\ i # None /\ row' = row
      \/ d.output.branch = None /\ row[i] = None /\ row' = [row EXCEPT ![i] = new]
  BY IdentityAssumption DEF Accept
<1> HIDE DEF d, n
<1>8. row \in [Branches -> Row \cup {None}]
  BY <1>0 DEF Tables
<1>9. \A q \in Plans : Active(q) => row'[build[q].branch] = row[build[q].branch]
  <2> SUFFICES ASSUME NEW q \in Plans, Active(q)
               PROVE  row'[build[q].branch] = row[build[q].branch]
    OBVIOUS
  <2>1. row[build[q].branch] # None /\ build[q].branch \in Branches
    BY <1>0 DEF Builds, Standing, BuildOf, Active
  <2> HIDE DEF new
  <2> QED
    BY <1>7, <1>8, <2>1
<1>10. /\ row'[i] # None /\ row'[i].name = n /\ ~row'[i].dead
       /\ \A x \in d.writes, g \in d.guards : About(g, n, x) => head[<<i, x>>].gen = g.gen
  <2>1. ASSUME NEW x \in d.writes, NEW g \in d.guards, About(g, n, x)
        PROVE  g = Look(n, x) /\ x \in Datasets
    BY <1>1, <1>5, <2>1 DEF Sees, About
  <2>2. CASE d.output.branch = i /\ i # None /\ row' = row
    <3>1. RowsNamed(n) # {}
      BY <1>6, <2>2 DEF Look
    <3>2. i = CHOOSE r \in RowsNamed(n) : TRUE
      BY <1>6, <2>2, <3>1 DEF Look
    <3>3. i \in RowsNamed(n) /\ row[i].dead = d.output.dead
      BY <1>6, <2>2, <3>1, <3>2 DEF Look
    <3>4. ASSUME NEW x \in d.writes, NEW g \in d.guards, About(g, n, x)
          PROVE  head[<<i, x>>].gen = g.gen
      <4>1. g = Look(n, x) /\ x \in Datasets
        BY <2>1, <3>4
      <4>2. g.branch \in RowsNamed(n) /\ g.gen = head[<<g.branch, x>>].gen
        BY <1>0, <1>4, <3>1, <4>1, LookAt
      <4>3. g.branch = i
        BY <1>0, <3>3, <4>2, OneRow
      <4> QED
        BY <4>2, <4>3
    <3> QED
      BY <1>3, <2>2, <3>3, <3>4 DEF RowsNamed
  <2>3. CASE d.output.branch = None /\ row[i] = None /\ row' = [row EXCEPT ![i] = new]
    <3>1. RowsNamed(n) = {}
      BY <1>6, <2>3, AbsentRow
    <3>2. row'[i] = new /\ new # None
      <4>1. new \in Row
        BY <1>4 DEF Row
      <4> HIDE DEF new
      <4> QED
        BY <1>8, <2>3, <4>1, IdentityAssumption
    <3>3. ASSUME NEW x \in d.writes, NEW g \in d.guards, About(g, n, x)
          PROVE  head[<<i, x>>].gen = g.gen
      <4>1. g = Look(n, x) /\ x \in Datasets
        BY <2>1, <3>3
      <4>2. g.gen = 0
        BY <1>0, <1>4, <3>1, <4>1, LookAt
      <4>3. head[<<i, x>>] = Unset
        BY <1>0, <2>3, <4>1 DEF Tables
      <4> QED
        BY <4>2, <4>3 DEF Unset
    <3> QED
      BY <3>2, <3>3
  <2> QED
    BY <1>7, <2>2, <2>3
<1>11. b \in BuildOf /\ b.branch = i /\ b.state = "QUEUED" /\ b.writes = d.writes /\ b.done = {}
  <2>1. b \in BuildOf
    BY <1>5 DEF BuildOf
  <2> QED
    BY <2>1
<1> HIDE DEF b
<1>12. build \in [Plans -> BuildOf \cup {None}]
  BY <1>0 DEF Builds
<1>13. build' \in [Plans -> BuildOf \cup {None}] /\ build'[p] = b
       /\ \A q \in Plans \ {p} : build'[q] = build[q]
  BY <1>1, <1>11, <1>12
<1>14. \A q \in Plans : build'[q] # None => draft'[q] # None /\ build'[q].writes = draft'[q].writes
  BY <1>0, <1>1, <1>11, <1>13 DEF Builds, d
<1>15. ASSUME NEW q \in Plans, Active(q)' PROVE Standing(q)'
  <2>1. CASE q = p
    BY <1>1, <1>10, <1>11, <1>13, <2>1 DEF Standing, d, n, About
  <2>2. CASE q # p
    <3>1. Active(q) /\ Standing(q)
      BY <1>0, <1>13, <1>15, <2>2 DEF Active, Builds
    <3> QED
      BY <1>1, <1>9, <1>13, <2>2, <3>1 DEF Standing, About
  <2> QED
    BY <2>1, <2>2
<1>16. ASSUME NEW q \in Plans \ {p}, Active(q)', build'[q].branch = i
       PROVE  build'[q].writes \cap d.writes = {}
  <2>1. Active(q) /\ build[q].branch = i /\ build'[q].writes = build[q].writes
    BY <1>13, <1>16 DEF Active
  <2> QED
    BY <1>1, <2>1 DEF Reserved, Holds, Active
<1>17. \A q, r \in Plans : Active(q)' /\ Active(r)' /\ q # r /\ build'[q].branch = build'[r].branch
                            => build'[q].writes \cap build'[r].writes = {}
  <2> SUFFICES ASSUME NEW q \in Plans, NEW r \in Plans, Active(q)', Active(r)', q # r,
                      build'[q].branch = build'[r].branch
               PROVE  build'[q].writes \cap build'[r].writes = {}
    OBVIOUS
  <2>1. CASE q = p
    BY <1>11, <1>13, <1>16, <2>1
  <2>2. CASE r = p
    BY <1>11, <1>13, <1>16, <2>2
  <2>3. CASE q # p /\ r # p
    BY <1>0, <1>13, <2>3 DEF Active, Builds
  <2> QED
    BY <2>1, <2>2, <2>3
<1> QED
  BY <1>13, <1>14, <1>15, <1>17 DEF Builds, BuildOf

LEMMA BuildsStep ==
  ASSUME Inv, [Step]_vars
  PROVE  Builds'
<1>0. Tables /\ Preparing /\ Drafts /\ Builds
  BY DEF Inv
<1> DEFINE Same == UNCHANGED <<build, row, head>>
<1>1. ASSUME Same, draft' = draft PROVE Builds'
  BY <1>0, <1>1, BuildsQuiet
<1>2. CASE Save
  <2>1. Same /\ draft' = [draft EXCEPT ![prep.plan] = draft'[prep.plan]]
        /\ draft = [q \in Plans |-> draft[q]]
    BY <1>0, <1>2 DEF Save, Drafts
  <2>2. draft[prep.plan] = None
    BY <1>0, <1>2 DEF Save, Preparing
  <2>3. \A q \in Plans : build[q] # None => q # prep.plan
    BY <1>0, <2>2 DEF Builds
  <2>4. \A q \in Plans : build[q] # None => draft'[q] = draft[q]
    BY <2>1, <2>3
  <2> QED
    BY <1>0, <2>1, <2>4, BuildsQuiet
<1>3. ASSUME NEW p \in Plans, NEW i \in Branches, Accept(p, i) PROVE Builds'
  BY <1>3, AcceptBuilds
<1>4. ASSUME NEW p \in Plans, StartBuild(p) PROVE Builds'
  <2>1. /\ build[p] # None /\ build[p].state = "QUEUED" /\ UNCHANGED <<row, head, draft>>
        /\ build' = [build EXCEPT ![p] = [build[p] EXCEPT !.state = "RUNNING"]]
    BY <1>4 DEF StartBuild
  <2>2. build[p] \in BuildOf /\ build \in [Plans -> BuildOf \cup {None}]
    BY <1>0, <2>1 DEF Builds
  <2> DEFINE b == [build[p] EXCEPT !.state = "RUNNING"]
  <2>3. b \in BuildOf /\ b.branch = build[p].branch /\ b.writes = build[p].writes /\ b.done = build[p].done
    BY <2>2 DEF BuildOf
  <2> HIDE DEF b
  <2>4. build' \in [Plans -> BuildOf \cup {None}] /\ build'[p] = b
        /\ \A q \in Plans \ {p} : build'[q] = build[q]
    BY <2>1, <2>2, <2>3 DEF b
  <2>5. \A q \in Plans : Active(q)' => Active(q)
    BY <2>1, <2>4 DEF Active
  <2> QED
    BY <1>0, <2>1, <2>3, <2>4, <2>5, BuildsKept
<1>5. ASSUME NEW p \in Plans, EndBuild(p) PROVE Builds'
  <2>1. /\ build[p] # None /\ build[p].state = "RUNNING" /\ UNCHANGED <<row, head, draft>>
        /\ build' = [build EXCEPT ![p] = [build[p] EXCEPT !.state = "ENDED"]]
    BY <1>5 DEF EndBuild
  <2>2. build[p] \in BuildOf /\ build \in [Plans -> BuildOf \cup {None}]
    BY <1>0, <2>1 DEF Builds
  <2> DEFINE b == [build[p] EXCEPT !.state = "ENDED"]
  <2>3. b \in BuildOf /\ b.branch = build[p].branch /\ b.writes = build[p].writes /\ b.done = build[p].done
    BY <2>2 DEF BuildOf
  <2> HIDE DEF b
  <2>4. build' \in [Plans -> BuildOf \cup {None}] /\ build'[p] = b
        /\ \A q \in Plans \ {p} : build'[q] = build[q]
    BY <2>1, <2>2, <2>3 DEF b
  <2>5. \A q \in Plans : Active(q)' => Active(q)
    BY <2>1, <2>4 DEF Active
  <2> QED
    BY <1>0, <2>1, <2>3, <2>4, <2>5, BuildsKept
<1>6. CASE Restart
  <2>1. UNCHANGED <<row, head, draft>>
        /\ build' = [q \in Plans |-> IF build[q] # None /\ build[q].state = "RUNNING"
                                     THEN [build[q] EXCEPT !.state = "ENDED"] ELSE build[q]]
    BY <1>6 DEF Restart
  <2>2. build \in [Plans -> BuildOf \cup {None}]
    BY <1>0 DEF Builds
  <2>3. ASSUME NEW q \in Plans, build[q] # None
        PROVE  /\ build'[q] \in BuildOf /\ build'[q].branch = build[q].branch
               /\ build'[q].writes = build[q].writes /\ build'[q].done = build[q].done
    <3>1. build[q] \in BuildOf
      BY <2>2, <2>3
    <3> QED
      BY <2>1, <2>3, <3>1 DEF BuildOf
  <2>4. \A q \in Plans : build[q] = None => build'[q] = None
    BY <2>1
  <2>5. build' \in [Plans -> BuildOf \cup {None}]
    BY <2>1, <2>3, <2>4
  <2>6. \A q \in Plans : Active(q)' => Active(q)
    BY <2>1 DEF Active
  <2> QED
    BY <1>0, <2>1, <2>3, <2>4, <2>5, <2>6, BuildsKept
<1>7. ASSUME NEW p \in Plans, NEW d \in Datasets, PublishOutput(p, d) PROVE Builds'
  <2>1. /\ Active(p) /\ d \in build[p].writes \ build[p].done /\ Publish(build[p].branch, d)
        /\ UNCHANGED <<row, draft>>
        /\ build' = [build EXCEPT ![p] = [build[p] EXCEPT !.done = @ \cup {d}]]
    BY <1>7 DEF PublishOutput, Active
  <2>2. build[p] \in BuildOf /\ build[p].branch \in Branches /\ build \in [Plans -> BuildOf \cup {None}]
    BY <1>0, <2>1 DEF Builds, Active, BuildOf
  <2> DEFINE b == [build[p] EXCEPT !.done = @ \cup {d}]
  <2>3. /\ b \in BuildOf /\ b.branch = build[p].branch /\ b.writes = build[p].writes
        /\ b.done = build[p].done \cup {d}
    BY <2>2 DEF BuildOf
  <2> HIDE DEF b
  <2>4. build' \in [Plans -> BuildOf \cup {None}] /\ build'[p] = b
        /\ \A q \in Plans \ {p} : build'[q] = build[q]
    BY <2>1, <2>2, <2>3 DEF b
  <2>5. \A q \in Plans : Active(q)' => Active(q)
    BY <2>1, <2>4 DEF Active
  <2>6. ASSUME NEW q \in Plans, Active(q), NEW x \in build'[q].writes \ build'[q].done
        PROVE  head'[<<build[q].branch, x>>] = head[<<build[q].branch, x>>]
    <3>1. build[q] \in BuildOf
      BY <1>0, <2>6 DEF Builds, Active
    <3>2. build[q].branch \in Branches /\ build'[q].writes = build[q].writes
          /\ build[q].writes \subseteq Datasets
      BY <2>3, <2>4, <3>1 DEF BuildOf
    <3>3. build[q].branch # build[p].branch \/ x # d
      <4>1. CASE q = p
        BY <2>3, <2>4, <4>1
      <4>2. CASE q # p /\ build[q].branch = build[p].branch
        <5>1. build[p].writes \cap build[q].writes = {}
          BY <1>0, <2>1, <2>6, <4>2 DEF Builds
        <5> QED
          BY <2>1, <3>2, <5>1
      <4> QED
        BY <4>1, <4>2
    <3> QED
      BY <1>0, <2>1, <2>2, <3>2, <3>3, PublishElsewhere
  <2>7. \A q \in Plans : Active(q)' =>
            /\ Active(q) /\ row'[build[q].branch] = row[build[q].branch]
            /\ \A x \in build'[q].writes \ build'[q].done :
                    head'[<<build[q].branch, x>>] = head[<<build[q].branch, x>>]
    BY <2>1, <2>5, <2>6
  <2>8. \A q \in Plans : build'[q] # None =>
            /\ build[q] # None /\ draft'[q] = draft[q]
            /\ build'[q].branch = build[q].branch /\ build'[q].writes = build[q].writes
            /\ build[q].done \subseteq build'[q].done
    BY <2>1, <2>3, <2>4 DEF Active
  <2> QED
    BY <1>0, <2>4, <2>7, <2>8, BuildsKept
<1>8. ASSUME NEW i \in Branches, NEW d \in Datasets, Import(i, d) PROVE Builds'
  <2>1. Publish(i, d) /\ UNCHANGED <<row, draft, build>> /\ d \notin Producers
    BY <1>8 DEF Import
  <2>2. ASSUME NEW q \in Plans, Active(q), NEW x \in build[q].writes
        PROVE  head'[<<build[q].branch, x>>] = head[<<build[q].branch, x>>]
    <3>1. build[q] \in BuildOf /\ draft[q] # None /\ build[q].writes = draft[q].writes
      BY <1>0, <2>2 DEF Builds, Active
    <3>2. x \in Producers /\ x \in Datasets
      BY <1>0, <2>2, <3>1, DraftWrites DEF Drafts
    <3>3. build[q].branch \in Branches
      BY <3>1 DEF BuildOf
    <3> QED
      BY <1>0, <2>1, <3>2, <3>3, PublishElsewhere
  <2> QED
    BY <1>0, <2>1, <2>2, BuildsQuiet
<1>9. ASSUME NEW i \in Branches, UNCHANGED <<head, draft, build>>,
             \A q \in Plans : Active(q) => build[q].branch # i,
             \E x : row' = [row EXCEPT ![i] = x]
      PROVE  Builds'
  <2>1. ASSUME NEW q \in Plans, Active(q) PROVE row'[build[q].branch] = row[build[q].branch]
    <3>1. build[q].branch \in Branches /\ build[q].branch # i /\ row \in [Branches -> Row \cup {None}]
      BY <1>0, <1>9, <2>1 DEF Builds, Active, BuildOf, Tables
    <3> QED
      BY <1>9, <3>1
  <2> QED
    BY <1>0, <1>9, <2>1, BuildsQuiet
<1>10. ASSUME NEW i \in Branches, NEW n \in Names, CreateBranch(i, n) PROVE Builds'
  <2>1. row[i] = None /\ UNCHANGED <<head, draft, build>> /\ \E x : row' = [row EXCEPT ![i] = x]
    BY <1>10 DEF CreateBranch
  <2>2. \A q \in Plans : Active(q) => build[q].branch # i
    BY <1>0, <2>1 DEF Builds, Standing
  <2> QED
    BY <1>9, <2>1, <2>2
<1>11. ASSUME NEW i \in Branches, ChangeBranch(i), \E x : row' = [row EXCEPT ![i] = x]
       PROVE  Builds'
  <2>1. UNCHANGED <<head, draft, build>> /\ ~Referenced(i)
    BY <1>11 DEF ChangeBranch
  <2>2. \A q \in Plans : Active(q) => build[q].branch # i
    BY <2>1 DEF Referenced, Active
  <2> QED
    BY <1>9, <1>11, <2>1, <2>2
<1>12. ASSUME NEW i \in Branches, NEW n \in Names, RenameBranch(i, n) PROVE Builds'
  <2>1. row' = [row EXCEPT ![i] = row'[i]] /\ ChangeBranch(i)
    <3>1. row' = [row EXCEPT ![i].name = n, ![i].rev = @ + 1] /\ row \in [Branches -> Row \cup {None}]
      BY <1>0, <1>12 DEF RenameBranch, Tables
    <3>2. ChangeBranch(i)
      BY <1>12 DEF RenameBranch
    <3> QED
      BY <3>1, <3>2
  <2> QED
    BY <1>11, <2>1
<1>13. ASSUME NEW i \in Branches, DeleteBranch(i) PROVE Builds'
  <2>1. row' = [row EXCEPT ![i] = row'[i]] /\ ChangeBranch(i)
    <3>1. row' = [row EXCEPT ![i].dead = TRUE, ![i].rev = @ + 1] /\ row \in [Branches -> Row \cup {None}]
      BY <1>0, <1>13 DEF DeleteBranch, Tables
    <3>2. ChangeBranch(i)
      BY <1>13 DEF DeleteBranch
    <3> QED
      BY <3>1, <3>2
  <2> QED
    BY <1>11, <2>1
<1>14. ASSUME NEW p, NEW r, Begin(p, r) PROVE Builds'
  BY <1>1, <1>14 DEF Begin, store
<1>15. CASE GuardOutput \/ Settle \/ GuardInput \/ Abandon \/ Decline \/ Claim
  BY <1>1, <1>15 DEF GuardOutput, Settle, GuardInput, Abandon, Decline, Claim, store
<1>16. ASSUME NEW e, ResolvePin(e) \/ ResolveHead(e) PROVE Builds'
  BY <1>1, <1>16 DEF ResolvePin, ResolveHead
<1>17. ASSUME NEW p, Take(p) PROVE Builds'
  BY <1>1, <1>17 DEF Take, store
<1>18. ASSUME NEW i, NEW n, PreviewBranch(i, n) PROVE Builds'
  BY <1>1, <1>18 DEF PreviewBranch, store
<1>19. CASE Shown \/ Tick \/ UNCHANGED vars
  BY <1>1, <1>19 DEF Shown, Tick, vars, store
<1> QED
  BY <1>2, <1>3, <1>4, <1>5, <1>6, <1>7, <1>8, <1>10, <1>12, <1>13, <1>14, <1>15, <1>16, <1>17,
     <1>18, <1>19 DEF Step, Next, Elsewhere

-----------------------------------------------------------------------------
(* The invariant of both specifications. *)

LEMMA InvInit == Init => Inv
<1> SUFFICES ASSUME Init PROVE Inv
  OBVIOUS
<1>1. site \in Sites /\ Stored(site)
  BY SiteAssumption DEF Init
<1>2. row = site.row /\ head = site.head /\ made = site.made /\ now = 0 /\ prep = None /\ ask = None
  BY DEF Init
<1>3. Len(made) \in Nat
  BY <1>1, <1>2 DEF Stored
<1>4. head \in [Branches \X Datasets -> [version : 0..Len(made), gen : Nat]]
  BY <1>1, <1>2 DEF Stored
<1>5. head \in [Branches \X Datasets -> HeadOf]
  <2>1. [version : 0..Len(made), gen : Nat] \subseteq HeadOf
    BY <1>3 DEF HeadOf
  <2> QED
    BY <1>4, <2>1
<1>6. \A i \in Branches, d \in Datasets : head[<<i, d>>].version <= Len(made)
  <2> TAKE i \in Branches, d \in Datasets
  <2>1. head[<<i, d>>] \in [version : 0..Len(made), gen : Nat]
    BY <1>4
  <2> QED
    BY <1>3, <2>1
<1>7. Tables
  BY <1>1, <1>2, <1>5, <1>6 DEF Tables, Stored, VersionOf, Unset
<1>8. Drafts /\ Builds
  BY DEF Init, Drafts, Builds, Active
<1> QED
  BY <1>2, <1>7, <1>8 DEF Inv, Previewed, Preparing

LEMMA InvStep == Inv /\ [Step]_vars => Inv'
BY TablesStep, PreparingStep, DraftsStep, BuildsStep DEF Inv

\* What Planning sees of a step of the registry.
LEMMA RegistrySteps == [RNext]_rvars => [Step]_vars
<1> SUFFICES ASSUME [RNext]_rvars PROVE [Step]_vars
  OBVIOUS
<1>1. ASSUME Leave PROVE [Step]_vars
  BY <1>1 DEF Leave, Step, Next, Decline, vars
<1>2. ASSUME NEW new, Capture(new) PROVE [Step]_vars
  BY <1>1, <1>2 DEF Capture
<1>3. ASSUME NEW kind, Command(kind) PROVE [Step]_vars
  BY <1>3 DEF Command, Step, Claim
<1>4. ASSUME NEW p \in Plans, NEW r \in site.requests, BeginR(p, r) PROVE [Step]_vars
  BY <1>4 DEF BeginR, Step, Next
<1>5. ASSUME NEW p \in Plans, TakeR(p) PROVE [Step]_vars
  BY <1>5 DEF TakeR, Step, Next
<1>6. ASSUME NEW p \in Plans, NEW i \in Branches, AcceptR(p, i) PROVE [Step]_vars
  BY <1>6 DEF AcceptR, Step, Next
<1>7. CASE SaveR \/ RestartR \/ Elsewhere
  BY <1>7 DEF SaveR, RestartR, Step, Next
<1>8. CASE Index \/ Fail
  BY <1>1, <1>8 DEF Index, Fail
<1>9. CASE Startup \/ Journal \/ Check \/ Rename \/ Replaced \/ Verify
  BY <1>9 DEF Startup, Journal, Check, Rename, Replaced, Verify
<1>10. CASE CaptureSync
  BY <1>2, <1>10 DEF CaptureSync
<1>11. ASSUME NEW x \in Paths, AuthorFile(x) \/ CaptureImport(x) \/ \E y \in Paths : CaptureRename(x, y)
       PROVE  [Step]_vars
  BY <1>2, <1>11 DEF AuthorFile, CaptureImport, CaptureRename
<1>12. ASSUME NEW s, AuthorSource(s) PROVE [Step]_vars
  BY <1>12 DEF AuthorSource
<1>13. CASE UNCHANGED rvars
  BY <1>13 DEF rvars
<1> QED
  BY <1>3, <1>4, <1>5, <1>6, <1>7, <1>8, <1>9, <1>10, <1>11, <1>12, <1>13 DEF RNext

LEMMA PlanningInv == Spec => []Inv /\ [][Step]_vars
<1>1. [Next]_vars => [Step]_vars
  BY DEF Step
<1> QED
  BY <1>1, InvInit, InvStep, PTL DEF Spec

LEMMA RegistryInv == RSpec => []Inv /\ [][Step]_vars
<1>1. RInit => Inv
  BY InvInit DEF RInit
<1> QED
  BY <1>1, RegistrySteps, InvStep, PTL DEF RSpec

-----------------------------------------------------------------------------
(* Acceptance. *)

\* A build appears only when its plan is accepted.
LEMMA OnlyAccept ==
  ASSUME Inv, [Step]_vars, NEW p \in Plans, build[p] = None, build'[p] # None
  PROVE  \E i \in Branches : Accept(p, i)
<1>0. build \in [Plans -> BuildOf \cup {None}]
  BY DEF Inv, Builds
<1>1. build' # build
  OBVIOUS
<1>2. ASSUME NEW q \in Plans, build[q] # None, NEW b, build' = [build EXCEPT ![q] = b] PROVE FALSE
  BY <1>0, <1>2
<1>3. ASSUME NEW q \in Plans, StartBuild(q) \/ EndBuild(q) PROVE FALSE
  <2>1. CASE StartBuild(q)
    BY <1>2, <2>1 DEF StartBuild
  <2>2. CASE EndBuild(q)
    BY <1>2, <2>2 DEF EndBuild
  <2> QED
    BY <1>3, <2>1, <2>2
<1>4. ASSUME NEW q \in Plans, NEW d, PublishOutput(q, d) PROVE FALSE
  BY <1>2, <1>4 DEF PublishOutput
<1>5. CASE Restart
  BY <1>5 DEF Restart
<1>6. ASSUME NEW q \in Plans, NEW i \in Branches, Accept(q, i) PROVE p = q
  BY <1>0, <1>6, SMTT(30) DEF Accept, Valid
<1>7. CASE Elsewhere
  BY <1>1, <1>3, <1>4, <1>7 DEF Elsewhere, GuardOutput, Settle, GuardInput, Abandon, ResolvePin, ResolveHead,
     Import, CreateBranch, RenameBranch, PreviewBranch, DeleteBranch, ChangeBranch, Shown, Tick, store
<1>8. ASSUME UNCHANGED store PROVE FALSE
  BY <1>1, <1>8 DEF store
<1> QED
  BY <1>1, <1>5, <1>6, <1>7, <1>8
     DEF Step, Next, Claim, Begin, Save, Decline, Take, vars, store

\* A guard that stands is not overtaken.
LEMMA SeenStands ==
  ASSUME Tables, NEW g \in GuardOf, Sees(g)
  PROVE  ~Overtaken(g)
<1>1. CASE g.branch = None
  BY <1>1 DEF Overtaken
<1>2. CASE g.branch # None
  <2>1. g.name \in Names /\ g.dataset \in Datasets
    BY DEF GuardOf
  <2>2. g.gen = head[<<g.branch, g.dataset>>].gen /\ g.branch \in Branches
    BY <1>2, <2>1, LookAt DEF Sees, RowsNamed
  <2>3. head[<<g.branch, g.dataset>>].gen \in Nat
    BY <2>1, <2>2 DEF Tables, HeadOf
  <2> QED
    BY <2>2, <2>3 DEF Overtaken
<1> QED
  BY <1>1, <1>2

\* A pin is what planning would read; so is a head that the guards cover, unless
\* an earlier candidate has one.
LEMMA ResolvedRead ==
  ASSUME site \in Sites, NEW r \in site.requests, NEW e \in site.edges, NEW gs, NEW x,
         \A g \in gs : Sees(g), Resolved(r, e, gs, x), x.key = Key(e)
  PROVE  \/ x.version = IF Pinned(r, e) THEN r.pins[Key(e)]
                        ELSE IF First(r, e) = 0 THEN 0
                        ELSE Look(Candidates(r, e)[First(r, e)], e.parent).version
         \/ Preceded(r, x)
<1>1. CASE Pinned(r, e)
  BY <1>1 DEF Resolved
<1>2. CASE ~Pinned(r, e)
  <2> DEFINE names == Candidates(r, e)
             found == {k \in DOMAIN names : Readable(names[k], e.parent)}
             f == CHOOSE k \in found : \A m \in found : k <= m
  <2>1. names \in Seq(Names) /\ DOMAIN names \subseteq Nat /\ 0 \notin DOMAIN names
    BY CandidatesTyped
  <2>2. PICK k \in DOMAIN names :
            /\ x.branch = names[k]
            /\ \E g \in gs : About(g, names[k], e.parent) /\ Shows(g) /\ g.version = x.version
    BY <1>2 DEF Resolved
  <2>3. PICK g \in gs : About(g, names[k], e.parent) /\ Shows(g) /\ g.version = x.version
    BY <2>2
  <2>4. g = Look(names[k], e.parent)
    BY <2>3 DEF Sees, About
  <2>5. k \in found
    BY <2>2, <2>3, <2>4 DEF Readable, Shows
  <2>6. First(r, e) = f
    BY <2>5 DEF First
  <2> HIDE DEF names
  <2>7. f \in found /\ \A m \in found : f <= m
    <3>1. found \subseteq Nat
      BY <2>1
    <3> HIDE DEF found
    <3> QED
      BY <2>5, <3>1, LeastNat
  <2>8. f \in DOMAIN names /\ f # 0 /\ f \in Nat /\ k \in Nat /\ f <= k /\ Readable(names[f], e.parent)
    BY <2>1, <2>5, <2>7
  <2> HIDE DEF found, f
  <2>9. CASE f = k
    BY <1>2, <2>3, <2>4, <2>6, <2>8, <2>9 DEF names
  <2>10. CASE f # k
    <3>1. f < k
      BY <2>8, <2>10
    <3> QED
      BY <2>2, <2>8, <3>1 DEF Preceded, names
  <2> QED
    BY <2>9, <2>10
<1> QED
  BY <1>1, <1>2

\* A source that a draft does not run had not outlived its time to live when the
\* clock was sampled, and no draft is accepted later than Ttl after that.
LEMMA StillFresh ==
  ASSUME Tables, NEW r, NEW s, NEW g \in GuardOf, NEW at \in Int, Rests(r, s, g, at), g.version <= Len(made),
         site.source[s] # Manual, now < at + Ttl
  PROVE  now < made[g.version].at + site.source[s] + Ttl
<1>1. s \in DOMAIN site.source /\ site.source[s] \in Nat
  BY SiteAssumption DEF Rests, Sources, Tables, Requested
<1>2. g.version # 0 /\ ~(at - made[g.version].at >= site.source[s])
  BY DEF Rests, Executes
<1>3. g.version \in DOMAIN made
  BY <1>2 DEF GuardOf, Tables
<1>4. made[g.version].at \in Int
  <2>1. made \in Seq(VersionOf)
    BY DEF Tables
  <2>2. made[g.version] \in VersionOf
    BY <1>3, <2>1
  <2> QED
    BY <2>2 DEF VersionOf
<1>5. now \in Int /\ Ttl \in Int
  BY TtlAssumption DEF Tables
<1> QED
  BY <1>1, <1>2, <1>4, <1>5

Current(p) ==
    LET d == draft[p]
        ideal == Ideal(d.request, d.created)
        shown(s) == Look(d.request.branch, s).version
    IN /\ d.writes = ideal.writes /\ d.ideal = ideal
       /\ \A r \in d.reads :
            /\ r.branch # None => Look(r.branch, r.dataset).version = r.version
            /\ <<r.key, r.version>> \in ideal.reads \/ Preceded(d.request, r)
       /\ \A s \in Scope(d.request) \ d.writes : site.source[s] # Manual =>
            now < made[shown(s)].at + site.source[s] + Ttl

LEMMA AcceptedCurrent ==
  ASSUME Inv, NEW p \in Plans, NEW i \in Branches, Accept(p, i)
  PROVE  Current(p)
<1> DEFINE d == draft[p]
           r == d.request
           got(e) == IF Pinned(r, e) THEN r.pins[Key(e)]
                     ELSE IF First(r, e) = 0 THEN 0
                     ELSE Look(Candidates(r, e)[First(r, e)], e.parent).version
<1>1. d # None /\ (\A g \in d.guards : Sees(g)) /\ now < d.created + Ttl
  BY DEF Accept, Valid
<1>2. Tables /\ Drafted(d) /\ site \in Sites
  BY <1>1 DEF Inv, Tables, Drafts
<1> HIDE DEF d
<1>3. /\ r \in site.requests /\ d.created \in Int /\ d.guards \subseteq GuardOf /\ d.writes \subseteq Scope(r)
      /\ Guarded(r, d.created, d.guards, {}, Scope(r) \ d.writes)
      /\ \A e \in Boundary(r, d.writes) : Bound(r, e, d.guards, d.reads)
      /\ ReadsOf(r, d.writes, d.reads) /\ \A x \in d.reads : Witnessed(x, d.guards)
      /\ \A g \in d.guards : g.version <= Len(made)
  BY <1>2 DEF Drafted
<1>4. \A g \in d.guards : ~Overtaken(g)
  BY <1>1, <1>2, <1>3, SeenStands
<1>5. d.ideal = Intended(r, d.writes, d.guards)
  BY <1>2, <1>4 DEF Drafted
<1>6. Ideal(r, d.created) = Intended(r, d.writes, d.guards)
  <2>1. \A e \in Boundary(r, d.writes) : Pinned(r, e) \/ Covered(r, e, d.guards)
    BY <1>3, BoundTells
  <2> QED
    BY <1>1, <1>2, <1>3, <2>1, IdealSeen
<1>7. \A x \in d.reads : x.branch # None => Look(x.branch, x.dataset).version = x.version
  BY <1>1, <1>3 DEF Witnessed, About, Sees
<1>8. Intended(r, d.writes, d.guards).writes = d.writes
  BY DEF Intended
<1>9. Ideal(r, d.created).reads = {<<Key(e), got(e)>> : e \in Boundary(r, d.writes)}
  <2>1. Ideal(r, d.created).writes = d.writes
    BY <1>6, <1>8
  <2> QED
    BY <2>1 DEF Ideal, Boundary
<1>10. ASSUME NEW x \in d.reads
       PROVE  <<x.key, x.version>> \in Ideal(r, d.created).reads \/ Preceded(r, x)
  <2>1. PICK e \in Boundary(r, d.writes) : x.key = Key(e)
    BY <1>3 DEF ReadsOf
  <2>2. Resolved(r, e, d.guards, x) /\ e \in site.edges
    BY <1>3, <2>1 DEF Bound, Boundary
  <2>3. x.version = got(e) \/ Preceded(r, x)
    BY <1>1, <1>2, <1>3, <2>1, <2>2, ResolvedRead
  <2> HIDE DEF got
  <2> QED
    BY <1>9, <2>1, <2>3
<1>11. ASSUME NEW s \in Scope(r) \ d.writes, site.source[s] # Manual
       PROVE  now < made[Look(r.branch, s).version].at + site.source[s] + Ttl
  <2>1. PICK g \in d.guards : About(g, r.branch, s) /\ Rests(r, s, g, d.created)
    BY <1>3 DEF Guarded
  <2>2. g = Look(r.branch, s) /\ g \in GuardOf
    BY <1>1, <1>3, <2>1 DEF About, Sees
  <2>3. now < made[g.version].at + site.source[s] + Ttl
    BY <1>1, <1>2, <1>3, <1>11, <2>1, <2>2, StillFresh
  <2> QED
    BY <2>2, <2>3
<1> QED
  BY <1>5, <1>6, <1>7, <1>8, <1>10, <1>11 DEF Current, d

(* A plan is accepted only while the tables still say what it was made from: as of
   the clock sample of its preparation, planning again would choose the same writes
   and decide all as it was decided at the save; every input is the current head
   of the branch it was read from and what planning would read, unless an earlier
   branch has a head; a source that is not run has outlived its time to live by
   less than the lifetime of a draft, if at all (check and accept_draft of
   tf-store/planning.rs, the guards of build_plan.rs). *)
THEOREM PlansAcceptedCurrent == Spec => PlanCurrent
<1>1. Inv /\ [Step]_vars
        => [\A p \in Plans : build[p] = None /\ build'[p] # None => Current(p)]_vars
  BY OnlyAccept, AcceptedCurrent
<1> QED
  BY <1>1, PlanningInv, PTL DEF PlanCurrent, Current

(* The same under the registry: neither its commands nor the author's edits
   come between what a plan has seen and its acceptance. *)
THEOREM RegistryAcceptsCurrent == RSpec => PlanCurrent
<1>1. Inv /\ [Step]_vars
        => [\A p \in Plans : build[p] = None /\ build'[p] # None => Current(p)]_vars
  BY OnlyAccept, AcceptedCurrent
<1> QED
  BY <1>1, RegistryInv, PTL DEF PlanCurrent, Current

-----------------------------------------------------------------------------
(* Outputs. *)

LEMMA InvKeepsOutputs == Inv => OutputKept
<1> SUFFICES ASSUME Inv PROVE OutputKept
  OBVIOUS
<1>1. \A p \in Plans : build[p] # None /\ build[p].state # "ENDED" => Standing(p)
  BY DEF Inv, Builds, Active
<1> QED
  BY <1>1 DEF OutputKept, Standing, About

(* While a build is active its output branch keeps its name and its life, and
   no one publishes an output it has yet to publish: branch commands, imports
   and other builds leave it where it was planned (the write reservations of
   tf-store/planning.rs, the references of branch_lifecycle.rs). *)
THEOREM OutputsKept == Spec => []OutputKept
BY PlanningInv, InvKeepsOutputs, PTL

(* The same under the registry. *)
THEOREM RegistryKeepsOutputs == RSpec => []OutputKept
BY RegistryInv, InvKeepsOutputs, PTL

-----------------------------------------------------------------------------
(* The order of the producers. *)

\* No producer twice, and none before one of its inputs.
Arranged(s, all, edges) ==
    /\ \A j, k \in DOMAIN s : s[j] = s[k] => j = k
    /\ \A k \in DOMAIN s : \A e \in edges : e.consumer = s[k] /\ e.parent \in all
            => \E j \in 1..k - 1 : s[j] = e.parent

LEMMA AppendArranged ==
  ASSUME NEW S, NEW s \in Seq(S), NEW x \in S, NEW all, NEW edges, Arranged(s, all, edges), x \notin ToSet(s),
         \A e \in edges : e.consumer = x => e.parent \notin all \ ToSet(s)
  PROVE  Append(s, x) \in Seq(S) /\ Arranged(Append(s, x), all, edges)
<1> DEFINE t == Append(s, x)
           n == Len(s)
<1>1. /\ t \in Seq(S) /\ n \in Nat /\ DOMAIN s = 1..n /\ DOMAIN t = 1..n + 1 /\ t[n + 1] = x
      /\ \A k \in 1..n : t[k] = s[k]
  OBVIOUS
<1>2. \A k \in 1..n : s[k] # x
  BY <1>1 DEF ToSet
<1> HIDE DEF t, n
<1>3. ASSUME NEW j \in 1..n + 1, NEW k \in 1..n + 1, t[j] = t[k] PROVE j = k
  <2>1. CASE j = n + 1
    BY <1>1, <1>2, <1>3, <2>1
  <2>2. CASE k = n + 1
    BY <1>1, <1>2, <1>3, <2>2
  <2>3. CASE j \in 1..n /\ k \in 1..n
    BY <1>1, <1>3, <2>3 DEF Arranged
  <2> QED
    BY <1>1, <2>1, <2>2, <2>3
<1>4. ASSUME NEW k \in 1..n + 1, NEW e \in edges, e.consumer = t[k], e.parent \in all
      PROVE  \E j \in 1..k - 1 : t[j] = e.parent
  <2>1. CASE k \in 1..n
    <3>1. \E j \in 1..k - 1 : s[j] = e.parent
      BY <1>1, <1>4, <2>1 DEF Arranged
    <3> QED
      BY <1>1, <2>1, <3>1
  <2>2. CASE k = n + 1
    <3>1. e.parent \in ToSet(s)
      BY <1>1, <1>4, <2>2
    <3>2. PICK j \in 1..n : s[j] = e.parent
      BY <1>1, <3>1 DEF ToSet
    <3> QED
      BY <1>1, <2>2, <3>2
  <2> QED
    BY <1>1, <2>1, <2>2
<1> QED
  BY <1>1, <1>3, <1>4 DEF Arranged, t

LEMMA OrderArranged ==
  ASSUME NEW P \in Seq(Datasets), NEW edges, AcyclicOrder(P, edges) = P
  PROVE  Arranged(P, ToSet(P), edges)
<1> DEFINE all == ToSet(P)
           S == Seq(Datasets)
           L == Len(P)
           ready(s) == {k \in DOMAIN P : /\ P[k] \notin ToSet(s)
                                         /\ \A e \in edges : e.consumer = P[k] => e.parent \notin all \ ToSet(s)}
           More(s) == IF ready(s) = {} THEN s ELSE Append(s, P[Min(ready(s))])
           Is(g) == g = [n \in 0..L |-> IF n = 0 THEN <<>> ELSE More(g[n - 1])]
<1>1. AcyclicOrder(P, edges) = (CHOOSE g : Is(g))[L]
  BY DEF AcyclicOrder
<1>2. L \in Nat /\ DOMAIN P = 1..L /\ \A k \in 1..L : P[k] \in Datasets
  OBVIOUS
<1>3. ASSUME NEW s \in S PROVE ready(s) # {} => Min(ready(s)) \in ready(s)
  <2> DEFINE T == ready(s)
  <2>1. T \subseteq Nat
    BY <1>2
  <2> HIDE DEF T
  <2>2. T # {} => Min(T) \in T
    BY <2>1, LeastNat DEF Min
  <2> QED
    BY <2>2 DEF T
<1>4. ASSUME NEW s \in S PROVE More(s) \in S /\ (Arranged(s, all, edges) => Arranged(More(s), all, edges))
  <2>1. CASE ready(s) = {}
    BY <2>1
  <2>2. CASE ready(s) # {}
    <3> DEFINE m == Min(ready(s))
    <3>1. m \in ready(s) /\ More(s) = Append(s, P[m])
      BY <1>3, <2>2
    <3> HIDE DEF m, More
    <3>2. /\ P[m] \in Datasets /\ P[m] \notin ToSet(s)
          /\ \A e \in edges : e.consumer = P[m] => e.parent \notin all \ ToSet(s)
      BY <1>2, <3>1
    <3> HIDE DEF ready
    <3>3. More(s) \in S
      BY <3>1, <3>2
    <3>4. Arranged(s, all, edges) => Arranged(More(s), all, edges)
      BY <3>1, <3>2, AppendArranged
    <3> QED
      BY <3>3, <3>4
  <2> QED
    BY <2>1, <2>2
<1> HIDE DEF ready, More, all
<1>5. <<>> \in S /\ Arranged(<<>>, all, edges)
  BY DEF Arranged
<1> HIDE DEF S, L
<1>6. \E g : Is(g)
  <2> DEFINE G == [p \in S \X (1..L) |-> More(p[1])]
  <2>1. G \in [S \X (1..L) -> S]
    BY <1>4
  <2>2. ASSUME NEW b \in S, NEW n \in 1..L PROVE G[<<b, n>>] = More(b)
    <3>1. <<b, n>> \in S \X (1..L)
      OBVIOUS
    <3>2. G[<<b, n>>] = More(<<b, n>>[1])
      BY <3>1
    <3> QED
      BY <3>2
  <2> HIDE DEF G
  <2>3. PICK g : Built(g, L, S, <<>>, G)
    BY <1>2, <1>5, <2>1, RecursionThere
  <2>4. \A n \in 0..L : g[n] = IF n = 0 THEN <<>> ELSE More(g[n - 1])
    <3> TAKE n \in 0..L
    <3>1. CASE n # 0
      <4>1. n \in 1..L /\ n - 1 \in 0..L
        BY <1>2, <3>1
      <4> QED
        BY <2>2, <2>3, <3>1, <4>1 DEF Built
    <3>2. CASE n = 0
      BY <2>3, <3>2 DEF Built
    <3> QED
      BY <3>1, <3>2
  <2> QED
    BY <2>3, <2>4 DEF Built
<1> DEFINE h == CHOOSE g : Is(g)
<1>7. Is(h)
  BY <1>6
<1> HIDE DEF h
<1>8. h[0] = <<>> /\ \A n \in 1..L : h[n] = More(h[n - 1])
  <2>1. 0 \in 0..L /\ \A n \in 1..L : n \in 0..L /\ n # 0
    BY <1>2
  <2> QED
    BY <1>7, <2>1
<1> DEFINE T == {n \in Nat : n <= L => h[n] \in S /\ Arranged(h[n], all, edges)}
<1>9. 0 \in T
  BY <1>5, <1>8
<1>10. ASSUME NEW n \in T PROVE n + 1 \in T
  <2> SUFFICES ASSUME n + 1 <= L PROVE h[n + 1] \in S /\ Arranged(h[n + 1], all, edges)
    OBVIOUS
  <2>1. n \in Nat /\ n <= L /\ n + 1 \in 1..L /\ (n + 1) - 1 = n
    BY <1>2
  <2>2. h[n] \in S /\ Arranged(h[n], all, edges) /\ h[n + 1] = More(h[n])
    BY <1>8, <2>1
  <2> QED
    BY <1>4, <2>2
<1>11. Nat \subseteq T
  BY <1>9, <1>10, SetInduction
<1>12. Arranged(h[L], all, edges)
  BY <1>2, <1>11
<1> QED
  BY <1>1, <1>12 DEF h, all

LEMMA InputsPrecede ==
  ASSUME site \in Sites, NEW e \in site.edges, e.consumer \in Producers, e.parent \in Producers
  PROVE  LET Place(x) == CHOOSE k \in DOMAIN site.order : site.order[k] = x
         IN Place(e.parent) < Place(e.consumer)
<1> DEFINE P == site.order
           Place(x) == CHOOSE k \in DOMAIN P : P[k] = x
<1>1. P \in Seq(Datasets) /\ Arranged(P, ToSet(P), site.edges)
  BY SiteAssumption, OrderArranged DEF Requested
<1>2. \E k \in DOMAIN P : P[k] = e.consumer
  BY DEF Producers, ToSet
<1>3. e.parent \in ToSet(P)
  BY DEF Producers
<1> DEFINE k == Place(e.consumer)
<1>4. k \in DOMAIN P /\ P[k] = e.consumer /\ DOMAIN P = 1..Len(P) /\ Len(P) \in Nat
  BY <1>1, <1>2
<1> HIDE DEF k
<1>5. PICK j \in 1..k - 1 : P[j] = e.parent
  BY <1>1, <1>3, <1>4 DEF Arranged
<1>6. j \in DOMAIN P /\ j < k
  BY <1>4, <1>5
<1>7. \A m \in DOMAIN P : P[m] = e.parent => m = j
  BY <1>1, <1>5, <1>6 DEF Arranged
<1>8. Place(e.parent) = j
  BY <1>5, <1>6, <1>7
<1> QED
  BY <1>6, <1>8 DEF k

-----------------------------------------------------------------------------
(* Inputs. *)

LEMMA DraftBindsInputs == Inv => EveryInputBound
<1> SUFFICES ASSUME Inv, NEW p \in Plans, draft[p] # None, NEW e \in site.edges, e.consumer \in draft[p].writes
             PROVE  LET d == draft[p]
                        Place(x) == CHOOSE k \in DOMAIN site.order : site.order[k] = x
                    IN IF e \in d.planned
                       THEN /\ e.parent \in d.writes /\ Place(e.parent) < Place(e.consumer)
                            /\ \A r \in d.reads : r.key # Key(e)
                       ELSE Cardinality({r \in d.reads : r.key = Key(e)}) = 1
  BY DEF EveryInputBound
<1> DEFINE d == draft[p]
           r == d.request
<1>1. Drafted(d) /\ site \in Sites
  BY DEF Inv, Tables, Drafts
<1> HIDE DEF d
<1>2. /\ d.writes \subseteq Scope(r) /\ Guarded(r, d.created, d.guards, {}, Scope(r) \ d.writes)
      /\ d.planned = Planned(r, d.writes, {}) /\ ReadsOf(r, d.writes, d.reads)
      /\ \A f \in Boundary(r, d.writes) : Bound(r, f, d.guards, d.reads)
  BY <1>1 DEF Drafted
<1>3. d.writes \subseteq Producers
  BY <1>2 DEF Guarded
<1>4. e.consumer \in d.writes
  BY DEF d
<1>5. CASE e \in d.planned
  <2>1. e.parent \in d.writes /\ Followed(r, e)
    BY <1>2, <1>5 DEF Planned
  <2>2. \A f \in Boundary(r, d.writes) : f # e /\ f \in site.edges
    BY <2>1 DEF Boundary
  <2>3. \A x \in d.reads : x.key # Key(e)
    BY <1>1, <1>2, <2>2, OneKey DEF ReadsOf
  <2> QED
    BY <1>1, <1>3, <1>4, <1>5, <2>1, <2>3, InputsPrecede DEF d
<1>6. CASE e \notin d.planned
  <2>1. e \in Boundary(r, d.writes)
    BY <1>2, <1>4, <1>6 DEF Planned, Boundary
  <2>2. OneRead(e, d.reads)
    BY <1>2, <2>1, BoundTells
  <2>3. PICK x \in d.reads : x.key = Key(e) /\ \A y \in d.reads : y.key = Key(e) => y = x
    BY <2>2 DEF OneRead
  <2>4. {y \in d.reads : y.key = Key(e)} = {x}
    BY <2>3
  <2> QED
    BY <1>6, <2>4, FS_Singleton DEF d
<1> QED
  BY <1>5, <1>6 DEF d

(* Every input of every job of a saved plan is either the result of a job that
   comes earlier in the plan, or exactly one exact version (resolve_inputs of
   transflow/build_plan.rs, input_resolution.rs). *)
THEOREM InputsBound == Spec => []EveryInputBound
BY PlanningInv, DraftBindsInputs, PTL

(* The same under the registry. *)
THEOREM RegistryBindsInputs == RSpec => []EveryInputBound
BY RegistryInv, DraftBindsInputs, PTL

-----------------------------------------------------------------------------
(* The author's edits. *)

\* What a pipeline has captured, and when its last guard saw the catalogue.
Captured(x) ==
    /\ x = [source |-> x.source, old |-> x.old, new |-> x.new, kind |-> x.kind,
            stage |-> x.stage, asof |-> x.asof]
    /\ x.asof \in Nat /\ x.asof <= edits
    /\ x.stage = "RENAME" => file = x.old \/ edits > x.asof
EditsSeen == edits \in Nat /\ (op # None => op.stage = "CAPTURE" \/ Captured(op))

LEMMA CapturedThen ==
  ASSUME NEW s, NEW old, NEW new, NEW kind, NEW stage, NEW asof \in Nat, asof <= edits',
         stage = "RENAME" => file' = old \/ edits' > asof,
         op' = [source |-> s, old |-> old, new |-> new, kind |-> kind, stage |-> stage, asof |-> asof]
  PROVE  Captured(op)'
<1>1. op'.source = s /\ op'.old = old /\ op'.new = new /\ op'.kind = kind /\ op'.stage = stage /\ op'.asof = asof
  OBVIOUS
<1> QED
  BY <1>1 DEF Captured

LEMMA PipelineCaptured ==
  ASSUME NEW kind, NEW stage, stage # "RENAME", NEW new, edits \in Nat, edits <= edits',
         op' = Pipeline(kind, stage, new)
  PROVE  Captured(op)'
<1>1. op' = [source |-> source, old |-> file, new |-> new, kind |-> kind, stage |-> stage, asof |-> edits]
  BY DEF Pipeline
<1> QED
  BY <1>1, CapturedThen

LEMMA EditsStep == EditsSeen /\ [RNext]_rvars => EditsSeen'
<1> SUFFICES ASSUME EditsSeen, [RNext]_rvars PROVE EditsSeen'
  OBVIOUS
<1>0. edits \in Nat
  BY DEF EditsSeen
<1>1. ASSUME op' = None, edits' = edits PROVE EditsSeen'
  BY <1>0, <1>1 DEF EditsSeen
<1>2. ASSUME UNCHANGED <<op, file, edits>> PROVE EditsSeen'
  BY <1>0, <1>2 DEF EditsSeen, Captured
<1>3. ASSUME NEW new, Capture(new), edits' \in Nat, edits <= edits' PROVE EditsSeen'
  <2>1. CASE op' = None
    BY <1>3, <2>1 DEF EditsSeen
  <2>2. CASE op' = Pipeline(op.kind, "PREPARE", new)
    BY <1>0, <1>3, <2>2, PipelineCaptured DEF EditsSeen
  <2> QED
    BY <1>3, <2>1, <2>2 DEF Capture, Leave
<1>4. CASE CaptureSync
  BY <1>0, <1>3, <1>4 DEF CaptureSync
<1>5. ASSUME NEW x, CaptureImport(x) PROVE EditsSeen'
  BY <1>0, <1>3, <1>5 DEF CaptureImport
<1>6. ASSUME NEW x, NEW y, CaptureRename(x, y) PROVE EditsSeen'
  BY <1>0, <1>3, <1>6 DEF CaptureRename
<1>7. ASSUME NEW x, AuthorFile(x) PROVE EditsSeen'
  <2>1. op' = op /\ edits' = edits + 1
    BY <1>7 DEF AuthorFile
  <2>2. \A z : Captured(z) => edits' > z.asof /\ z.asof <= edits'
    BY <1>0, <2>1 DEF Captured
  <2>3. \A z : Captured(z) => Captured(z)'
    BY <2>2 DEF Captured
  <2> QED
    BY <1>0, <2>1, <2>3 DEF EditsSeen
<1>8. ASSUME NEW kind, Command(kind) PROVE EditsSeen'
  <2>1. UNCHANGED <<file, edits>>
    BY <1>8 DEF Command
  <2>2. CASE op' = op
    BY <1>2, <2>1, <2>2
  <2>3. CASE op' = [kind |-> kind, stage |-> "CAPTURE"]
    BY <1>0, <2>1, <2>3 DEF EditsSeen
  <2> QED
    BY <1>8, <2>2, <2>3 DEF Command
<1>9. ASSUME NEW stage, stage # "RENAME", ~At("CAPTURE"), op # None, Enter(stage), edits' = edits PROVE EditsSeen'
  <2>1. Captured(op)
    BY <1>9 DEF EditsSeen, At
  <2>2. op' = [source |-> op.source, old |-> op.old, new |-> op.new, kind |-> op.kind,
               stage |-> stage, asof |-> op.asof]
    BY <1>9, <2>1 DEF Enter, Captured
  <2>3. Captured(op)'
    BY <1>9, <2>1, <2>2 DEF Captured
  <2> QED
    BY <1>0, <1>9, <2>3 DEF EditsSeen
<1>10. CASE Journal
  BY <1>9, <1>10 DEF Journal, At
<1>11. CASE Check
  <2>1. op # None /\ op.stage = "STAGED" /\ file = op.old /\ UNCHANGED <<file, edits>>
        /\ op' = [op EXCEPT !.stage = "RENAME", !.asof = edits]
    BY <1>11 DEF Check, LastGuard, At, Unmoved
  <2>2. Captured(op)
    BY <2>1 DEF EditsSeen
  <2>3. op' = [source |-> op.source, old |-> op.old, new |-> op.new, kind |-> op.kind,
               stage |-> "RENAME", asof |-> edits]
    BY <2>1, <2>2 DEF Captured
  <2>4. edits <= edits' /\ file' = op.old
    BY <1>0, <2>1
  <2>5. Captured(op)'
    BY <1>0, <2>3, <2>4, CapturedThen
  <2> QED
    BY <1>0, <2>1, <2>5 DEF EditsSeen
<1>12. CASE Rename
  BY <1>9, <1>12 DEF Rename, At
<1>13. CASE Replaced
  BY <1>9, <1>13 DEF Replaced, At
<1>14. CASE Index
  <2>1. CASE Enter("VERIFY")
    BY <1>9, <1>14, <2>1 DEF Index, At
  <2>2. CASE Leave
    BY <1>1, <1>14, <2>2 DEF Index, Leave
  <2> QED
    BY <1>14, <2>1, <2>2 DEF Index
<1>15. CASE Fail
  BY <1>1, <1>15 DEF Fail, Leave
<1>16. ASSUME NEW p \in Plans, TakeR(p) PROVE EditsSeen'
  <2> DEFINE stage == IF file = frozen[p].new THEN "VERIFY" ELSE "PREPARE"
             old == frozen[p].old
             new == frozen[p].new
  <2>1. op' = [Pipeline("accept", stage, new) EXCEPT !.old = old] /\ UNCHANGED <<file, edits>>
    BY <1>16 DEF TakeR
  <2>2. stage # "RENAME"
    OBVIOUS
  <2> HIDE DEF stage, old, new
  <2>3. Pipeline("accept", stage, new)
          = [source |-> source, old |-> file, new |-> new, kind |-> "accept", stage |-> stage, asof |-> edits]
    BY DEF Pipeline
  <2>4. op' = [source |-> source, old |-> old, new |-> new, kind |-> "accept", stage |-> stage, asof |-> edits]
    BY <2>1, <2>3
  <2>5. Captured(op)'
    BY <1>0, <2>1, <2>2, <2>4, CapturedThen
  <2> QED
    BY <1>0, <2>1, <2>5 DEF EditsSeen
<1>17. CASE Verify
  BY <1>9, <1>17 DEF Verify, At
<1>18. ASSUME NEW p \in Plans, NEW i \in Branches, AcceptR(p, i) PROVE EditsSeen'
  BY <1>1, <1>18 DEF AcceptR
<1>19. CASE RestartR
  BY <1>1, <1>19 DEF RestartR
<1>20. ASSUME NEW s, AuthorSource(s) PROVE EditsSeen'
  BY <1>2, <1>20 DEF AuthorSource
<1>21. CASE Startup
  BY <1>2, <1>21 DEF Startup
<1>22. ASSUME NEW p, NEW r, BeginR(p, r) PROVE EditsSeen'
  BY <1>2, <1>22 DEF BeginR
<1>23. CASE UNCHANGED registry
  BY <1>2, <1>23 DEF registry
<1> QED
  BY <1>4, <1>5, <1>6, <1>7, <1>8, <1>10, <1>11, <1>12, <1>13, <1>14, <1>15, <1>16, <1>17, <1>18, <1>19,
     <1>20, <1>21, <1>22, <1>23 DEF RNext, rvars, SaveR

(* An author's edit is overwritten only when it comes after the pipeline's last
   guard: the rename that replaces the catalogue replaces the very content that
   guard saw, or one that was edited since (RegistryWrite in
   tf-catalog/registry_write.rs). *)
THEOREM AuthorEditsKept == RSpec => EditsKept
<1>1. RInit => EditsSeen
  BY DEF RInit, EditsSeen
<1>2. EditsSeen /\ [RNext]_rvars => [file' # file /\ edits' = edits => file = op.old \/ edits > op.asof]_rvars
  <2> SUFFICES ASSUME EditsSeen, RNext, file' # file, edits' = edits
               PROVE  file = op.old \/ edits > op.asof
    BY DEF rvars
  <2>1. edits # edits + 1
    BY DEF EditsSeen
  <2>2. Rename
    BY <2>1 DEF RNext, AuthorSource, AuthorFile, CaptureImport, CaptureRename, CaptureSync, Capture, Command,
       Startup, Journal, Check, Replaced, Index, Fail, BeginR, SaveR, Verify, RestartR, TakeR, AcceptR, registry
  <2> QED
    BY <2>2 DEF Rename, At, EditsSeen, Captured
<1> QED
  BY <1>1, <1>2, EditsStep, PTL DEF RSpec, EditsKept

-----------------------------------------------------------------------------
(* The scope of a request. *)

\* The order as positions: no producer twice, and inputs before their consumers.
Ordered(P) ==
    /\ P \in Seq(Datasets) /\ Producers = {P[k] : k \in 1..Len(P)} /\ Len(P) \in Nat
    /\ \A j, k \in 1..Len(P) : P[j] = P[k] => j = k
    /\ \A k \in 1..Len(P) : \A e \in site.edges : e.consumer = P[k] /\ e.parent \in Producers
            => \E j \in 1..k - 1 : P[j] = e.parent

LEMMA SiteOrdered ==
  ASSUME site \in Sites
  PROVE  Ordered(site.order)
<1> DEFINE P == site.order
<1>1. P \in Seq(Datasets) /\ Arranged(P, ToSet(P), site.edges)
  BY SiteAssumption, OrderArranged DEF Requested
<1>2. Producers = ToSet(P)
  BY DEF Producers
<1> HIDE DEF P
<1>3. DOMAIN P = 1..Len(P) /\ Len(P) \in Nat
  BY <1>1
<1>4. Producers = {P[k] : k \in 1..Len(P)}
  BY <1>2, <1>3 DEF ToSet
<1>5. Ordered(P)
  BY <1>1, <1>2, <1>3, <1>4 DEF Ordered, Arranged
<1> QED
  BY <1>5 DEF P

\* A walk up the graph, level by level, within open.
Climbs(r, h, L) ==
    /\ h[0] = {t \in r.targets : ~Barrier(r, t)}
    /\ \A n \in 1..L : h[n] = h[n - 1] \cup {d \in Open(r) : \E e \in site.edges :
                                   /\ e.parent = d /\ Followed(r, e) /\ e.consumer \in h[n - 1]}

LEMMA ClimbsThere ==
  ASSUME NEW r, ~Malformed(r), NEW top, top = Len(site.order), top \in Nat
  PROVE  \E h : Climbs(r, h, top) /\ Eligible(r) = h[IF r.mode = "selected" THEN 0 ELSE top]
<1> DEFINE S == SUBSET Producers
           first == {t \in r.targets : ~Barrier(r, t)}
           More(b) == b \cup {d \in Producers : ~Barrier(r, d) /\
                    \E e \in site.edges : /\ e.parent = d /\ Followed(r, e) /\ e.consumer \in b}
           Is(g) == g = [n \in 0..top |-> IF n = 0 THEN first ELSE More(g[n - 1])]
<1>1. Eligible(r) = (CHOOSE g : Is(g))[IF r.mode = "selected" THEN 0 ELSE top]
  BY DEF Eligible
<1>2. first \in S
  BY DEF Malformed
<1>3. \A b \in S : More(b) \in S
  OBVIOUS
<1>4. \A b : More(b) = b \cup {d \in Open(r) : \E e \in site.edges :
                                   /\ e.parent = d /\ Followed(r, e) /\ e.consumer \in b}
  BY DEF Open
<1> HIDE DEF S, first, More
<1>5. \E g : Is(g)
  <2> DEFINE G == [p \in S \X (1..top) |-> More(p[1])]
  <2>1. G \in [S \X (1..top) -> S]
    BY <1>3
  <2>2. ASSUME NEW b \in S, NEW n \in 1..top PROVE G[<<b, n>>] = More(b)
    <3>1. <<b, n>> \in S \X (1..top)
      OBVIOUS
    <3>2. G[<<b, n>>] = More(<<b, n>>[1])
      BY <3>1
    <3> QED
      BY <3>2
  <2> HIDE DEF G
  <2>3. PICK g : Built(g, top, S, first, G)
    BY <1>2, <2>1, RecursionThere
  <2>4. \A n \in 0..top : g[n] = IF n = 0 THEN first ELSE More(g[n - 1])
    <3> TAKE n \in 0..top
    <3>1. CASE n # 0
      <4>1. n \in 1..top /\ n - 1 \in 0..top
        BY <3>1
      <4> QED
        BY <2>2, <2>3, <3>1, <4>1 DEF Built
    <3>2. CASE n = 0
      BY <2>3, <3>2 DEF Built
    <3> QED
      BY <3>1, <3>2
  <2> QED
    BY <2>3, <2>4 DEF Built
<1> DEFINE h == CHOOSE g : Is(g)
<1>6. Is(h)
  BY <1>5
<1> HIDE DEF h
<1>7. h[0] = first /\ \A n \in 1..top : h[n] = More(h[n - 1])
  <2>1. 0 \in 0..top /\ \A n \in 1..top : n \in 0..top /\ n # 0
    OBVIOUS
  <2> QED
    BY <1>6, <2>1
<1>8. Climbs(r, h, top)
  BY <1>4, <1>7 DEF Climbs, first
<1> QED
  BY <1>1, <1>8 DEF h

\* What holds at first and is kept from one level to the next holds on every level.
LEMMA Levels ==
  ASSUME NEW top \in Nat, NEW S, 0 \in S, \A n \in 0..top - 1 : n \in S => n + 1 \in S
  PROVE  \A n \in 0..top : n \in S
<1> DEFINE T == {n \in Nat : n <= top => n \in S}
<1>1. 0 \in T
  OBVIOUS
<1>2. ASSUME NEW n \in Nat, n \in T PROVE n + 1 \in T
  <2> SUFFICES ASSUME n + 1 <= top PROVE n + 1 \in S
    OBVIOUS
  <2>1. n \in 0..top - 1 /\ n \in S
    BY <1>2
  <2> QED
    BY <2>1
<1> HIDE DEF T
<1>3. Nat \subseteq T
  BY <1>1, <1>2, SetInduction
<1> QED
  BY <1>3 DEF T

LEMMA LevelsGrow ==
  ASSUME NEW top \in Nat, NEW h, \A n \in 1..top : h[n - 1] \subseteq h[n], NEW i \in 0..top, NEW j \in i..top
  PROVE  h[i] \subseteq h[j]
<1> DEFINE S == {n \in 0..top : n >= i => h[i] \subseteq h[n]}
<1>1. 0 \in S
  <2>1. 0 >= i => i = 0
    OBVIOUS
  <2> QED
    BY <2>1
<1>2. ASSUME NEW n \in 0..top - 1, n \in S PROVE n + 1 \in S
  <2>1. n + 1 \in 1..top /\ (n + 1) - 1 = n
    OBVIOUS
  <2>2. h[n] \subseteq h[n + 1]
    BY <2>1
  <2>3. CASE n >= i
    BY <1>2, <2>1, <2>2, <2>3
  <2>4. CASE n + 1 = i
    BY <2>1, <2>4
  <2>5. CASE n + 1 < i
    BY <2>1, <2>5
  <2> QED
    BY <2>3, <2>4, <2>5
<1> HIDE DEF S
<1>3. \A n \in 0..top : n \in S
  BY <1>1, <1>2, Levels
<1> QED
  BY <1>3 DEF S

LEMMA TargetsOpen ==
  ASSUME NEW r, ~Malformed(r)
  PROVE  r.targets \subseteq Open(r) /\ {t \in r.targets : ~Barrier(r, t)} = r.targets
BY DEF Malformed, Open, Barrier

LEMMA PathHere ==
  ASSUME NEW r, NEW x \in Open(r)
  PROVE  Path(r, x, x)
BY DEF Path

LEMMA PathOn ==
  ASSUME NEW r, NEW e \in site.edges, Followed(r, e), e.consumer \in Open(r), NEW x
  PROVE  /\ Path(r, x, e.parent) => Path(r, x, e.consumer)
         /\ Path(r, e.consumer, x) => Path(r, e.parent, x)
BY DEF Path, Feeding

Up(r) == {d \in Open(r) : \E t \in r.targets : Path(r, d, t)}
Rising(r, E) == \A e \in site.edges : Followed(r, e) /\ e.parent \in Open(r) /\ e.consumer \in E => e.parent \in E

\* A walk of as many levels as there are producers reaches all there is: who is
\* reached at all is reached in as many steps as there are producers after it.
LEMMA WalkRises ==
  ASSUME NEW r, NEW top \in Nat, NEW P, Ordered(P), top = Len(P), NEW h, Climbs(r, h, top),
         r.targets \subseteq Open(r)
  PROVE  Rising(r, h[top])
<1> DEFINE Grows(n) == \A k \in 1..top : P[k] \in h[n] => P[k] \in h[top - k]
           S == {n \in 0..top : h[n] \subseteq Open(r) /\ Grows(n)}
<1>0. /\ \A n \in 1..top : h[n - 1] \subseteq h[n]
      /\ \A n \in 1..top : \A e \in site.edges :
            Followed(r, e) /\ e.parent \in Open(r) /\ e.consumer \in h[n - 1] => e.parent \in h[n]
      /\ h[0] \subseteq Open(r)
  BY DEF Climbs
<1>1. \A i \in 0..top : \A j \in i..top : h[i] \subseteq h[j]
  BY <1>0, LevelsGrow
<1>2. 0 \in S
  <2>1. ASSUME NEW k \in 1..top, P[k] \in h[0] PROVE P[k] \in h[top - k]
    <3>1. 0 \in 0..top /\ top - k \in 0..top
      OBVIOUS
    <3> QED
      BY <1>1, <2>1, <3>1
  <2> QED
    BY <1>0, <2>1
<1>3. ASSUME NEW e \in site.edges, Followed(r, e), e.parent \in Open(r), NEW n \in 0..top, n \in S,
             e.consumer \in h[n], NEW k \in 1..top, P[k] = e.parent
      PROVE  P[k] \in h[top - k]
  <2>1. e.consumer \in Producers /\ e.parent \in Producers
    BY <1>3 DEF Open
  <2>2. PICK m \in 1..top : P[m] = e.consumer
    BY <2>1 DEF Ordered
  <2>3. PICK j \in 1..m - 1 : P[j] = e.parent
    BY <2>1, <2>2 DEF Ordered
  <2>4. j = k
    BY <1>3, <2>2, <2>3 DEF Ordered
  <2>5. k < m /\ m <= top
    BY <2>2, <2>3, <2>4
  <2>6. P[m] \in h[top - m]
    BY <1>3, <2>2
  <2>7. top - m + 1 \in 1..top /\ (top - m + 1) - 1 = top - m /\ top - m + 1 \in 0..top
        /\ top - k \in top - m + 1..top
    BY <2>2, <2>5
  <2>8. e.parent \in h[top - m + 1]
    BY <1>0, <1>3, <2>2, <2>6, <2>7
  <2> QED
    BY <1>1, <1>3, <2>7, <2>8
<1>4. ASSUME NEW n \in 0..top - 1, n \in S PROVE n + 1 \in S
  <2>1. n + 1 \in 1..top /\ (n + 1) - 1 = n /\ n \in 0..top /\ n + 1 \in 0..top
    OBVIOUS
  <2>2. h[n + 1] = h[n] \cup {d \in Open(r) : \E e \in site.edges :
                                   /\ e.parent = d /\ Followed(r, e) /\ e.consumer \in h[n]}
    BY <2>1 DEF Climbs
  <2>3. h[n + 1] \subseteq Open(r)
    BY <1>4, <2>2
  <2>4. ASSUME NEW k \in 1..top, P[k] \in h[n + 1] PROVE P[k] \in h[top - k]
    <3>1. CASE P[k] \in h[n]
      BY <1>4, <3>1
    <3>2. CASE P[k] \notin h[n]
      <4>1. PICK e \in site.edges : e.parent = P[k] /\ Followed(r, e) /\ e.consumer \in h[n] /\ P[k] \in Open(r)
        BY <2>2, <2>4, <3>2
      <4> QED
        BY <1>3, <1>4, <2>1, <4>1
    <3> QED
      BY <3>1, <3>2
  <2> QED
    BY <2>1, <2>3, <2>4
<1> HIDE DEF S
<1>5. \A n \in 0..top : n \in S
  BY <1>2, <1>4, Levels
<1>6. top \in S /\ top \in 0..top
  BY <1>5
<1>7. ASSUME NEW e \in site.edges, Followed(r, e), e.parent \in Open(r), e.consumer \in h[top]
      PROVE  e.parent \in h[top]
  <2>1. e.parent \in Producers
    BY <1>7 DEF Open
  <2>2. PICK k \in 1..top : P[k] = e.parent
    BY <2>1 DEF Ordered
  <2>3. P[k] \in h[top - k]
    BY <1>3, <1>6, <1>7, <2>2
  <2>4. top - k \in 0..top /\ top \in top - k..top
    OBVIOUS
  <2> QED
    BY <1>1, <2>2, <2>3, <2>4
<1> QED
  BY <1>7 DEF Rising

\* The eligible producers are those with a path to a target.
LEMMA EligibleUp ==
  ASSUME site \in Sites, NEW r, ~Malformed(r), r.mode # "selected"
  PROVE  Eligible(r) = Up(r) /\ Rising(r, Up(r))
<1> DEFINE top == Len(site.order)
<1>1. Ordered(site.order) /\ top \in Nat
  BY SiteOrdered DEF Ordered
<1>2. r.targets \subseteq Open(r) /\ {t \in r.targets : ~Barrier(r, t)} = r.targets
  BY TargetsOpen
<1>3. PICK h : Climbs(r, h, top) /\ Eligible(r) = h[top]
  BY <1>1, ClimbsThere
<1>4. Rising(r, h[top])
  BY <1>1, <1>2, <1>3, WalkRises
<1> HIDE DEF top
<1> DEFINE S == {n \in 0..top : h[n] \subseteq Up(r)}
<1>5. 0 \in S
  BY <1>1, <1>2, <1>3, PathHere DEF Climbs, Up
<1>6. ASSUME NEW n \in 0..top - 1, n \in S PROVE n + 1 \in S
  <2>1. n + 1 \in 1..top /\ (n + 1) - 1 = n /\ n + 1 \in 0..top
    BY <1>1
  <2>2. h[n + 1] = h[n] \cup {d \in Open(r) : \E e \in site.edges :
                                   /\ e.parent = d /\ Followed(r, e) /\ e.consumer \in h[n]}
    BY <1>3, <2>1 DEF Climbs
  <2>3. ASSUME NEW d \in Open(r), NEW e \in site.edges, e.parent = d, Followed(r, e), e.consumer \in h[n]
        PROVE  d \in Up(r)
    <3>1. e.consumer \in Up(r)
      BY <1>6, <2>3
    <3>2. PICK t \in r.targets : Path(r, e.consumer, t)
      BY <3>1 DEF Up
    <3>3. Path(r, d, t)
      BY <2>3, <3>1, <3>2, PathOn DEF Up
    <3> QED
      BY <3>3 DEF Up
  <2> QED
    BY <1>6, <2>1, <2>2, <2>3
<1> HIDE DEF S
<1>7. \A n \in 0..top : n \in S
  BY <1>1, <1>5, <1>6, Levels
<1>8. h[top] \subseteq Up(r)
  BY <1>1, <1>7 DEF S
<1>9. r.targets \subseteq h[top]
  <2>1. \A n \in 1..top : h[n - 1] \subseteq h[n]
    BY <1>3 DEF Climbs
  <2>2. 0 \in 0..top /\ top \in 0..top
    BY <1>1
  <2>3. h[0] \subseteq h[top]
    BY <1>1, <2>1, <2>2, LevelsGrow
  <2> QED
    BY <1>2, <1>3, <2>3 DEF Climbs
<1>10. Up(r) \subseteq h[top]
  <2> SUFFICES ASSUME NEW d \in Up(r), d \notin h[top] PROVE FALSE
    OBVIOUS
  <2> DEFINE B == Open(r) \ h[top]
  <2>1. B \in Feeding(r)
    BY <1>4 DEF Feeding, Rising
  <2>2. d \in B
    BY DEF Up
  <2>3. PICK t \in r.targets : Path(r, d, t)
    BY DEF Up
  <2>4. t \in B
    BY <2>1, <2>2, <2>3 DEF Path
  <2> QED
    BY <1>9, <2>4
<1> QED
  BY <1>3, <1>4, <1>8, <1>10

\* One pass over the order, that enters producers of E with an input at the boundary
\* or from what it has reached.
Entered(r, b, d) == \E e \in Into(d) : AtBoundary(r, e) \/ (Followed(r, e) /\ e.parent \in b)
Passes(r, h, start, P, E) ==
    /\ h[0] = start
    /\ \A n \in 1..Len(P) : h[n] = IF P[n] \in E /\ Entered(r, h[n - 1], P[n]) THEN h[n - 1] \cup {P[n]} ELSE h[n - 1]

LEMMA PassThere ==
  ASSUME site \in Sites, NEW r, NEW start, start \subseteq Producers
  PROVE  \E h : Passes(r, h, start, site.order, Eligible(r)) /\ Forward(r, start) = h[Len(site.order)]
<1> DEFINE P == site.order
           E == Eligible(r)
           top == Len(P)
           S == SUBSET Producers
           More(b, n) == IF P[n] \in E /\ Entered(r, b, P[n]) THEN b \cup {P[n]} ELSE b
           Is(g) == g = [n \in 0..top |-> IF n = 0 THEN start ELSE More(g[n - 1], n)]
<1>1. Forward(r, start) = (CHOOSE g : Is(g))[top]
  BY DEF Forward, Pass, Entered
<1>2. top \in Nat /\ \A n \in 1..top : P[n] \in Producers
  BY SiteOrdered DEF Ordered
<1>3. \A b \in S, n \in 1..top : More(b, n) \in S
  BY <1>2
<1>4. \A b, n : More(b, n) = IF P[n] \in E /\ Entered(r, b, P[n]) THEN b \cup {P[n]} ELSE b
  OBVIOUS
<1> HIDE DEF S, More, E, P, top
<1>5. \E g : Is(g)
  <2> DEFINE G == [p \in S \X (1..top) |-> More(p[1], p[2])]
  <2>1. G \in [S \X (1..top) -> S]
    BY <1>3
  <2>2. ASSUME NEW b \in S, NEW n \in 1..top PROVE G[<<b, n>>] = More(b, n)
    <3>1. <<b, n>> \in S \X (1..top)
      OBVIOUS
    <3>2. G[<<b, n>>] = More(<<b, n>>[1], <<b, n>>[2])
      BY <3>1
    <3> QED
      BY <3>2
  <2> HIDE DEF G
  <2>3. start \in S
    BY DEF S
  <2>4. PICK g : Built(g, top, S, start, G)
    BY <1>2, <2>1, <2>3, RecursionThere
  <2>5. \A n \in 0..top : g[n] = IF n = 0 THEN start ELSE More(g[n - 1], n)
    <3> TAKE n \in 0..top
    <3>1. CASE n # 0
      <4>1. n \in 1..top /\ n - 1 \in 0..top
        BY <1>2, <3>1
      <4> QED
        BY <2>2, <2>4, <3>1, <4>1 DEF Built
    <3>2. CASE n = 0
      BY <2>4, <3>2 DEF Built
    <3> QED
      BY <3>1, <3>2
  <2> QED
    BY <2>4, <2>5 DEF Built
<1> DEFINE h == CHOOSE g : Is(g)
<1>6. Is(h)
  BY <1>5
<1> HIDE DEF h
<1>7. h[0] = start /\ \A n \in 1..top : h[n] = More(h[n - 1], n)
  <2>1. 0 \in 0..top /\ \A n \in 1..top : n \in 0..top /\ n # 0
    BY <1>2
  <2> QED
    BY <1>6, <2>1
<1>8. Passes(r, h, start, P, E)
  BY <1>4, <1>7 DEF Passes, top
<1> QED
  BY <1>1, <1>8 DEF h, P, E, top

\* What is entered is entered at its place in the order.
LEMMA PassOrder ==
  ASSUME NEW r, NEW P, Ordered(P), NEW E, E \subseteq Producers, NEW start, start \subseteq Producers,
         NEW h, Passes(r, h, start, P, E), NEW top, top = Len(P)
  PROVE  /\ start \subseteq h[top] /\ h[top] \subseteq start \cup E
         /\ \A d \in E : Entered(r, h[top], d) => d \in h[top]
<1>0. top \in Nat
  BY DEF Ordered
<1>1. \A n \in 1..top : h[n - 1] \subseteq h[n]
  BY DEF Passes
<1>2. \A i \in 0..top : \A j \in i..top : h[i] \subseteq h[j]
  BY <1>0, <1>1, LevelsGrow
<1> DEFINE AtPlace(n) == \A k \in 1..n : P[k] \in h[n] => P[k] \in h[k]
           S == {n \in 0..top : h[n] \subseteq start \cup E /\ AtPlace(n)}
<1>3. 0 \in S
  BY <1>0 DEF Passes
<1>4. ASSUME NEW n \in 0..top - 1, n \in S PROVE n + 1 \in S
  <2>1. n + 1 \in 1..top /\ (n + 1) - 1 = n /\ n + 1 \in 0..top
    BY <1>0
  <2>2. h[n + 1] = IF P[n + 1] \in E /\ Entered(r, h[n], P[n + 1]) THEN h[n] \cup {P[n + 1]} ELSE h[n]
    BY <2>1 DEF Passes
  <2>3. h[n + 1] \subseteq start \cup E
    BY <1>4, <2>2
  <2>4. ASSUME NEW k \in 1..n + 1, P[k] \in h[n + 1] PROVE P[k] \in h[k]
    <3>1. CASE k = n + 1
      BY <2>4, <3>1
    <3>2. CASE k # n + 1
      <4>1. k \in 1..n /\ k \in 1..top
        BY <1>0, <3>2
      <4>2. P[k] # P[n + 1]
        BY <2>1, <3>2, <4>1 DEF Ordered
      <4>3. P[k] \in h[n]
        BY <2>2, <2>4, <4>2
      <4> QED
        BY <1>4, <4>1, <4>3
    <3> QED
      BY <3>1, <3>2
  <2> QED
    BY <2>1, <2>3, <2>4
<1> HIDE DEF S
<1>5. \A n \in 0..top : n \in S
  BY <1>0, <1>3, <1>4, Levels
<1>6. top \in S /\ top \in 0..top /\ 0 \in 0..top
  BY <1>0, <1>5
<1>7. h[top] \subseteq start \cup E /\ AtPlace(top)
  BY <1>6 DEF S
<1>8. start \subseteq h[top]
  BY <1>0, <1>2, <1>6 DEF Passes
<1>9. ASSUME NEW d \in E, Entered(r, h[top], d) PROVE d \in h[top]
  <2>1. PICK m \in 1..top : P[m] = d
    BY DEF Ordered
  <2>2. PICK e \in Into(d) : AtBoundary(r, e) \/ (Followed(r, e) /\ e.parent \in h[top])
    BY <1>9 DEF Entered
  <2>3. m - 1 \in 0..top /\ m \in 0..top
    BY <1>0
  <2>4. Entered(r, h[m - 1], d)
    <3>1. CASE AtBoundary(r, e)
      BY <3>1 DEF Entered
    <3>2. CASE Followed(r, e) /\ e.parent \in h[top]
      <4>1. e \in site.edges /\ e.consumer = P[m] /\ e.parent \in Producers
        BY <1>7, <2>1, <3>2 DEF Into
      <4>2. PICK j \in 1..m - 1 : P[j] = e.parent
        BY <4>1, <2>1 DEF Ordered
      <4>3. j \in 1..top /\ j \in 0..top /\ m - 1 \in j..top
        BY <1>0, <2>3
      <4>4. P[j] \in h[j]
        BY <1>7, <3>2, <4>2, <4>3
      <4>5. e.parent \in h[m - 1]
        BY <1>2, <4>2, <4>3, <4>4
      <4> QED
        BY <2>2, <3>2, <4>5 DEF Entered
    <3> QED
      BY <2>2, <3>1, <3>2
  <2>5. h[m] = h[m - 1] \cup {d}
    BY <2>1, <2>4 DEF Passes
  <2>6. m \in 0..top /\ top \in m..top
    BY <1>0, <2>1
  <2> QED
    BY <1>2, <2>5, <2>6
<1> QED
  BY <1>7, <1>8, <1>9

\* Where a bounded scope starts: at the inputs of a boundary, or at a target.
Edge(r) == {d \in Up(r) : \E e \in Into(d) : AtBoundary(r, e)}
Past(r, start) == {d \in Open(r) : \E x \in start \cup Edge(r) : Path(r, x, d)}

LEMMA ForwardPast ==
  ASSUME site \in Sites, NEW r, ~Malformed(r), r.mode # "selected", NEW start, start \subseteq r.targets
  PROVE  Forward(r, start) \cap Up(r) = Past(r, start) \cap Up(r) /\ Forward(r, start) \subseteq start \cup Up(r)
<1> DEFINE P == site.order
           top == Len(P)
           E == Up(r)
<1>1. Ordered(P) /\ Eligible(r) = E /\ Rising(r, E)
  BY SiteOrdered, EligibleUp
<1>2. E \subseteq Open(r) /\ Open(r) \subseteq Producers /\ start \subseteq Open(r)
  BY TargetsOpen DEF Up, Open
<1>3. PICK h : Passes(r, h, start, P, E) /\ Forward(r, start) = h[top]
  BY <1>1, <1>2, PassThere
<1>4. /\ start \subseteq h[top] /\ h[top] \subseteq start \cup E
      /\ \A d \in E : Entered(r, h[top], d) => d \in h[top]
  <2>1. E \subseteq Producers /\ start \subseteq Producers /\ top = Len(P)
    BY <1>2
  <2> HIDE DEF top, P, E
  <2> QED
    BY <1>1, <1>3, <2>1, PassOrder, ZenonT(40)
<1>5. top \in Nat
  BY <1>1 DEF Ordered
<1> HIDE DEF top, P
<1>6. h[top] \subseteq Past(r, start)
  <2> DEFINE S == {n \in 0..top : h[n] \subseteq Past(r, start)}
  <2>1. 0 \in S
    BY <1>2, <1>3, <1>5, PathHere DEF Passes, Past
  <2>2. ASSUME NEW n \in 0..top - 1, n \in S PROVE n + 1 \in S
    <3>1. n + 1 \in 1..top /\ (n + 1) - 1 = n /\ n + 1 \in 0..top
      BY <1>5
    <3>2. h[n + 1] = IF P[n + 1] \in E /\ Entered(r, h[n], P[n + 1]) THEN h[n] \cup {P[n + 1]} ELSE h[n]
      BY <1>3, <3>1 DEF Passes, top
    <3>3. ASSUME NEW d \in E, Entered(r, h[n], d) PROVE d \in Past(r, start)
      <4>1. PICK e \in Into(d) : AtBoundary(r, e) \/ (Followed(r, e) /\ e.parent \in h[n])
        BY <3>3 DEF Entered
      <4>2. CASE AtBoundary(r, e)
        <5>1. d \in Edge(r) /\ d \in Open(r)
          BY <1>2, <4>1, <4>2 DEF Edge
        <5> QED
          BY <5>1, PathHere DEF Past
      <4>3. CASE Followed(r, e) /\ e.parent \in h[n]
        <5>1. e \in site.edges /\ e.consumer = d /\ d \in Open(r)
          BY <1>2, <4>1 DEF Into
        <5>2. PICK x \in start \cup Edge(r) : Path(r, x, e.parent)
          BY <2>2, <4>3 DEF Past
        <5>3. Path(r, x, d)
          BY <4>3, <5>1, <5>2, PathOn
        <5> QED
          BY <5>1, <5>3 DEF Past
      <4> QED
        BY <4>1, <4>2, <4>3
    <3> QED
      BY <2>2, <3>1, <3>2, <3>3
  <2> HIDE DEF S
  <2>3. \A n \in 0..top : n \in S
    BY <1>5, <2>1, <2>2, Levels
  <2> QED
    BY <1>5, <2>3 DEF S
<1>7. ASSUME NEW d \in Past(r, start), d \in E PROVE d \in h[top]
  <2> DEFINE B == {y \in Open(r) : y \in E => y \in h[top]}
  <2>1. B \in Feeding(r)
    <3> SUFFICES ASSUME NEW e \in site.edges, Followed(r, e), e.parent \in B, e.consumer \in E
                 PROVE  e.consumer \in h[top]
      BY DEF Feeding
    <3>1. e.parent \in E
      BY <1>1 DEF Rising
    <3>2. e.parent \in h[top] /\ e \in Into(e.consumer)
      BY <3>1 DEF Into
    <3> QED
      BY <1>4, <3>2 DEF Entered
  <2>2. PICK x \in start \cup Edge(r) : Path(r, x, d)
    BY <1>7 DEF Past
  <2>3. x \in B
    <3>1. CASE x \in start
      BY <1>2, <1>4, <3>1
    <3>2. CASE x \in Edge(r)
      <4>1. x \in E /\ Entered(r, h[top], x)
        BY <3>2 DEF Edge, Entered
      <4> QED
        BY <1>2, <1>4, <4>1
    <3> QED
      BY <3>1, <3>2
  <2>4. d \in B
    BY <2>1, <2>2, <2>3 DEF Path
  <2> QED
    BY <1>7, <2>4
<1> QED
  BY <1>3, <1>4, <1>6, <1>7

LEMMA ScopeIsReference ==
  ASSUME site \in Sites, NEW r, ~Malformed(r)
  PROVE  Scope(r) = Reference(r)
<1> DEFINE edge == {d \in Up(r) : \E e \in Into(d) : e.parent \in r.boundaries}
<1>1. Reference(r) =
        CASE r.mode = "selected" -> r.targets
          [] r.mode = "between" -> {d \in Up(r) : \E x \in edge : Path(r, x, d)}
          [] r.mode = "connecting" -> {d \in Up(r) : \E t \in r.targets : Path(r, t, d)}
          [] OTHER -> Up(r)
  BY DEF Reference, Up
<1>2. Up(r) \subseteq Open(r)
  BY DEF Up
<1>3. CASE r.mode = "selected"
  <2>1. Scope(r) = Eligible(r)
    BY <1>3 DEF Scope
  <2>2. Len(site.order) \in Nat
    BY SiteOrdered DEF Ordered
  <2>3. PICK h : Climbs(r, h, Len(site.order)) /\ Eligible(r) = h[0]
    BY <1>3, <2>2, ClimbsThere
  <2>4. Eligible(r) = r.targets
    BY <2>3, TargetsOpen DEF Climbs
  <2> QED
    BY <1>1, <1>3, <2>1, <2>4
<1>4. CASE r.mode = "between"
  <2>1. Edge(r) = edge
    BY <1>4 DEF Edge, AtBoundary
  <2>2. Past(r, {}) \cap Up(r) = {d \in Up(r) : \E x \in edge : Path(r, x, d)}
    BY <1>2, <2>1 DEF Past
  <2>3. Forward(r, {}) = Past(r, {}) \cap Up(r)
    BY <1>4, ForwardPast
  <2>4. Scope(r) = Forward(r, {})
    BY <1>4 DEF Scope
  <2> HIDE DEF edge
  <2> QED
    BY <1>1, <1>4, <2>2, <2>3, <2>4
<1>5. CASE r.mode = "connecting"
  <2>1. Edge(r) = {}
    BY <1>5 DEF Edge, AtBoundary
  <2>2. Past(r, r.targets) \cap Up(r) = {d \in Up(r) : \E t \in r.targets : Path(r, t, d)}
    BY <1>2, <2>1 DEF Past
  <2>3. Eligible(r) \cap Forward(r, r.targets) = Past(r, r.targets) \cap Up(r)
    BY <1>5, ForwardPast, EligibleUp
  <2>4. Scope(r) = Eligible(r) \cap Forward(r, r.targets)
    BY <1>5 DEF Scope
  <2> HIDE DEF edge
  <2> QED
    BY <1>1, <1>5, <2>2, <2>3, <2>4
<1>6. CASE r.mode \notin {"selected", "between", "connecting"}
  <2>1. Scope(r) = Eligible(r)
    BY <1>6 DEF Scope
  <2> HIDE DEF edge
  <2> QED
    BY <1>1, <1>6, <2>1, EligibleUp
<1> QED
  BY <1>3, <1>4, <1>5, <1>6

LEMMA InvScope == Inv => ScopeByPaths
BY ScopeIsReference DEF Inv, Tables, ScopeByPaths

(* Whatever the graph, the policies and the request, the producers of a plan are
   those the paths of the graph say: one pass down the order and one up find
   just what lies between the starts and the targets (select_scope of
   tf-plan/scope.rs). *)
THEOREM ScopesFollowPaths == Spec => []ScopeByPaths
BY PlanningInv, InvScope, PTL

(* The same under the registry. *)
THEOREM RegistryScopes == RSpec => []ScopeByPaths
BY RegistryInv, InvScope, PTL

-----------------------------------------------------------------------------
(* Why a dataset is current: the statuses in order, and the paths. *)

\* What a graph and a snapshot are made of.
Sound(g, s) ==
    /\ g.order \in Seq(Datasets) /\ Arranged(g.order, ToSet(g.order), g.edges)
    /\ \A d \in ToSet(g.order) : s.here[d] \in Heads
    /\ \A e \in g.edges : s.here[e.parent] \in Heads /\ s.there[e.parent] \in Heads
    /\ \A d \in ToSet(g.order) : LET k == s.work[d] IN {k.retained, k.stated, k.reusable} \subseteq BOOLEAN

\* A dataset is in doubt for a reason of its own exactly where something of its own is not current.
LEMMA LackNothing ==
  ASSUME NEW code, NEW what, NEW alias, NEW b
  PROVE  Lack(code, what, alias, b) = {} <=> b = "available"
BY DEF Lack

LEMMA OwnDoubts ==
  ASSUME NEW g, NEW s, Sound(g, s), NEW d \in ToSet(g.order)
  PROVE  LET own == Own(g, s, d) IN
         /\ own.data \in {"stale", "current", "unknown"} /\ own.logic \in {"stale", "current", "unknown"}
         /\ own.reasons = {} <=> /\ own.data = "current" /\ own.logic = "current"
                                 /\ s.here[d] = "available" /\ Facts(g, s, d).boundaries = {}
<1> DEFINE own == Own(g, s, d)
           f == Facts(g, s, d)
           compared == f.retained /\ f.current
           moved == IF compared /\ f.found = "moved" THEN DOMAIN f.inputs ELSE {}
           changed == compared /\ f.found = "changed"
           unclassified == compared /\ f.found = "unclassified"
           never == f.current /\ ~f.reusable
           bytes == {f.inputs[e] : e \in DOMAIN f.inputs}
           due == Due(g, s, d)
<1>1. f.bytes = s.here[d] /\ f.bytes \in Heads
  BY DEF Facts, Retained, Sound
<1>2. \A e \in DOMAIN f.inputs : f.inputs[e] \in Heads
  <2> DEFINE inputs == InputsOf(g, d)
  <2>1. f.inputs = [e \in inputs |-> Bytes(s, e, Where(s, e))]
    BY DEF Facts
  <2>2. \A e \in inputs : e \in g.edges
    BY DEF InputsOf
  <2>3. ASSUME NEW e \in inputs, NEW place PROVE Bytes(s, e, place) \in Heads
    BY <2>2, <2>3 DEF Bytes, Retained, Sound, Heads
  <2> HIDE DEF inputs
  <2> QED BY <2>1, <2>3
<1>3. /\ own.data = IF moved # {} \/ bytes \cap Lacking # {} \/ due THEN "stale"
                    ELSE IF compared /\ "unknown" \notin bytes THEN "current" ELSE "unknown"
      /\ own.logic = IF changed THEN "stale"
                     ELSE IF compared /\ ~unclassified /\ ~never THEN "current" ELSE "unknown"
  BY DEF Own
<1>r. own.reasons =
            Lack(f.bytes, "artifact", "none", f.bytes)
            \cup {<<"INPUT_VERSION_CHANGED", "input", e.alias>> : e \in moved}
            \cup (UNION {Lack("BOUNDARY_STALE", "input", e.alias, f.inputs[e]) : e \in DOMAIN f.inputs})
            \cup {<<"METADATA_UNKNOWN", "boundary", e.alias>> : e \in f.boundaries}
            \cup When(changed, "CODE_CHANGED", "code")
            \cup When(~compared, "METADATA_UNKNOWN", "comparison")
            \cup When(unclassified, "METADATA_UNKNOWN", "computation")
            \cup When(never, "CACHE_DISABLED", "cache")
            \cup When(due, "SOURCE_REFRESH_DUE", "source")
  BY DEF Own
<1> HIDE DEF f, own, due
<1>4. own.reasons = {} <=>
        /\ Lack(f.bytes, "artifact", "none", f.bytes) = {}
        /\ moved = {} /\ (\A e \in DOMAIN f.inputs : Lack("BOUNDARY_STALE", "input", e.alias, f.inputs[e]) = {})
        /\ f.boundaries = {} /\ ~changed /\ compared /\ ~unclassified /\ ~never /\ ~due
  <2> DEFINE n1 == {<<"INPUT_VERSION_CHANGED", "input", e.alias>> : e \in moved}
             n2 == UNION {Lack("BOUNDARY_STALE", "input", e.alias, f.inputs[e]) : e \in DOMAIN f.inputs}
             n3 == {<<"METADATA_UNKNOWN", "boundary", e.alias>> : e \in f.boundaries}
             n0 == Lack(f.bytes, "artifact", "none", f.bytes)
             n4 == When(changed, "CODE_CHANGED", "code")
             n5 == When(~compared, "METADATA_UNKNOWN", "comparison")
             n6 == When(unclassified, "METADATA_UNKNOWN", "computation")
             n7 == When(never, "CACHE_DISABLED", "cache")
             n8 == When(due, "SOURCE_REFRESH_DUE", "source")
  <2>1. n1 = {} <=> moved = {}
    OBVIOUS
  <2>2. n2 = {} <=> \A e \in DOMAIN f.inputs : Lack("BOUNDARY_STALE", "input", e.alias, f.inputs[e]) = {}
    OBVIOUS
  <2>3. n3 = {} <=> f.boundaries = {}
    OBVIOUS
  <2>4. /\ n4 = {} <=> ~changed
        /\ n5 = {} <=> compared
        /\ n6 = {} <=> ~unclassified
        /\ n7 = {} <=> ~never
        /\ n8 = {} <=> ~due
    BY DEF When
  <2>5. own.reasons = n0 \cup n1 \cup n2 \cup n3 \cup n4 \cup n5 \cup n6 \cup n7 \cup n8
    BY <1>r
  <2> HIDE DEF n1, n2, n3, n4, n5, n6, n7, n8
  <2>6. own.reasons = {} <=> n0 = {} /\ n1 = {} /\ n2 = {} /\ n3 = {} /\ n4 = {} /\ n5 = {}
                             /\ n6 = {} /\ n7 = {} /\ n8 = {}
    <3> HIDE DEF n0
    <3> QED BY <2>5
  <2> QED BY <2>1, <2>2, <2>3, <2>4, <2>6
<1>5. own.reasons = {} <=>
        /\ f.bytes = "available" /\ moved = {} /\ (\A e \in DOMAIN f.inputs : f.inputs[e] = "available")
        /\ f.boundaries = {} /\ ~changed /\ compared /\ ~unclassified /\ ~never /\ ~due
  <2>1. \A what, alias, b : Lack("BOUNDARY_STALE", what, alias, b) = {} <=> b = "available"
    BY LackNothing
  <2>2. Lack(f.bytes, "artifact", "none", f.bytes) = {} <=> f.bytes = "available"
    BY LackNothing
  <2> HIDE DEF moved, changed, compared, unclassified, never
  <2> QED BY <1>4, <2>1, <2>2
<1>6. (\A e \in DOMAIN f.inputs : f.inputs[e] = "available") <=> bytes \cap Lacking = {} /\ "unknown" \notin bytes
  BY <1>2 DEF Heads, Lacking
<1> HIDE DEF moved, changed, compared, unclassified, never, bytes
<1>7. own.data = "current" <=> /\ moved = {} /\ bytes \cap Lacking = {} /\ ~due
                               /\ compared /\ "unknown" \notin bytes
  BY <1>3
<1>8. compared => (own.logic = "current" <=> ~changed /\ ~unclassified /\ ~never)
  BY <1>3
<1>9. own.data \in {"stale", "current", "unknown"} /\ own.logic \in {"stale", "current", "unknown"}
  BY <1>3
<1>10. own.reasons = {} <=> /\ own.data = "current" /\ own.logic = "current"
                            /\ f.bytes = "available" /\ f.boundaries = {}
  BY <1>5, <1>6, <1>7, <1>8
<1> QED BY <1>1, <1>9, <1>10 DEF f, own

\* What a dataset is judged by are the statuses of the inputs it follows.
LEMMA JudgeSame ==
  ASSUME NEW g, NEW s, NEW d, NEW a, NEW b,
         \A e \in InputsOf(g, d) : /\ e.parent \in DOMAIN a <=> e.parent \in DOMAIN b
                                   /\ e.parent \in DOMAIN a => a[e.parent] = b[e.parent]
  PROVE  Judge(g, s, a, d) = Judge(g, s, b, d)
<1> DEFINE own == Own(g, s, d)
           f == Facts(g, s, d)
           inputs == InputsOf(g, d) \ f.boundaries
           Follow(st) == {e \in inputs : e.parent \in DOMAIN st}
           Poor(st) == {e \in Follow(st) : StaleStatus(st[e.parent]) \/ UnknownStatus(st[e.parent])}
           Pass1(st, e) == {[c EXCEPT !.path = Append(@, d)] : c \in st[e.parent].causes}
           passed(st) == UNION {Pass1(st, e) : e \in Poor(st)}
           roots == {[path |-> <<d>>, reason |-> r] : r \in own.reasons}
           upper(st) == {st[e.parent] : e \in Follow(st)}
           Is(st) == [bytes |-> f.bytes, data |-> own.data, logic |-> own.logic,
                      inherited |-> Inherits(upper(st), f.boundaries # {}),
                      causes |-> Shortest(roots \cup passed(st)),
                      match |-> roots \cup passed(st) = {} /\ f.bytes = "available"]
<1>1. Judge(g, s, a, d) = Is(a) /\ Judge(g, s, b, d) = Is(b)
  BY DEF Judge
<1> HIDE DEF own, f, roots
<1>2. Follow(a) = Follow(b) /\ \A e \in Follow(a) : a[e.parent] = b[e.parent]
  <2>1. \A e \in inputs : /\ e.parent \in DOMAIN a <=> e.parent \in DOMAIN b
                          /\ e.parent \in DOMAIN a => a[e.parent] = b[e.parent]
    OBVIOUS
  <2> HIDE DEF inputs
  <2>2. \A e : e \in Follow(a) <=> e \in Follow(b)
    BY <2>1
  <2> QED BY <2>1, <2>2
<1> HIDE DEF Follow
<1>3. Poor(a) = Poor(b) /\ Poor(a) \subseteq Follow(a)
  BY <1>2
<1>4. upper(a) = upper(b)
  BY <1>2
<1> HIDE DEF Poor, upper
<1>5. passed(a) = passed(b)
  <2>1. \A e \in Poor(a) : Pass1(a, e) = Pass1(b, e)
    BY <1>2, <1>3
  <2> HIDE DEF Pass1
  <2> QED BY <1>3, <2>1
<1> HIDE DEF passed
<1> QED BY <1>1, <1>4, <1>5

\* The statuses are those that agree with each other.
LEMMA StatusFixed ==
  ASSUME NEW g, NEW s, Sound(g, s)
  PROVE  LET st == Evaluate(g, s) IN
         DOMAIN st = ToSet(g.order) /\ \A d \in ToSet(g.order) : st[d] = Judge(g, s, st, d)
<1> DEFINE P == g.order
           L == Len(P)
           More(b, n) == [x \in DOMAIN b \cup {P[n]} |-> IF x = P[n] THEN Judge(g, s, b, P[n]) ELSE b[x]]
           Is(f, k) == f = [n \in 0..k |-> IF n = 0 THEN <<>> ELSE More(f[n - 1], n)]
<1>1. Evaluate(g, s) = (CHOOSE f : Is(f, L))[L]
  BY DEF Evaluate
<1>2. L \in Nat /\ DOMAIN P = 1..L /\ ToSet(P) = {P[j] : j \in 1..L} /\ Arranged(P, ToSet(P), g.edges)
  BY DEF Sound, ToSet
<1> HIDE DEF P, L
<1>3. \E f : Is(f, L)
  <2> DEFINE T == {k \in Nat : \E f : Is(f, k)}
  <2> HIDE DEF More
  <2>1. 0 \in T
    <3> DEFINE f == [n \in 0..0 |-> <<>>]
    <3>1. f = [n \in 0..0 |-> IF n = 0 THEN <<>> ELSE More(f[n - 1], n)]
      OBVIOUS
    <3> QED BY <3>1
  <2>2. ASSUME NEW k \in T PROVE k + 1 \in T
    <3>1. PICK f : Is(f, k)
      BY <2>2
    <3> DEFINE h == [n \in 0..k + 1 |-> IF n = k + 1 THEN More(f[k], k + 1) ELSE f[n]]
    <3>2. k \in Nat /\ \A n \in 0..k : f[n] = IF n = 0 THEN <<>> ELSE More(f[n - 1], n)
      BY <2>2, <3>1
    <3>3. /\ h = [n \in 0..k + 1 |-> h[n]] /\ h[k + 1] = More(f[k], k + 1)
          /\ \A n \in 0..k : h[n] = f[n]
      BY <3>2
    <3> HIDE DEF h
    <3>4. ASSUME NEW n \in 0..k + 1 PROVE h[n] = IF n = 0 THEN <<>> ELSE More(h[n - 1], n)
      <4>1. CASE n = k + 1
        <5>1. n # 0 /\ n - 1 = k /\ h[k] = f[k]
          BY <3>2, <3>3, <4>1
        <5> QED BY <3>3, <4>1, <5>1
      <4>2. CASE n = 0
        BY <3>2, <3>3, <4>2, SMTT(30)
      <4>3. CASE n # 0 /\ n # k + 1
        <5>1. n \in 0..k /\ n - 1 \in 0..k
          BY <3>2, <4>3
        <5>2. h[n] = f[n] /\ h[n - 1] = f[n - 1]
          BY <3>3, <5>1
        <5>3. f[n] = More(f[n - 1], n)
          BY <3>2, <4>3, <5>1
        <5> QED BY <4>3, <5>2, <5>3
      <4> QED BY <4>1, <4>2, <4>3
    <3>5. Is(h, k + 1)
      BY <3>3, <3>4
    <3> QED BY <3>2, <3>5
  <2> HIDE DEF T
  <2>3. Nat \subseteq T
    BY <2>1, <2>2, SetInduction
  <2> QED BY <1>2, <2>3 DEF T
<1> DEFINE h == CHOOSE f : Is(f, L)
<1>4. Is(h, L)
  BY <1>3
<1> HIDE DEF h
<1>5. h[0] = <<>> /\ \A n \in 1..L : h[n] = More(h[n - 1], n)
  <2> HIDE DEF More
  <2>1. 0 \in 0..L /\ \A n \in 1..L : n \in 0..L /\ n # 0
    BY <1>2
  <2> QED BY <1>4, <2>1
<1> DEFINE Placed(n) == {P[j] : j \in 1..n}
           T == {n \in Nat : n <= L => /\ DOMAIN h[n] = Placed(n)
                                       /\ \A j \in 1..n : h[n][P[j]] = Judge(g, s, h[j - 1], P[j])}
<1>6. 0 \in T
  BY <1>5
<1>7. ASSUME NEW n \in T PROVE n + 1 \in T
  <2> SUFFICES ASSUME n + 1 <= L
               PROVE  /\ DOMAIN h[n + 1] = Placed(n + 1)
                      /\ \A j \in 1..n + 1 : h[n + 1][P[j]] = Judge(g, s, h[j - 1], P[j])
    OBVIOUS
  <2>1. /\ n \in Nat /\ n + 1 \in 1..L /\ (n + 1) - 1 = n
        /\ DOMAIN h[n] = Placed(n) /\ \A j \in 1..n : h[n][P[j]] = Judge(g, s, h[j - 1], P[j])
    BY <1>2, <1>7
  <2>2. h[n + 1] = More(h[n], n + 1)
    BY <1>5, <2>1
  <2> HIDE DEF T
  <2>3. Placed(n + 1) = Placed(n) \cup {P[n + 1]}
    BY <2>1
  <2>4. \A j \in 1..n : P[j] # P[n + 1]
    BY <1>2, <2>1 DEF Arranged
  <2>5. DOMAIN h[n + 1] = Placed(n) \cup {P[n + 1]} /\ h[n + 1][P[n + 1]] = Judge(g, s, h[n], P[n + 1])
    BY <2>1, <2>2
  <2>6. \A j \in 1..n : P[j] \in Placed(n) /\ h[n + 1][P[j]] = h[n][P[j]]
    BY <2>1, <2>2, <2>4
  <2> HIDE DEF First, More
  <2> QED BY <2>1, <2>3, <2>5, <2>6
<1>8. Nat \subseteq T
  <2> HIDE DEF T
  <2> QED BY <1>6, <1>7, SetInduction
<1> DEFINE st == Evaluate(g, s)
<1>9. st = h[L]
  BY <1>1 DEF h
<1>10. \A n \in 0..L : /\ DOMAIN h[n] = Placed(n)
                        /\ \A j \in 1..n : h[n][P[j]] = Judge(g, s, h[j - 1], P[j])
  BY <1>2, <1>8
<1> HIDE DEF st, T, More
<1>11. DOMAIN st = Placed(L) /\ \A j \in 1..L : st[P[j]] = Judge(g, s, h[j - 1], P[j])
  BY <1>2, <1>9, <1>10
<1>12. ASSUME NEW j \in 1..L PROVE st[P[j]] = Judge(g, s, st, P[j])
  <2>1. j - 1 \in 0..L /\ DOMAIN h[j - 1] = Placed(j - 1)
        /\ \A i \in 1..j - 1 : i \in 1..L /\ h[j - 1][P[i]] = Judge(g, s, h[i - 1], P[i])
    BY <1>2, <1>10
  <2>2. ASSUME NEW e \in InputsOf(g, P[j])
        PROVE  /\ e.parent \in DOMAIN h[j - 1] <=> e.parent \in DOMAIN st
               /\ e.parent \in DOMAIN h[j - 1] => h[j - 1][e.parent] = st[e.parent]
    <3>1. e \in g.edges /\ e.consumer = P[j]
      BY DEF InputsOf
    <3>2. e.parent \in DOMAIN st => \E i \in 1..j - 1 : P[i] = e.parent
      BY <1>2, <1>11, <3>1 DEF Arranged
    <3>3. e.parent \in DOMAIN h[j - 1] => \E i \in 1..j - 1 : P[i] = e.parent
      BY <2>1
    <3>4. ASSUME NEW i \in 1..j - 1, P[i] = e.parent
          PROVE  e.parent \in DOMAIN st /\ e.parent \in DOMAIN h[j - 1] /\ h[j - 1][e.parent] = st[e.parent]
      <4>1. i \in 1..L /\ h[j - 1][P[i]] = Judge(g, s, h[i - 1], P[i])
        BY <2>1
      <4>2. st[P[i]] = Judge(g, s, h[i - 1], P[i])
        BY <1>11, <4>1
      <4> QED BY <1>11, <2>1, <3>4, <4>1, <4>2
    <3> QED BY <3>2, <3>3, <3>4
  <2>3. Judge(g, s, h[j - 1], P[j]) = Judge(g, s, st, P[j])
    BY <2>2, JudgeSame
  <2> QED BY <1>11, <2>3
<1> QED
  BY <1>2, <1>11, <1>12 DEF st, P

-----------------------------------------------------------------------------
(* Paths by their length: what is n steps above a dataset. *)

\* An edge of the paths leads down the order.
Uphill(P, feeds) ==
    /\ feeds \subseteq ToSet(P) \X ToSet(P)
    /\ \A j, k \in 1..Len(P) : <<P[j], P[k]>> \in feeds => j < k

\* What feeds a dataset comes before it in the order.
LEMMA FeedsUphill ==
  ASSUME NEW g, NEW s, Sound(g, s)
  PROVE  Uphill(g.order, Feeds(g, s))
<1> DEFINE P == g.order
<1>1. Feeds(g, s) \subseteq ToSet(P) \X ToSet(P)
  BY DEF Feeds
<1>2. ASSUME NEW j \in 1..Len(P), NEW k \in 1..Len(P), <<P[j], P[k]>> \in Feeds(g, s) PROVE j < k
  <2>1. DOMAIN P = 1..Len(P) /\ Len(P) \in Nat /\ Arranged(P, ToSet(P), g.edges)
    BY DEF Sound
  <2> DEFINE p == <<P[j], P[k]>>
  <2>2. PICK e \in InputsOf(g, p[2]) : e.parent = p[1]
    BY <1>2 DEF Feeds
  <2>3. e \in g.edges /\ e.consumer = P[k] /\ e.parent = P[j] /\ P[j] \in ToSet(P)
    BY <1>1, <1>2, <2>2 DEF InputsOf
  <2>4. PICK i \in 1..k - 1 : P[i] = P[j]
    BY <2>1, <2>3 DEF Arranged
  <2>5. i \in DOMAIN P /\ j \in DOMAIN P
    BY <2>1
  <2>6. i = j
    BY <2>1, <2>4, <2>5 DEF Arranged
  <2> QED BY <2>4, <2>6
<1> QED BY <1>1, <1>2 DEF Uphill

\* <<x, n>> is in ways when n steps lead from x down to d.
Trails(ways, feeds, all, top, d) ==
    /\ \A x, n : <<x, n>> \in ways => x \in all /\ n \in 0..top
    /\ \A x \in all : <<x, 0>> \in ways <=> x = d
    /\ \A x \in all, n \in 1..top :
            <<x, n>> \in ways <=> \E y \in all : <<y, n - 1>> \in ways /\ <<x, y>> \in feeds

AllTrails(W, feeds, all, top) == \A d \in all : Trails(W[d], feeds, all, top, d)

\* The ways up from d, one step at a time: there is such a function, so CHOOSE finds it.
LEMMA TrailsThere ==
  ASSUME NEW g, g.order \in Seq(Datasets), NEW feeds, NEW d \in ToSet(g.order)
  PROVE  Trails(Ways(g, feeds, d), feeds, ToSet(g.order), Len(g.order) - 1, d)
<1> DEFINE all == ToSet(g.order)
           top == Len(g.order) - 1
           S == SUBSET all
           Over(b) == {x \in all : \E y \in b : <<x, y>> \in feeds}
           Is(f) == f = [n \in 0..top |-> IF n = 0 THEN {d} ELSE Over(f[n - 1])]
           h == CHOOSE f : Is(f)
<1>1. Ways(g, feeds, d) = {p \in all \X (0..top) : p[1] \in h[p[2]]}
  BY DEF Ways
<1>2. top \in Nat
  BY DEF ToSet
<1>3. {d} \in S /\ \A b \in S : Over(b) \in S
  OBVIOUS
<1> HIDE DEF all, top, S
<1>4. \E f : Is(f)
  <2> HIDE DEF Over
  <2> DEFINE G == [p \in S \X (1..top) |-> Over(p[1])]
  <2>1. G \in [S \X (1..top) -> S]
    BY <1>3
  <2>2. ASSUME NEW b \in S, NEW n \in 1..top PROVE G[<<b, n>>] = Over(b)
    <3>1. <<b, n>> \in S \X (1..top)
      OBVIOUS
    <3>2. G[<<b, n>>] = Over(<<b, n>>[1])
      BY <3>1
    <3> QED BY <3>2
  <2> HIDE DEF G
  <2>3. PICK f : Built(f, top, S, {d}, G)
    BY <1>2, <1>3, <2>1, RecursionThere
  <2>4. \A n \in 0..top : f[n] = IF n = 0 THEN {d} ELSE Over(f[n - 1])
    <3> TAKE n \in 0..top
    <3>1. CASE n # 0
      <4>1. n \in 1..top /\ n - 1 \in 0..top
        BY <1>2, <3>1
      <4> QED BY <2>2, <2>3, <3>1, <4>1 DEF Built
    <3>2. CASE n = 0
      BY <2>3, <3>2 DEF Built
    <3> QED BY <3>1, <3>2
  <2> QED BY <2>3, <2>4 DEF Built
<1>5. Is(h)
  BY <1>4
<1> HIDE DEF h
<1>6. h[0] = {d} /\ \A n \in 1..top : h[n] = Over(h[n - 1])
  <2> HIDE DEF Over
  <2>1. 0 \in 0..top /\ \A n \in 1..top : n \in 0..top /\ n # 0
    BY <1>2
  <2> QED BY <1>5, <2>1
<1> DEFINE ways == Ways(g, feeds, d)
<1>7. \A x, n : <<x, n>> \in ways <=> x \in all /\ n \in 0..top /\ x \in h[n]
  BY <1>1
<1>8. ASSUME NEW x \in all, NEW n \in 1..top
      PROVE  <<x, n>> \in ways <=> \E y \in all : <<y, n - 1>> \in ways /\ <<x, y>> \in feeds
  <2>1. n \in 0..top /\ n - 1 \in 0..top
    BY <1>2
  <2>2. h[n - 1] \subseteq all
    <3>1. CASE n = 1
      BY <1>3, <1>6, <3>1 DEF S
    <3>2. CASE n # 1
      <4>1. n - 1 \in 1..top
        BY <1>2, <3>2
      <4>2. h[n - 1] = Over(h[(n - 1) - 1])
        BY <1>6, <4>1
      <4> QED BY <4>2
    <3> QED BY <3>1, <3>2
  <2>3. x \in h[n] <=> \E y \in h[n - 1] : <<x, y>> \in feeds
    BY <1>6
  <2> QED BY <1>7, <2>1, <2>2, <2>3
<1>9. \A x \in all : <<x, 0>> \in ways <=> x = d
  <2>1. 0 \in 0..top
    BY <1>2
  <2> QED BY <1>6, <1>7, <2>1
<1> HIDE DEF ways
<1> QED BY <1>7, <1>8, <1>9 DEF Trails, all, top, ways

\* A step goes up the order, so a path is no longer than the places between its ends.
LEMMA TrailsRise ==
  ASSUME NEW P \in Seq(Datasets), NEW feeds, Uphill(P, feeds), NEW k \in 1..Len(P), NEW ways, NEW top \in Nat,
         Trails(ways, feeds, ToSet(P), top, P[k]), \A i, j \in 1..Len(P) : P[i] = P[j] => i = j
  PROVE  \A i \in 1..Len(P), n \in 0..top : <<P[i], n>> \in ways => i + n <= k
<1> DEFINE L == Len(P)
           T == {n \in Nat : n <= top => \A i \in 1..L : <<P[i], n>> \in ways => i + n <= k}
<1>1. L \in Nat /\ ToSet(P) = {P[i] : i \in 1..L}
  BY DEF ToSet
<1> HIDE DEF L
<1>2. 0 \in T
  <2> SUFFICES ASSUME NEW i \in 1..L, <<P[i], 0>> \in ways PROVE i + 0 <= k
    OBVIOUS
  <2>1. P[i] = P[k] /\ k \in 1..L
    BY <1>1 DEF Trails, L
  <2> QED BY <1>1, <2>1 DEF L
<1>3. ASSUME NEW n \in T PROVE n + 1 \in T
  <2> SUFFICES ASSUME n + 1 <= top, NEW i \in 1..L, <<P[i], n + 1>> \in ways PROVE i + (n + 1) <= k
    OBVIOUS
  <2>1. n \in Nat /\ n <= top /\ n + 1 \in 1..top /\ (n + 1) - 1 = n
        /\ \A j \in 1..L : <<P[j], n>> \in ways => j + n <= k
    BY <1>3
  <2>2. PICK y \in ToSet(P) : <<y, n>> \in ways /\ <<P[i], y>> \in feeds
    <3>1. P[i] \in ToSet(P)
      BY <1>1
    <3> QED BY <2>1, <3>1 DEF Trails
  <2>3. PICK j \in 1..L : y = P[j]
    BY <1>1
  <2>4. i < j
    BY <2>2, <2>3 DEF Uphill, L
  <2> QED BY <1>1, <2>1, <2>2, <2>3, <2>4
<1> HIDE DEF T
<1>4. Nat \subseteq T
  BY <1>2, <1>3, SetInduction
<1> QED BY <1>4 DEF T, L

\* The last step of a path may be taken first.
TakenLast(W, feeds, all, top, d) ==
    \A x \in all, n \in 0..top - 1 :
        <<x, n + 1>> \in W[d] <=> \E p \in all : <<p, d>> \in feeds /\ <<x, n>> \in W[p]

LEMMA TrailsLast ==
  ASSUME NEW all, NEW feeds, NEW top \in Nat, NEW W, NEW d \in all,
         feeds \subseteq all \X all, AllTrails(W, feeds, all, top)
  PROVE  TakenLast(W, feeds, all, top, d)
<1> DEFINE T == {n \in Nat : n + 1 <= top => \A x \in all :
            <<x, n + 1>> \in W[d] <=> \E p \in all : <<p, d>> \in feeds /\ <<x, n>> \in W[p]}
<1>1. \A p \in all, x \in all : <<x, 0>> \in W[p] <=> x = p
  BY DEF AllTrails, Trails
<1>2. \A p \in all, x \in all, n \in 0..top - 1 :
            <<x, n + 1>> \in W[p] <=> \E y \in all : <<y, n>> \in W[p] /\ <<x, y>> \in feeds
  <2>1. \A n \in 0..top - 1 : n + 1 \in 1..top /\ (n + 1) - 1 = n
    OBVIOUS
  <2> QED BY <2>1 DEF AllTrails, Trails
<1>3. 0 \in T
  <2> SUFFICES ASSUME 1 <= top, NEW x \in all
               PROVE  <<x, 0 + 1>> \in W[d] <=> \E p \in all : <<p, d>> \in feeds /\ <<x, 0>> \in W[p]
    BY SMTT(30)
  <2>1. 0 \in 0..top - 1
    OBVIOUS
  <2>2. <<x, 0 + 1>> \in W[d] <=> \E y \in all : <<y, 0>> \in W[d] /\ <<x, y>> \in feeds
    BY <1>2, <2>1
  <2> QED BY <1>1, <2>2
<1>4. ASSUME NEW n \in T PROVE n + 1 \in T
  <2> SUFFICES ASSUME (n + 1) + 1 <= top, NEW x \in all
               PROVE  <<x, (n + 1) + 1>> \in W[d]
                        <=> \E p \in all : <<p, d>> \in feeds /\ <<x, n + 1>> \in W[p]
    OBVIOUS
  <2>1. n \in 0..top - 1 /\ n + 1 \in 0..top - 1
        /\ \A y \in all : <<y, n + 1>> \in W[d] <=> \E p \in all : <<p, d>> \in feeds /\ <<y, n>> \in W[p]
    <3>1. n \in Nat /\ n + 1 <= top
      BY <1>4
    <3>2. \A y \in all : <<y, n + 1>> \in W[d] <=> \E p \in all : <<p, d>> \in feeds /\ <<y, n>> \in W[p]
      BY <1>4, <3>1
    <3> QED BY <3>1, <3>2
  <2>2. <<x, (n + 1) + 1>> \in W[d] <=> \E y \in all : <<y, n + 1>> \in W[d] /\ <<x, y>> \in feeds
    BY <1>2, <2>1
  <2>3. \A p \in all : <<x, n + 1>> \in W[p] <=> \E y \in all : <<y, n>> \in W[p] /\ <<x, y>> \in feeds
    BY <1>2, <2>1
  <2> QED BY <2>1, <2>2, <2>3
<1> HIDE DEF T
<1>5. Nat \subseteq T
  BY <1>3, <1>4, SetInduction
<1> QED BY <1>5 DEF T, TakenLast

\* All paths of a graph: W[d] has what is above d.
AllPaths(W, P, feeds) ==
    /\ P \in Seq(Datasets) /\ \A i, j \in 1..Len(P) : P[i] = P[j] => i = j
    /\ Uphill(P, feeds)
    /\ \A d \in ToSet(P) : /\ W[d] \subseteq ToSet(P) \X (0..Len(P) - 1)
                           /\ Trails(W[d], feeds, ToSet(P), Len(P) - 1, d)
Reaches(W, x, d) == \E n : <<x, n>> \in W[d]

\* The distance is the least length.
LEMMA DistanceIs ==
  ASSUME NEW all, NEW top \in Nat, NEW ways, ways \subseteq all \X (0..top), NEW x, NEW m, <<x, m>> \in ways
  PROVE  /\ Distance(ways, x) \in 0..top /\ <<x, Distance(ways, x)>> \in ways
         /\ \A n : <<x, n>> \in ways => n \in 0..top /\ Distance(ways, x) <= n
<1> DEFINE N == {p[2] : p \in {q \in ways : q[1] = x}}
<1>1. \A n : n \in N <=> <<x, n>> \in ways
  <2>1. ASSUME NEW n, <<x, n>> \in ways PROVE n \in N
    <3> DEFINE p == <<x, n>>
    <3>1. p \in ways /\ p[1] = x /\ p[2] = n
      BY <2>1
    <3> QED BY <3>1
  <2>2. ASSUME NEW n \in N PROVE <<x, n>> \in ways
    <3>1. PICK p \in ways : p[1] = x /\ p[2] = n
      OBVIOUS
    <3>2. p = <<p[1], p[2]>>
      OBVIOUS
    <3> QED BY <3>1, <3>2
  <2> QED BY <2>1, <2>2
<1>2. N \subseteq 0..top /\ N # {}
  BY <1>1
<1>3. Distance(ways, x) = CHOOSE n \in N : \A k \in N : n <= k
  BY DEF Distance, Min
<1> HIDE DEF N
<1>4. N \subseteq Nat
  BY <1>2
<1>5. PICK n \in N : \A k \in N : n <= k
  BY <1>2, <1>4, LeastNat
<1>6. Distance(ways, x) \in N /\ \A k \in N : Distance(ways, x) <= k
  BY <1>3, <1>5
<1> QED BY <1>1, <1>2, <1>6

\* What is above a dataset is the dataset or above what feeds it, at one step more.
LEMMA ReachStep ==
  ASSUME NEW W, NEW P, NEW feeds, AllPaths(W, P, feeds), NEW d \in ToSet(P)
  PROVE  /\ Reaches(W, d, d) /\ Distance(W[d], d) = 0
         /\ \A x \in ToSet(P) : Reaches(W, x, d) => Distance(W[d], x) \in Nat
         /\ \A x, p \in ToSet(P) : <<p, d>> \in feeds /\ Reaches(W, x, p) =>
                /\ Reaches(W, x, d) /\ x # d
                /\ Distance(W[d], x) <= Distance(W[p], x) + 1
         /\ \A x \in ToSet(P) : Reaches(W, x, d) /\ x # d =>
                \E p \in ToSet(P) : /\ <<p, d>> \in feeds /\ Reaches(W, x, p)
                                    /\ Distance(W[d], x) = Distance(W[p], x) + 1
<1> DEFINE all == ToSet(P)
           top == Len(P) - 1
<1>1. /\ P \in Seq(Datasets) /\ all = {P[i] : i \in 1..Len(P)} /\ Len(P) \in Nat /\ top \in Nat
      /\ Len(P) = top + 1
  <2>1. P \in Seq(Datasets)
    BY DEF AllPaths
  <2>2. all = {P[i] : i \in 1..Len(P)} /\ Len(P) \in Nat
    BY <2>1 DEF ToSet
  <2> QED BY <2>1, <2>2
<1>2. /\ \A i, j \in 1..Len(P) : P[i] = P[j] => i = j
      /\ Uphill(P, feeds) /\ feeds \subseteq all \X all
      /\ \A p \in all : W[p] \subseteq all \X (0..top) /\ Trails(W[p], feeds, all, top, p)
  BY DEF AllPaths, Uphill
<1>3. ASSUME NEW k \in 1..Len(P)
      PROVE  \A i \in 1..Len(P), n \in 0..top : <<P[i], n>> \in W[P[k]] => i + n <= k
  <2>1. P[k] \in all
    BY <1>1
  <2>2. Trails(W[P[k]], feeds, all, top, P[k])
    BY <1>2, <2>1
  <2> HIDE DEF top
  <2> QED BY <1>1, <1>2, <2>2, TrailsRise
<1> HIDE DEF all, top
<1>4. ASSUME NEW x \in all, NEW p \in all, Reaches(W, x, p)
      PROVE  /\ Distance(W[p], x) \in 0..top /\ <<x, Distance(W[p], x)>> \in W[p]
             /\ \A n : <<x, n>> \in W[p] => n \in 0..top /\ Distance(W[p], x) <= n
  <2>1. PICK m : <<x, m>> \in W[p]
    BY <1>4 DEF Reaches
  <2>2. W[p] \subseteq all \X (0..top)
    BY <1>2
  <2> QED BY <1>1, <2>1, <2>2, DistanceIs
<1>5. d \in all /\ <<d, 0>> \in W[d]
  <2>1. d \in all
    BY DEF all
  <2> QED BY <1>2, <2>1 DEF Trails
<1>6. Reaches(W, d, d)
  BY <1>5 DEF Reaches
<1>7. Distance(W[d], d) = 0
  <2>1. Distance(W[d], d) \in 0..top /\ Distance(W[d], d) <= 0
    BY <1>4, <1>5, <1>6
  <2> QED BY <1>1, <2>1
<1>8. \A x \in all, n \in 0..top - 1 :
            <<x, n + 1>> \in W[d] <=> \E p \in all : <<p, d>> \in feeds /\ <<x, n>> \in W[p]
  <2>1. AllTrails(W, feeds, all, top)
    BY <1>2 DEF AllTrails
  <2>2. feeds \subseteq all \X all /\ top \in Nat /\ d \in all
    BY <1>1, <1>2, <1>5
  <2>3. TakenLast(W, feeds, all, top, d)
    BY <2>1, <2>2, TrailsLast
  <2> QED BY <2>3 DEF TakenLast
<1>9. ASSUME NEW x \in all, NEW p \in all, <<p, d>> \in feeds, Reaches(W, x, p)
      PROVE  Reaches(W, x, d) /\ x # d /\ Distance(W[d], x) <= Distance(W[p], x) + 1
  <2> DEFINE n == Distance(W[p], x)
  <2>1. n \in 0..top /\ <<x, n>> \in W[p]
    BY <1>4, <1>9
  <2>2. PICK i \in 1..Len(P), j \in 1..Len(P), k \in 1..Len(P) : x = P[i] /\ p = P[j] /\ d = P[k]
    BY <1>1, <1>5
  <2>3. i + n <= j /\ j < k
    BY <1>2, <1>3, <1>9, <2>1, <2>2 DEF Uphill
  <2> HIDE DEF n
  <2>4. n \in 0..top - 1 /\ i # k
    BY <1>1, <2>1, <2>2, <2>3
  <2>5. <<x, n + 1>> \in W[d]
    BY <1>8, <1>9, <2>1, <2>4
  <2>6. Reaches(W, x, d)
    BY <2>5 DEF Reaches
  <2>7. Distance(W[d], x) <= n + 1
    BY <1>4, <1>5, <2>5, <2>6
  <2>8. x # d
    BY <1>2, <2>2, <2>4
  <2> QED BY <2>6, <2>7, <2>8 DEF n
<1>10. ASSUME NEW x \in all, Reaches(W, x, d), x # d
       PROVE  \E p \in all : /\ <<p, d>> \in feeds /\ Reaches(W, x, p)
                              /\ Distance(W[d], x) = Distance(W[p], x) + 1
  <2> DEFINE n == Distance(W[d], x)
  <2>1. n \in 0..top /\ <<x, n>> \in W[d]
    BY <1>4, <1>5, <1>10
  <2>2. n # 0
    <3>1. Trails(W[d], feeds, all, top, d)
      BY <1>2, <1>5
    <3> QED BY <1>10, <2>1, <3>1 DEF Trails
  <2>3. n - 1 \in 0..top - 1 /\ (n - 1) + 1 = n
    BY <1>1, <2>1, <2>2
  <2> HIDE DEF n
  <2>4. PICK p \in all : <<p, d>> \in feeds /\ <<x, n - 1>> \in W[p]
    <3>1. <<x, (n - 1) + 1>> \in W[d]
      BY <2>1, <2>3
    <3> QED BY <1>8, <2>3, <3>1
  <2>5. Reaches(W, x, p)
    BY <2>4 DEF Reaches
  <2>6. Distance(W[p], x) \in 0..top /\ Distance(W[p], x) <= n - 1
    BY <1>4, <2>4, <2>5
  <2>7. n <= Distance(W[p], x) + 1
    BY <1>9, <2>4, <2>5 DEF n
  <2>8. n = Distance(W[p], x) + 1
    BY <1>1, <2>1, <2>6, <2>7
  <2> QED BY <2>4, <2>5, <2>8 DEF n
<1>11. ASSUME NEW x \in all, Reaches(W, x, d) PROVE Distance(W[d], x) \in Nat
  <2>1. Distance(W[d], x) \in 0..top
    BY <1>4, <1>5, <1>11
  <2> QED BY <1>1, <2>1
<1> QED BY <1>6, <1>7, <1>9, <1>10, <1>11 DEF all

-----------------------------------------------------------------------------
(* The causes of a status: what is in doubt on a path, once, at its distance. *)

\* Every cause is in doubt for its reason and has a path; everything in doubt has a cause as near as it
\* can be; no cause is nearer; every cause is as near as it can be.
Named(K, W, all, why, d) ==
    \A c \in K : /\ c = [path |-> c.path, reason |-> c.reason] /\ c.path \in Seq(all) /\ c.path # <<>>
                 /\ c.reason \in why[c.path[1]] /\ Reaches(W, c.path[1], d)
Nearest(K, W, all, why, d) ==
    \A x \in all : \A r \in why[x] : Reaches(W, x, d) =>
        \E c \in K : c.path[1] = x /\ c.reason = r /\ Len(c.path) = Distance(W[d], x) + 1
NoNearer(K, W, d) == \A c \in K : Distance(W[d], c.path[1]) + 1 <= Len(c.path)
AtDistance(K, W, d) == \A c \in K : Len(c.path) = Distance(W[d], c.path[1]) + 1
Measured(W, all, d) == \A x \in all : Reaches(W, x, d) => Distance(W[d], x) \in Nat
Causal(K, W, all, why, d) == Named(K, W, all, why, d) /\ Nearest(K, W, all, why, d) /\ AtDistance(K, W, d)

\* A path that is not empty has a first place.
LEMMA PathEnds ==
  ASSUME NEW all, NEW p \in Seq(all), p # <<>>
  PROVE  p[1] \in all /\ Len(p) \in Nat
OBVIOUS

\* One step more keeps where a path begins.
LEMMA PathLonger ==
  ASSUME NEW all, NEW p \in Seq(all), p # <<>>, NEW d \in all
  PROVE  /\ Append(p, d) \in Seq(all) /\ Append(p, d) # <<>>
         /\ Append(p, d)[1] = p[1] /\ Len(Append(p, d)) = Len(p) + 1
<1>1. Len(p) \in Nat /\ Len(p) >= 1
  OBVIOUS
<1>2. Append(p, d) \in Seq(all) /\ Len(Append(p, d)) = Len(p) + 1 /\ Append(p, d)[1] = p[1]
  BY <1>1
<1> QED BY <1>1, <1>2

\* Of the causes of one root and one reason, one that is as near as it can be is kept.
LEMMA ShortestNear ==
  ASSUME NEW K, NEW W, NEW all, NEW why, NEW d, Named(K, W, all, why, d), Nearest(K, W, all, why, d),
         NoNearer(K, W, d), Measured(W, all, d)
  PROVE  Causal(Shortest(K), W, all, why, d)
<1> DEFINE Same(c) == {k \in K : k.path[1] = c.path[1] /\ k.reason = c.reason}
           Least(c) == CHOOSE k \in Same(c) : \A m \in Same(c) : Len(k.path) <= Len(m.path)
<1>1. Shortest(K) = {Least(c) : c \in K}
  BY DEF Shortest
<1>2. ASSUME NEW c \in K
      PROVE  /\ Least(c) \in K /\ Least(c).path[1] = c.path[1] /\ Least(c).reason = c.reason
             /\ Len(Least(c).path) = Distance(W[d], c.path[1]) + 1
  <2> DEFINE x == c.path[1]
  <2>1. x \in all /\ c.reason \in why[x] /\ Reaches(W, x, d)
    BY PathEnds DEF Named
  <2>2. Distance(W[d], x) \in Nat
    BY <2>1 DEF Measured
  <2>3. PICK m \in K : m.path[1] = x /\ m.reason = c.reason /\ Len(m.path) = Distance(W[d], x) + 1
    BY <2>1 DEF Nearest
  <2>4. \A k \in Same(c) : /\ k \in K /\ k.path[1] = x /\ k.reason = c.reason
                           /\ Len(k.path) \in Nat /\ Distance(W[d], x) + 1 <= Len(k.path)
    BY PathEnds DEF Named, NoNearer
  <2>5. m \in Same(c)
    BY <2>3
  <2>6. \A k \in Same(c) : Len(m.path) <= Len(k.path)
    BY <2>3, <2>4
  <2>7. Least(c) \in Same(c) /\ \A k \in Same(c) : Len(Least(c).path) <= Len(k.path)
    <3> HIDE DEF Same
    <3> QED BY <2>5, <2>6
  <2> HIDE DEF Same, Least, x
  <2>8. Len(Least(c).path) <= Len(m.path)
    BY <2>5, <2>7
  <2>9. Len(Least(c).path) = Distance(W[d], x) + 1
    BY <2>2, <2>3, <2>4, <2>7, <2>8
  <2> QED BY <2>4, <2>7, <2>9 DEF x
<1> HIDE DEF Same, Least
<1>3. Named(Shortest(K), W, all, why, d)
  <2>1. \A k \in Shortest(K) : k \in K
    BY <1>1, <1>2
  <2> QED BY <2>1 DEF Named
<1>4. AtDistance(Shortest(K), W, d)
  BY <1>1, <1>2 DEF AtDistance
<1>5. Nearest(Shortest(K), W, all, why, d)
  <2> SUFFICES ASSUME NEW x \in all, NEW r \in why[x], Reaches(W, x, d)
               PROVE  \E c \in Shortest(K) : /\ c.path[1] = x /\ c.reason = r
                                             /\ Len(c.path) = Distance(W[d], x) + 1
    BY DEF Nearest
  <2>1. PICK c \in K : c.path[1] = x /\ c.reason = r
    BY DEF Nearest
  <2>2. Least(c) \in Shortest(K)
    BY <1>1
  <2> QED BY <1>2, <2>1, <2>2
<1> QED BY <1>3, <1>4, <1>5 DEF Causal

\* A cause that begins at d, a cause passed on to d, and all the causes d has before the shortest are kept.
Root(d, r) == [path |-> <<d>>, reason |-> r]
Further(c, d) == [c EXCEPT !.path = Append(@, d)]
Gathered(C, why, poor, d) ==
    {Root(d, r) : r \in why[d]} \cup UNION {{Further(c, d) : c \in C[p]} : p \in poor}
\* What the datasets that feed d are in doubt for, poor being those that are in doubt.
FeedersTold(C, W, P, feeds, why, poor, d) ==
    \A p \in ToSet(P) : <<p, d>> \in feeds =>
        /\ Causal(C[p], W, ToSet(P), why, p)
        /\ p \in poor \/ \A x \in ToSet(P) : Reaches(W, x, p) => why[x] = {}

\* Its own reasons and what its inputs pass on give every cause, one of them at the distance.
LEMMA GatheredNear ==
  ASSUME NEW W, NEW P, NEW feeds, AllPaths(W, P, feeds), NEW d \in ToSet(P), NEW C, NEW why,
         NEW poor \in SUBSET {p \in ToSet(P) : <<p, d>> \in feeds}, FeedersTold(C, W, P, feeds, why, poor, d)
  PROVE  LET K == Gathered(C, why, poor, d) IN
         /\ Named(K, W, ToSet(P), why, d) /\ Nearest(K, W, ToSet(P), why, d)
         /\ NoNearer(K, W, d) /\ Measured(W, ToSet(P), d)
<1> DEFINE all == ToSet(P)
           K == Gathered(C, why, poor, d)
<1>1. /\ Reaches(W, d, d) /\ Distance(W[d], d) = 0
      /\ \A x \in all : Reaches(W, x, d) => Distance(W[d], x) \in Nat
      /\ \A x, p \in all : <<p, d>> \in feeds /\ Reaches(W, x, p) =>
             Reaches(W, x, d) /\ x # d /\ Distance(W[d], x) <= Distance(W[p], x) + 1
      /\ \A x \in all : Reaches(W, x, d) /\ x # d =>
             \E p \in all : /\ <<p, d>> \in feeds /\ Reaches(W, x, p)
                            /\ Distance(W[d], x) = Distance(W[p], x) + 1
  BY ReachStep
<1>2. d \in all /\ \A p \in poor : p \in all /\ <<p, d>> \in feeds
  OBVIOUS
<1>3. \A p \in all : <<p, d>> \in feeds =>
         /\ Named(C[p], W, all, why, p) /\ Nearest(C[p], W, all, why, p) /\ AtDistance(C[p], W, p)
         /\ p \in poor \/ \A x \in all : Reaches(W, x, p) => why[x] = {}
  BY DEF FeedersTold, Causal
<1>4. Measured(W, all, d)
  BY <1>1 DEF Measured
<1>5. \A r \in why[d] : Root(d, r) \in K
  BY DEF Gathered
<1>6. \A p \in poor : \A c \in C[p] : Further(c, d) \in K
  BY DEF Gathered
<1>7. \A k \in K : (\E r \in why[d] : k = Root(d, r)) \/ \E p \in poor : \E c \in C[p] : k = Further(c, d)
  BY DEF Gathered
<1> HIDE DEF all, K
<1>8. ASSUME NEW r \in why[d], NEW k, k = Root(d, r)
      PROVE  /\ k = [path |-> k.path, reason |-> k.reason] /\ k.path \in Seq(all) /\ k.path # <<>>
             /\ k.path[1] = d /\ k.reason = r /\ Len(k.path) = 1
  <2>1. /\ k = [path |-> k.path, reason |-> k.reason] /\ k.path = <<d>> /\ k.reason = r
    BY <1>8 DEF Root
  <2>2. PICK q : q = <<d>>
    OBVIOUS
  <2>3. q \in Seq(all) /\ q # <<>> /\ q[1] = d /\ Len(q) = 1
    BY <1>2, <2>2
  <2>4. k.path = q
    BY <2>1, <2>2
  <2> QED BY <2>1, <2>3, <2>4
<1>10. ASSUME NEW p \in all, <<p, d>> \in feeds, NEW c \in C[p]
       PROVE  LET k == Further(c, d) IN
              /\ k = [path |-> k.path, reason |-> k.reason] /\ k.path \in Seq(all) /\ k.path # <<>>
              /\ k.path[1] = c.path[1] /\ c.path[1] \in all
              /\ k.reason = c.reason /\ c.reason \in why[c.path[1]] /\ Reaches(W, c.path[1], p)
              /\ Len(c.path) = Distance(W[p], c.path[1]) + 1
              /\ Len(k.path) = Len(c.path) + 1 /\ Len(c.path) \in Nat
  <2>1. /\ c = [path |-> c.path, reason |-> c.reason] /\ c.path \in Seq(all) /\ c.path # <<>>
        /\ c.reason \in why[c.path[1]] /\ Reaches(W, c.path[1], p)
    BY <1>3, <1>10 DEF Named
  <2>2. Len(c.path) = Distance(W[p], c.path[1]) + 1
    BY <1>3, <1>10 DEF AtDistance
  <2>3. Further(c, d) = [path |-> Append(c.path, d), reason |-> c.reason]
    BY <2>1, SMTT(30) DEF Further
  <2>4. PICK k : k = Further(c, d)
    OBVIOUS
  <2>5. /\ Append(c.path, d) \in Seq(all) /\ Append(c.path, d) # <<>>
        /\ Append(c.path, d)[1] = c.path[1] /\ Len(Append(c.path, d)) = Len(c.path) + 1
    BY <1>2, <2>1, PathLonger
  <2>6. c.path[1] \in all /\ Len(c.path) \in Nat
    BY <2>1, PathEnds
  <2>7. k.path = Append(c.path, d) /\ k.reason = c.reason /\ k = [path |-> k.path, reason |-> k.reason]
    BY <2>3, <2>4
  <2> QED BY <2>1, <2>2, <2>4, <2>5, <2>6, <2>7
<1>11. Named(K, W, all, why, d)
  <2> SUFFICES ASSUME NEW k \in K
               PROVE  /\ k = [path |-> k.path, reason |-> k.reason] /\ k.path \in Seq(all) /\ k.path # <<>>
                      /\ k.reason \in why[k.path[1]] /\ Reaches(W, k.path[1], d)
    BY DEF Named
  <2>1. ASSUME NEW r \in why[d], k = Root(d, r)
        PROVE  /\ k = [path |-> k.path, reason |-> k.reason] /\ k.path \in Seq(all) /\ k.path # <<>>
               /\ k.reason \in why[k.path[1]] /\ Reaches(W, k.path[1], d)
    <3>1. /\ k = [path |-> k.path, reason |-> k.reason] /\ k.path \in Seq(all) /\ k.path # <<>>
          /\ k.path[1] = d /\ k.reason = r
      BY <1>8, <2>1
    <3>2. Reaches(W, d, d)
      BY <1>1
    <3> QED BY <3>1, <3>2
  <2>2. ASSUME NEW p \in poor, NEW c \in C[p], k = Further(c, d)
        PROVE  /\ k = [path |-> k.path, reason |-> k.reason] /\ k.path \in Seq(all) /\ k.path # <<>>
               /\ k.reason \in why[k.path[1]] /\ Reaches(W, k.path[1], d)
    <3>1. p \in all /\ <<p, d>> \in feeds
      BY <1>2
    <3> QED BY <1>1, <1>10, <2>2, <3>1
  <2> QED BY <1>7, <2>1, <2>2
<1>12. NoNearer(K, W, d)
  <2> SUFFICES ASSUME NEW k \in K PROVE Distance(W[d], k.path[1]) + 1 <= Len(k.path)
    BY DEF NoNearer
  <2>1. ASSUME NEW r \in why[d], k = Root(d, r) PROVE Distance(W[d], k.path[1]) + 1 <= Len(k.path)
    <3>1. k.path[1] = d /\ Len(k.path) = 1
      BY <1>8, <2>1
    <3>2. Distance(W[d], d) = 0
      BY <1>1
    <3> QED BY <3>1, <3>2
  <2>2. ASSUME NEW p \in poor, NEW c \in C[p], k = Further(c, d)
        PROVE  Distance(W[d], k.path[1]) + 1 <= Len(k.path)
    <3>1. p \in all /\ <<p, d>> \in feeds
      BY <1>2
    <3>2. /\ k.path[1] = c.path[1] /\ c.path[1] \in all /\ Reaches(W, c.path[1], p)
          /\ Len(c.path) = Distance(W[p], c.path[1]) + 1
          /\ Len(k.path) = Len(c.path) + 1 /\ Len(c.path) \in Nat
      BY <1>10, <2>2, <3>1
    <3>3. Reaches(W, c.path[1], d) /\ Distance(W[d], c.path[1]) <= Distance(W[p], c.path[1]) + 1
      BY <1>1, <3>1, <3>2
    <3>4. Distance(W[d], c.path[1]) \in Nat
      BY <1>1, <3>2, <3>3
    <3> QED BY <3>2, <3>3, <3>4
  <2> QED BY <1>7, <2>1, <2>2
<1>13. Nearest(K, W, all, why, d)
  <2> SUFFICES ASSUME NEW x \in all, NEW r \in why[x], Reaches(W, x, d)
               PROVE  \E c \in K : c.path[1] = x /\ c.reason = r /\ Len(c.path) = Distance(W[d], x) + 1
    BY DEF Nearest
  <2>1. CASE x = d
    <3>1. PICK k \in K : k = Root(d, r)
      BY <1>5, <2>1
    <3>2. k.path[1] = d /\ k.reason = r /\ Len(k.path) = 1
      BY <1>8, <2>1, <3>1
    <3>3. Distance(W[d], d) = 0
      BY <1>1
    <3> QED BY <2>1, <3>2, <3>3
  <2>2. CASE x # d
    <3>1. PICK p \in all : /\ <<p, d>> \in feeds /\ Reaches(W, x, p)
                           /\ Distance(W[d], x) = Distance(W[p], x) + 1
      BY <1>1, <2>2
    <3>2. p \in poor
      BY <1>3, <3>1
    <3>3. Nearest(C[p], W, all, why, p)
      BY <1>3, <3>1
    <3>4. PICK c \in C[p] : c.path[1] = x /\ c.reason = r /\ Len(c.path) = Distance(W[p], x) + 1
      BY <3>1, <3>3 DEF Nearest
    <3>5. Further(c, d) \in K
      BY <1>6, <3>2
    <3>6. /\ Further(c, d).path[1] = x /\ Further(c, d).reason = r
          /\ Len(Further(c, d).path) = Len(c.path) + 1
      BY <1>10, <3>1, <3>4
    <3> QED BY <3>1, <3>4, <3>5, <3>6
  <2> QED BY <2>1, <2>2
<1> QED BY <1>4, <1>11, <1>12, <1>13 DEF all, K

-----------------------------------------------------------------------------
(* A status says what the paths say. *)

Feeders(g, s, d) == {p \in ToSet(g.order) : <<p, d>> \in Feeds(g, s)}
InDoubt(x) == StaleStatus(x) \/ UnknownStatus(x)
Why(g, s) == [x \in ToSet(g.order) |-> Own(g, s, x).reasons]
Bad(g, s) ==
    {x \in ToSet(g.order) : "stale" \in {Own(g, s, x).data, Own(g, s, x).logic} \/ s.here[x] \in Lacking}
Bounded(g, s, d) == Facts(g, s, d).boundaries # {}
Causes(g, st) == [p \in ToSet(g.order) |-> st[p].causes]
Poorly(g, s, st, d) == {p \in Feeders(g, s, d) : InDoubt(st[p])}
\* The status of d, by the edges of the paths.
Judged(g, s, st, d) ==
    LET own == Own(g, s, d)
        K == Gathered(Causes(g, st), Why(g, s), Poorly(g, s, st, d), d)
    IN /\ st[d].bytes = s.here[d] /\ st[d].data = own.data /\ st[d].logic = own.logic
       /\ st[d].inherited = Inherits({st[p] : p \in Feeders(g, s, d)}, Bounded(g, s, d))
       /\ st[d].causes = Shortest(K)
       /\ st[d].match <=> K = {} /\ s.here[d] = "available"

\* The inputs a dataset follows are the edges of the paths.
LEMMA JudgedByFeeders ==
  ASSUME NEW g, NEW s, NEW st, DOMAIN st = ToSet(g.order), NEW d \in ToSet(g.order),
         st[d] = Judge(g, s, st, d)
  PROVE  Judged(g, s, st, d)
<1> DEFINE all == ToSet(g.order)
           own == Own(g, s, d)
           f == Facts(g, s, d)
           followed == {e \in InputsOf(g, d) \ f.boundaries : e.parent \in DOMAIN st}
           poor == {e \in followed : StaleStatus(st[e.parent]) \/ UnknownStatus(st[e.parent])}
           roots == {[path |-> <<d>>, reason |-> r] : r \in own.reasons}
           passed == UNION {{[c EXCEPT !.path = Append(@, d)] : c \in st[e.parent].causes} : e \in poor}
           feeders == Feeders(g, s, d)
           weak == Poorly(g, s, st, d)
           K == Gathered(Causes(g, st), Why(g, s), weak, d)
<1>1. st[d] = [bytes |-> f.bytes, data |-> own.data, logic |-> own.logic,
               inherited |-> Inherits({st[e.parent] : e \in followed}, f.boundaries # {}),
               causes |-> Shortest(roots \cup passed),
               match |-> roots \cup passed = {} /\ f.bytes = "available"]
  BY DEF Judge
<1>2. f.bytes = s.here[d]
  BY DEF Facts, Retained
<1>3. \A p \in all : p \in feeders <=> \E e \in InputsOf(g, d) \ f.boundaries : e.parent = p
  <2> SUFFICES ASSUME NEW p \in all
               PROVE  <<p, d>> \in Feeds(g, s) <=> \E e \in InputsOf(g, d) \ f.boundaries : e.parent = p
    BY DEF Feeders
  <2> DEFINE q == <<p, d>>
  <2>1. q \in ToSet(g.order) \X ToSet(g.order) /\ q[1] = p /\ q[2] = d
    OBVIOUS
  <2> HIDE DEF q
  <2>2. q \in Feeds(g, s) <=> \E e \in InputsOf(g, q[2]) \ Facts(g, s, q[2]).boundaries : e.parent = q[1]
    BY <2>1 DEF Feeds
  <2>3. q \in Feeds(g, s) <=> \E e \in InputsOf(g, d) \ f.boundaries : e.parent = p
    BY <2>1, <2>2
  <2> QED BY <2>3 DEF q
<1>4. feeders \subseteq all
  BY DEF Feeders
<1> HIDE DEF f, own, feeders
<1>5. \A p : p \in feeders <=> \E e \in followed : e.parent = p
  BY <1>3, <1>4
<1>6. weak = {p \in feeders : StaleStatus(st[p]) \/ UnknownStatus(st[p])}
  BY DEF Poorly, InDoubt, feeders
<1> HIDE DEF followed, weak
<1>7. \A p : p \in weak <=> \E e \in poor : e.parent = p
  BY <1>5, <1>6
<1>8. {st[e.parent] : e \in followed} = {st[p] : p \in feeders}
  BY <1>5
<1> HIDE DEF poor
<1>9. passed = UNION {{Further(c, d) : c \in Causes(g, st)[p]} : p \in weak}
  <2>1. \A p \in weak : p \in all /\ Causes(g, st)[p] = st[p].causes
    <3>1. weak \subseteq all
      BY <1>4, <1>6
    <3>2. \A p \in all : Causes(g, st)[p] = st[p].causes
      BY DEF Causes
    <3> QED BY <3>1, <3>2
  <2>2. passed = UNION {{Further(c, d) : c \in st[e.parent].causes} : e \in poor}
    BY DEF Further
  <2> HIDE DEF passed
  <2>3. \A e \in poor : e.parent \in weak
    BY <1>7
  <2>4. \A k \in passed : \E p \in weak : k \in {Further(c, d) : c \in Causes(g, st)[p]}
    <3> TAKE k \in passed
    <3>1. PICK e \in poor : k \in {Further(c, d) : c \in st[e.parent].causes}
      BY <2>2
    <3>2. e.parent \in weak /\ st[e.parent].causes = Causes(g, st)[e.parent]
      BY <2>1, <2>3
    <3> QED BY <3>1, <3>2
  <2>5. \A p \in weak : \A c \in Causes(g, st)[p] : Further(c, d) \in passed
    <3> TAKE p \in weak
    <3> TAKE c \in Causes(g, st)[p]
    <3>1. PICK e \in poor : e.parent = p
      BY <1>7
    <3>2. c \in st[e.parent].causes
      BY <2>1, <3>1
    <3> QED BY <2>2, <3>1, <3>2
  <2> QED BY <2>4, <2>5
<1>10. roots = {Root(d, r) : r \in Why(g, s)[d]}
  <2>1. Why(g, s)[d] = own.reasons
    BY DEF Why, own
  <2> QED BY <2>1 DEF Root
<1>11. K = roots \cup passed
  <2> HIDE DEF roots, passed
  <2> QED BY <1>9, <1>10 DEF Gathered
<1> HIDE DEF K, roots, passed
<1>12. /\ st[d].bytes = f.bytes /\ st[d].data = own.data /\ st[d].logic = own.logic
       /\ st[d].inherited = Inherits({st[e.parent] : e \in followed}, f.boundaries # {})
       /\ st[d].causes = Shortest(roots \cup passed)
       /\ st[d].match = (roots \cup passed = {} /\ f.bytes = "available")
  <2>1. PICK x : x = st[d]
    OBVIOUS
  <2>2. PICK i, k : i = Inherits({st[e.parent] : e \in followed}, f.boundaries # {})
                    /\ k = Shortest(roots \cup passed)
    OBVIOUS
  <2>3. x = [bytes |-> f.bytes, data |-> own.data, logic |-> own.logic, inherited |-> i, causes |-> k,
             match |-> roots \cup passed = {} /\ f.bytes = "available"]
    BY <1>1, <2>1, <2>2
  <2>4. x.bytes = f.bytes /\ x.data = own.data /\ x.logic = own.logic /\ x.inherited = i /\ x.causes = k
        /\ x.match = (roots \cup passed = {} /\ f.bytes = "available")
    BY <2>3
  <2> QED BY <2>1, <2>2, <2>4
<1> QED
  BY <1>2, <1>8, <1>11, <1>12 DEF Judged, Bounded, f, own, feeders, weak, K

\* What the status of d says of the paths to it.
Told(g, s, W, st, d) ==
    LET all == ToSet(g.order)
        why == Why(g, s)
        above == {x \in all : Reaches(W, x, d)} \ {d}
    IN /\ StaleStatus(st[d]) <=> \E x \in Bad(g, s) : Reaches(W, x, d)
       /\ InDoubt(st[d]) <=> \E x \in all : why[x] # {} /\ Reaches(W, x, d)
       /\ Causal(st[d].causes, W, all, why, d)
       /\ st[d].inherited =
            IF above \cap Bad(g, s) # {} THEN "stale"
            ELSE IF (\E x \in above : why[x] # {}) \/ Bounded(g, s, d) THEN "unknown" ELSE "current"
       /\ st[d].match <=> /\ s.here[d] = "available"
                          /\ \A x \in all : Reaches(W, x, d) => why[x] = {}

\* What the inputs a dataset follows say of the paths to them, the dataset says of the paths to it.
LEMMA ToldOn ==
  ASSUME NEW g, NEW s, Sound(g, s), NEW W, AllPaths(W, g.order, Feeds(g, s)), NEW st, NEW d \in ToSet(g.order),
         Judged(g, s, st, d), \A p \in Feeders(g, s, d) : Told(g, s, W, st, p)
  PROVE  Told(g, s, W, st, d)
<1> DEFINE P == g.order
           all == ToSet(P)
           feeds == Feeds(g, s)
           feeders == Feeders(g, s, d)
           why == Why(g, s)
           bad == Bad(g, s)
           own == Own(g, s, d)
           poor == Poorly(g, s, st, d)
           C == Causes(g, st)
           K == Gathered(C, why, poor, d)
           above == {x \in all : Reaches(W, x, d)} \ {d}
<1>1. /\ Reaches(W, d, d)
      /\ \A x, p \in all : <<p, d>> \in feeds /\ Reaches(W, x, p) => Reaches(W, x, d) /\ x # d
      /\ \A x \in all : Reaches(W, x, d) /\ x # d => \E p \in all : <<p, d>> \in feeds /\ Reaches(W, x, p)
  BY ReachStep
<1>2. feeders = {p \in all : <<p, d>> \in feeds} /\ poor = {p \in feeders : InDoubt(st[p])}
  BY DEF Feeders, Poorly
<1>3. \A p \in feeders : /\ StaleStatus(st[p]) <=> \E x \in bad : Reaches(W, x, p)
                         /\ InDoubt(st[p]) <=> \E x \in all : why[x] # {} /\ Reaches(W, x, p)
                         /\ Causal(st[p].causes, W, all, why, p)
  BY DEF Told
<1>4. /\ st[d].bytes = s.here[d] /\ st[d].data = own.data /\ st[d].logic = own.logic
      /\ st[d].inherited = Inherits({st[p] : p \in feeders}, Bounded(g, s, d))
      /\ st[d].causes = Shortest(K)
      /\ st[d].match <=> K = {} /\ s.here[d] = "available"
  BY DEF Judged
<1>5. /\ own.data \in {"stale", "current", "unknown"} /\ own.logic \in {"stale", "current", "unknown"}
      /\ s.here[d] \in Heads
      /\ own.reasons = {} <=> /\ own.data = "current" /\ own.logic = "current"
                              /\ s.here[d] = "available" /\ ~Bounded(g, s, d)
  BY OwnDoubts DEF Sound, Bounded
<1>6. /\ d \in all /\ why[d] = own.reasons /\ bad \subseteq all
      /\ d \in bad <=> own.data = "stale" \/ own.logic = "stale" \/ s.here[d] \in Lacking
  BY DEF Why, Bad
<1>7. \A p \in all : C[p] = st[p].causes
  BY DEF Causes
<1> HIDE DEF own, bad, why, feeds, feeders, poor, C, K, all
<1>8. (\E p \in feeders : StaleStatus(st[p])) <=> above \cap bad # {}
  <2>1. ASSUME NEW p \in feeders, StaleStatus(st[p]) PROVE above \cap bad # {}
    <3>1. PICK x \in bad : Reaches(W, x, p)
      BY <1>3, <2>1
    <3>2. x \in all /\ p \in all /\ <<p, d>> \in feeds
      BY <1>2, <1>6
    <3>3. Reaches(W, x, d) /\ x # d
      BY <1>1, <3>1, <3>2
    <3>4. x \in above
      BY <3>2, <3>3
    <3> QED BY <3>1, <3>4
  <2>2. ASSUME NEW x \in above, x \in bad PROVE \E p \in feeders : StaleStatus(st[p])
    <3>1. x \in all /\ Reaches(W, x, d) /\ x # d
      OBVIOUS
    <3>2. PICK p \in all : <<p, d>> \in feeds /\ Reaches(W, x, p)
      BY <1>1, <3>1
    <3>3. p \in feeders
      BY <1>2, <3>2
    <3> QED BY <1>3, <2>2, <3>2, <3>3
  <2> HIDE DEF above
  <2> QED BY <2>1, <2>2
<1>9. (\E p \in feeders : InDoubt(st[p])) <=> \E x \in above : why[x] # {}
  <2>1. ASSUME NEW p \in feeders, InDoubt(st[p]) PROVE \E x \in above : why[x] # {}
    <3>1. PICK x \in all : why[x] # {} /\ Reaches(W, x, p)
      BY <1>3, <2>1
    <3>2. p \in all /\ <<p, d>> \in feeds
      BY <1>2
    <3>3. Reaches(W, x, d) /\ x # d
      BY <1>1, <3>1, <3>2
    <3>4. x \in above
      BY <3>3
    <3> QED BY <3>1, <3>4
  <2>2. ASSUME NEW x \in above, why[x] # {} PROVE \E p \in feeders : InDoubt(st[p])
    <3>1. x \in all /\ Reaches(W, x, d) /\ x # d
      OBVIOUS
    <3>2. PICK p \in all : <<p, d>> \in feeds /\ Reaches(W, x, p)
      BY <1>1, <3>1
    <3>3. p \in feeders
      BY <1>2, <3>2
    <3> QED BY <1>3, <2>2, <3>1, <3>2, <3>3
  <2> HIDE DEF above
  <2> QED BY <2>1, <2>2
<1>10. /\ st[d].inherited = IF \E p \in feeders : StaleStatus(st[p]) THEN "stale"
                            ELSE IF Bounded(g, s, d) \/ \E p \in feeders : InDoubt(st[p]) THEN "unknown"
                            ELSE "current"
  <2> DEFINE parents == {st[p] : p \in feeders}
  <2>1. /\ (\E x \in parents : StaleStatus(x)) <=> \E p \in feeders : StaleStatus(st[p])
        /\ (\E x \in parents : UnknownStatus(x)) <=> \E p \in feeders : UnknownStatus(st[p])
    OBVIOUS
  <2> HIDE DEF parents
  <2>2. st[d].inherited = IF \E x \in parents : StaleStatus(x) THEN "stale"
                          ELSE IF Bounded(g, s, d) \/ \E x \in parents : UnknownStatus(x) THEN "unknown"
                          ELSE "current"
    BY <1>4 DEF Inherits, parents
  <2> QED BY <2>1, <2>2 DEF InDoubt
<1>11. st[d].inherited =
            IF above \cap bad # {} THEN "stale"
            ELSE IF (\E x \in above : why[x] # {}) \/ Bounded(g, s, d) THEN "unknown" ELSE "current"
  <2> HIDE DEF above
  <2> QED BY <1>8, <1>9, <1>10
<1>12. StaleStatus(st[d]) <=> \E x \in bad : Reaches(W, x, d)
  <2>1. StaleStatus(st[d]) <=> d \in bad \/ above \cap bad # {}
    <3> HIDE DEF above
    <3>1. st[d].inherited = "stale" <=> above \cap bad # {}
      BY <1>11
    <3> QED BY <1>4, <1>6, <3>1 DEF StaleStatus
  <2> QED BY <1>1, <1>6, <2>1
<1>13. InDoubt(st[d]) <=> \E x \in all : why[x] # {} /\ Reaches(W, x, d)
  <2>1. InDoubt(st[d]) <=> own.reasons # {} \/ \E x \in above : why[x] # {}
    <3>1. (\E x \in above : x \in bad) => \E x \in above : why[x] # {}
      <4>1. \A p \in feeders : StaleStatus(st[p]) => InDoubt(st[p])
        BY DEF InDoubt
      <4> HIDE DEF above
      <4> QED BY <1>8, <1>9, <4>1
    <3> HIDE DEF above
    <3>2. /\ st[d].inherited \in {"stale", "unknown", "current"}
          /\ st[d].inherited = "current" <=> ~Bounded(g, s, d) /\ ~\E x \in above : why[x] # {}
      BY <1>11, <3>1
    <3>3. InDoubt(st[d]) <=> ~(/\ st[d].inherited = "current" /\ own.data = "current"
                               /\ own.logic = "current" /\ s.here[d] = "available")
      BY <1>4, <1>5, <3>2 DEF InDoubt, StaleStatus, UnknownStatus, Lacking, Heads
    <3> QED BY <1>5, <3>2, <3>3
  <2> QED BY <1>1, <1>6, <2>1
<1>14. /\ Named(K, W, all, why, d) /\ Nearest(K, W, all, why, d)
       /\ NoNearer(K, W, d) /\ Measured(W, all, d)
  <2>1. FeedersTold(C, W, P, feeds, why, poor, d)
    <3> SUFFICES ASSUME NEW p \in all, <<p, d>> \in feeds
                 PROVE  /\ Causal(C[p], W, all, why, p)
                        /\ p \in poor \/ \A x \in all : Reaches(W, x, p) => why[x] = {}
      BY DEF FeedersTold, all
    <3>1. p \in feeders
      BY <1>2
    <3> QED BY <1>2, <1>3, <1>7, <3>1
  <2>2. poor \in SUBSET {p \in ToSet(P) : <<p, d>> \in feeds}
    BY <1>2 DEF all
  <2>3. AllPaths(W, P, feeds) /\ d \in ToSet(P)
    BY DEF feeds
  <2> QED BY <2>1, <2>2, <2>3, GatheredNear DEF K, all
<1>15. Causal(st[d].causes, W, all, why, d)
  BY <1>4, <1>14, ShortestNear
<1>16. K = {} <=> \A x \in all : Reaches(W, x, d) => why[x] = {}
  <2>1. ASSUME NEW x \in all, Reaches(W, x, d), why[x] # {} PROVE K # {}
    BY <1>14, <2>1 DEF Nearest
  <2>2. ASSUME NEW c \in K PROVE \E x \in all : Reaches(W, x, d) /\ why[x] # {}
    <3>1. c.path[1] \in all /\ c.reason \in why[c.path[1]] /\ Reaches(W, c.path[1], d)
      BY <1>14, PathEnds DEF Named
    <3> QED BY <3>1
  <2> QED BY <2>1, <2>2
<1> QED
  <2>1. st[d].match <=> /\ s.here[d] = "available"
                        /\ \A x \in all : Reaches(W, x, d) => why[x] = {}
    BY <1>4, <1>16
  <2> QED BY <1>11, <1>12, <1>13, <1>15, <2>1 DEF Told, all, why, bad

Upper(g, s) == [d \in ToSet(g.order) |-> Ways(g, Feeds(g, s), d)]

\* The ways of every dataset.
LEMMA AllPathsThere ==
  ASSUME NEW g, NEW s, Sound(g, s)
  PROVE  AllPaths(Upper(g, s), g.order, Feeds(g, s))
<1> DEFINE P == g.order
           W == Upper(g, s)
<1>1. P \in Seq(Datasets) /\ DOMAIN P = 1..Len(P) /\ \A i, j \in 1..Len(P) : P[i] = P[j] => i = j
  BY DEF Sound, Arranged
<1>2. Uphill(P, Feeds(g, s))
  BY FeedsUphill
<1>3. ASSUME NEW d \in ToSet(P)
      PROVE  /\ W[d] \subseteq ToSet(P) \X (0..Len(P) - 1)
             /\ Trails(W[d], Feeds(g, s), ToSet(P), Len(P) - 1, d)
  <2>1. W[d] = Ways(g, Feeds(g, s), d)
    BY DEF Upper
  <2>2. Ways(g, Feeds(g, s), d) \subseteq ToSet(P) \X (0..Len(P) - 1)
    BY DEF Ways
  <2>3. Trails(Ways(g, Feeds(g, s), d), Feeds(g, s), ToSet(P), Len(P) - 1, d)
    BY <1>1, TrailsThere
  <2> QED BY <2>1, <2>2, <2>3
<1> QED BY <1>1, <1>2, <1>3 DEF AllPaths

\* Down the order, every status says what the paths to it say.
LEMMA AllTold ==
  ASSUME NEW g, NEW s, Sound(g, s), NEW d \in ToSet(g.order)
  PROVE  Told(g, s, Upper(g, s), Evaluate(g, s), d)
<1> DEFINE P == g.order
           W == Upper(g, s)
           st == Evaluate(g, s)
           T == {n \in Nat : \A j \in 1..Len(P) : j <= n => Told(g, s, W, st, P[j])}
<1>1. AllPaths(W, P, Feeds(g, s))
  BY AllPathsThere
<1>2. \A x \in ToSet(P) : Judged(g, s, st, x)
  BY StatusFixed, JudgedByFeeders
<1>3. Len(P) \in Nat /\ ToSet(P) = {P[j] : j \in 1..Len(P)}
  BY DEF Sound, ToSet
<1> HIDE DEF W, st
<1>4. 0 \in T
  OBVIOUS
<1>5. ASSUME NEW n \in T PROVE n + 1 \in T
  <2> SUFFICES ASSUME NEW j \in 1..Len(P), j = n + 1 PROVE Told(g, s, W, st, P[j])
    OBVIOUS
  <2>1. \A p \in Feeders(g, s, P[j]) : Told(g, s, W, st, p)
    <3> TAKE p \in Feeders(g, s, P[j])
    <3>1. p \in ToSet(P) /\ <<p, P[j]>> \in Feeds(g, s)
      BY DEF Feeders
    <3>2. PICK i \in 1..Len(P) : P[i] = p
      BY <1>3, <3>1
    <3>3. i < j
      BY <1>1, <3>1, <3>2 DEF AllPaths, Uphill
    <3>4. i <= n /\ \A k \in 1..Len(P) : k <= n => Told(g, s, W, st, P[k])
      BY <1>3, <1>5, <3>3
    <3> QED BY <3>2, <3>4
  <2>2. P[j] \in ToSet(P)
    BY <1>3
  <2>3. Judged(g, s, st, P[j])
    BY <1>2, <2>2
  <2> QED BY <1>1, <2>1, <2>2, <2>3, ToldOn
<1> HIDE DEF T
<1>6. Nat \subseteq T
  BY <1>4, <1>5, SetInduction
<1>7. PICK j \in 1..Len(P) : P[j] = d
  BY <1>3
<1>8. j \in T /\ j <= j
  BY <1>3, <1>6
<1> QED BY <1>7, <1>8 DEF T, W, st

\* The same in the words of ByPaths.
LEMMA SoundByPaths ==
  ASSUME NEW g, NEW s, Sound(g, s)
  PROVE  ByPaths(g, s)
<1> DEFINE all == ToSet(g.order)
           W == Upper(g, s)
           st == Evaluate(g, s)
           why == Why(g, s)
           bad == Bad(g, s)
           doubts == UNION {{<<x, r>> : r \in Own(g, s, x).reasons} : x \in all}
<1>1. /\ bad = {x \in all : "stale" \in {Own(g, s, x).data, Own(g, s, x).logic} \/ s.here[x] \in Lacking}
      /\ \A x \in all : why[x] = Own(g, s, x).reasons
  BY DEF Bad, Why
<1>2. /\ \A x \in all : \A r : <<x, r>> \in doubts <=> r \in why[x]
      /\ \A p \in doubts : p = <<p[1], p[2]>> /\ p[1] \in all /\ p[2] \in why[p[1]]
  <2>1. doubts = UNION {{<<x, r>> : r \in why[x]} : x \in all}
    BY <1>1
  <2> HIDE DEF doubts, why
  <2> QED BY <2>1
<1> SUFFICES ASSUME NEW d \in all
             PROVE  LET ways == Ways(g, Feeds(g, s), d)
                        above == {p[1] : p \in ways} \ {d}
                    IN /\ st[d].inherited =
                            IF above \cap bad # {} THEN "stale"
                            ELSE IF \/ \E p \in doubts : p[1] \in above
                                    \/ Facts(g, s, d).boundaries # {} THEN "unknown"
                            ELSE "current"
                       /\ {<<c.path[1], c.reason, Len(c.path) - 1>> : c \in st[d].causes} =
                            {<<p[1], p[2], Distance(ways, p[1])>> : p \in {q \in doubts : q[1] \in above \cup {d}}}
                       /\ st[d].match <=> /\ s.here[d] = "available"
                                          /\ ~\E p \in doubts : p[1] \in above \cup {d}
  BY DEF ByPaths, Bad
<1> DEFINE ways == Ways(g, Feeds(g, s), d)
           above == {p[1] : p \in ways} \ {d}
<1>3. /\ Causal(st[d].causes, W, all, why, d)
      /\ st[d].inherited =
            IF ({x \in all : Reaches(W, x, d)} \ {d}) \cap bad # {} THEN "stale"
            ELSE IF (\E x \in {x \in all : Reaches(W, x, d)} \ {d} : why[x] # {}) \/ Bounded(g, s, d)
                 THEN "unknown" ELSE "current"
      /\ st[d].match <=> /\ s.here[d] = "available"
                         /\ \A x \in all : Reaches(W, x, d) => why[x] = {}
  BY AllTold DEF Told
<1>4. W[d] = ways
  BY DEF Upper
<1>5. AllPaths(W, g.order, Feeds(g, s))
  BY AllPathsThere
<1>6. Reaches(W, d, d) /\ \A x \in all : Reaches(W, x, d) => Distance(ways, x) \in Nat
  BY <1>4, <1>5, ReachStep
<1>7. {p[1] : p \in ways} = {x \in all : Reaches(W, x, d)}
  <2>1. ways \subseteq all \X (0..Len(g.order) - 1)
    BY DEF Ways
  <2> HIDE DEF ways
  <2>2. ASSUME NEW p \in ways PROVE p[1] \in all /\ Reaches(W, p[1], d)
    <3>1. p[1] \in all /\ p = <<p[1], p[2]>>
      BY <2>1
    <3> QED BY <1>4, <3>1 DEF Reaches
  <2>3. ASSUME NEW x \in all, Reaches(W, x, d) PROVE \E p \in ways : p[1] = x
    <3>1. PICK n : <<x, n>> \in ways
      BY <1>4, <2>3 DEF Reaches
    <3> QED BY <3>1
  <2> QED BY <2>2, <2>3
<1> DEFINE reach == {x \in all : Reaches(W, x, d)}
<1>8. above = reach \ {d} /\ above \cup {d} = reach
  BY <1>6, <1>7
<1> HIDE DEF doubts, above, why, bad, st, W, ways
<1>9. \A x \in all : why[x] # {} <=> \E p \in doubts : p[1] = x
  <2> TAKE x \in all
  <2>1. ASSUME NEW r \in why[x] PROVE \E p \in doubts : p[1] = x
    <3>1. <<x, r>> \in doubts /\ <<x, r>>[1] = x
      BY <1>2
    <3> QED BY <3>1
  <2>2. ASSUME NEW p \in doubts, p[1] = x PROVE why[x] # {}
    BY <1>2, <2>2
  <2> QED BY <2>1, <2>2
<1>10. st[d].inherited =
            IF above \cap bad # {} THEN "stale"
            ELSE IF \/ \E p \in doubts : p[1] \in above
                    \/ Facts(g, s, d).boundaries # {} THEN "unknown"
            ELSE "current"
  <2>1. (\E x \in above : why[x] # {}) <=> \E p \in doubts : p[1] \in above
    <3>1. above \subseteq all
      BY <1>8
    <3> QED BY <1>9, <3>1
  <2> QED BY <1>3, <1>8, <2>1 DEF Bounded
<1>11. st[d].match <=> /\ s.here[d] = "available"
                       /\ ~\E p \in doubts : p[1] \in above \cup {d}
  <2>1. (\A x \in all : Reaches(W, x, d) => why[x] = {}) <=> ~\E p \in doubts : p[1] \in reach
    BY <1>2, <1>9
  <2> QED BY <1>3, <1>8, <2>1
<1>12. ASSUME NEW c \in st[d].causes
       PROVE  \E p \in {q \in doubts : q[1] \in reach} :
                <<c.path[1], c.reason, Len(c.path) - 1>> = <<p[1], p[2], Distance(ways, p[1])>>
  <2> DEFINE x == c.path[1]
  <2>1. /\ x \in all /\ c.reason \in why[x] /\ Reaches(W, x, d)
        /\ Len(c.path) = Distance(W[d], x) + 1
    BY <1>3, PathEnds DEF Causal, Named, AtDistance
  <2>2. Distance(ways, x) \in Nat
    BY <1>6, <2>1
  <2> HIDE DEF x
  <2>3. Len(c.path) - 1 = Distance(ways, x)
    BY <1>4, <2>1, <2>2
  <2>4. <<x, c.reason>> \in {q \in doubts : q[1] \in reach}
    BY <1>2, <2>1
  <2> DEFINE p == <<x, c.reason>>
  <2>5. p[1] = x /\ p[2] = c.reason
    OBVIOUS
  <2> HIDE DEF p
  <2> QED BY <2>3, <2>4, <2>5 DEF p, x
<1>13. ASSUME NEW p \in {q \in doubts : q[1] \in reach}
       PROVE  \E c \in st[d].causes :
                <<c.path[1], c.reason, Len(c.path) - 1>> = <<p[1], p[2], Distance(ways, p[1])>>
  <2>1. p[1] \in all /\ p[2] \in why[p[1]] /\ Reaches(W, p[1], d)
    BY <1>2
  <2>2. PICK c \in st[d].causes : /\ c.path[1] = p[1] /\ c.reason = p[2]
                                  /\ Len(c.path) = Distance(W[d], p[1]) + 1
    BY <1>3, <2>1 DEF Causal, Nearest
  <2>3. Len(c.path) - 1 = Distance(ways, p[1])
    BY <1>4, <1>6, <2>1, <2>2
  <2> QED BY <2>2, <2>3
<1>14. {<<c.path[1], c.reason, Len(c.path) - 1>> : c \in st[d].causes} =
            {<<p[1], p[2], Distance(ways, p[1])>> : p \in {q \in doubts : q[1] \in above \cup {d}}}
  <2> HIDE DEF reach
  <2> QED BY <1>8, <1>12, <1>13
<1> QED BY <1>10, <1>11, <1>14 DEF above, ways

\* The graph of a site and the snapshots asked about are sound.
LEMMA InvFreshness == Inv => FreshnessByPaths
<1> SUFFICES ASSUME site \in Sites, site.explained, NEW s \in Snapshots PROVE ByPaths(Explained, s)
  BY DEF Inv, Tables, FreshnessByPaths
<1> DEFINE g == Explained
<1>1. g.order = site.order /\ g.edges = {[consumer |-> e.consumer, alias |-> e.alias, parent |-> e.parent,
                          strict |-> e.strict, off |-> e.sel # None] : e \in site.edges}
  BY DEF Explained
<1> HIDE DEF g
<1>2. site.order \in Seq(Datasets) /\ Arranged(site.order, ToSet(site.order), site.edges)
  BY SiteAssumption, OrderArranged DEF Requested
<1>3. \A e \in g.edges : \E x \in site.edges : e.consumer = x.consumer /\ e.parent = x.parent
  BY <1>1
<1>4. Arranged(g.order, ToSet(g.order), g.edges)
  BY <1>1, <1>2, <1>3 DEF Arranged
<1>5. /\ \A d \in ToSet(site.order) \cup {e.parent : e \in site.edges} : s.here[d] \in Heads /\ s.there[d] \in Heads
      /\ \A d \in ToSet(site.order) : LET k == s.work[d] IN {k.retained, k.stated, k.reusable} \subseteq BOOLEAN
  BY SnapshotAssumption
<1>6. \A e \in g.edges : s.here[e.parent] \in Heads /\ s.there[e.parent] \in Heads
  <2> TAKE e \in g.edges
  <2>1. e.parent \in {x.parent : x \in site.edges}
    BY <1>3
  <2> QED BY <1>5, <2>1
<1>7. Sound(g, s)
  BY <1>1, <1>2, <1>4, <1>5, <1>6 DEF Sound
<1> QED BY <1>7, SoundByPaths DEF g

(* Whatever the graph and the snapshot, the one pass down the order reports of
   every dataset what the paths to it say: stale or not known to be current
   exactly when something on a path is, by every such thing once, at its least
   distance (evaluate of tf-plan/freshness.rs). *)
THEOREM FreshnessFollowsPaths == Spec => []FreshnessByPaths
BY PlanningInv, InvFreshness, PTL

(* The same under the registry. *)
THEOREM RegistryFreshness == RSpec => []FreshnessByPaths
BY RegistryInv, InvFreshness, PTL
=============================================================================
