----------------------------- MODULE MCPlanning -----------------------------
(* Workspaces for Planning and Registry.
   Race: a job whose input another build publishes, first on a fallback branch.
   Aging: a source that ages, read on its own branch and by name.
   Moving: branch commands around one build, and a pinned input.
   Coding, Editing: two plans for a dataset that has no identity yet, while the
   author changes the code, or the catalogue.
   Shapes: every graph of three producers over an imported dataset, with the
   requests whose scope is compared with paths. *)
EXTENDS Planning, TLC

CONSTANTS p1, p2, main, feat, old, i1, i2, i3

Edge(c, a, p, s, strict) == [consumer |-> c, alias |-> a, parent |-> p, sel |-> s, strict |-> strict]
Request(mode, targets, branch) ==
    [mode |-> mode, targets |-> targets, boundaries |-> {}, exclusions |-> {}, refresh |-> {},
     pins |-> <<>>, branch |-> branch, force |-> FALSE, fallback |-> None]

NoHead == [version |-> 0, gen |-> 0]
BranchRow(n) == [name |-> n, rev |-> 0, dead |-> FALSE]

(* Paths whose registration is modelled; the others keep one identity. *)
Catalogued == {"t", "u"}

(* Producers by identity, rows rs and, in order of publication, one version of each dataset in ds on main. *)
Site(producers, edges, source, requests, names, last, versions, rs, ds) ==
    LET order == AcyclicOrder(producers, edges) IN
    [order |-> order, edges |-> edges, source |-> source, requests |-> requests,
     source0 |-> Catalogued \cap ToSet(order), sources |-> {}, edits |-> 0, commands |-> {},
     ids |-> [x \in Catalogued |-> IF x \in ToSet(order) THEN 1 ELSE 0],
     names |-> names, last |-> last, versions |-> versions, changes |-> 1, probes |-> {}, explained |-> FALSE,
     row |-> [i \in Branches |-> IF i \in DOMAIN rs THEN BranchRow(rs[i]) ELSE None],
     head |-> [k \in Branches \X Datasets |->
        IF k[1] = i1 /\ \E v \in DOMAIN ds : ds[v] = k[2]
        THEN [version |-> CHOOSE v \in DOMAIN ds : ds[v] = k[2], gen |-> 1] ELSE NoHead],
     made |-> [v \in DOMAIN ds |-> [dataset |-> ds[v], branch |-> i1, at |-> 0]]]

Race == Site(<<"m", "t">>,
    {Edge("m", "x", "x", None, FALSE), Edge("t", "m", "m", None, FALSE)}, <<>>,
    {Request("selected", {"m"}, feat), Request("selected", {"t"}, feat)},
    {}, 0, 4, i1 :> main, <<"x", "m">>)

Aging == Site(<<"s", "t">>,
    {Edge("t", "s", "s", None, FALSE), Edge("t", "ms", "s", main, TRUE)}, "s" :> 1,
    {Request("full", {"t"}, feat), Request("full", {"t"}, main)},
    {}, 2, 3, i1 :> main, <<"s">>)

Moving == Site(<<"t">>,
    {Edge("t", "x", "x", None, FALSE), Edge("t", "y", "x", None, FALSE)}, <<>>,
    {[Request("full", {"t"}, feat) EXCEPT !.fallback = <<old, main>>],
     [Request("full", {"t"}, feat) EXCEPT !.pins = <<"t", "y">> :> 1]},
    {feat, old}, 0, 2, i1 :> main @@ i2 :> feat, <<"x">>)

Registering(sources, edits, commands) == [Site(<<"t">>, {}, <<>>,
    {Request("selected", {"t"}, main), Request("selected", {"t"}, feat)}, {}, 0, 0, i1 :> main, <<>>)
    EXCEPT !.source0 = {"t"}, !.sources = sources, !.edits = edits,
           !.ids = [x \in Catalogued |-> 0], !.commands = commands]
Coding == Registering({{"t"}, {"t", "u"}}, 0, {"sync"})
Editing == Registering({{"t"}}, 1, {"import", "rename"})

(* Shapes. *)
Inner == <<"c", "b", "a">>     \* by identity
Pairs == {<<"a", "x">>, <<"b", "a">>, <<"b", "x">>, <<"c", "a">>, <<"c", "b">>, <<"c", "x">>}
Arcs(ps, off) == {Edge(q[1], q[2], q[2], IF q \in off THEN old ELSE None, FALSE) : q \in ps}
Probes(es) ==
    {[Request(mode, targets, main) EXCEPT !.boundaries = bs, !.exclusions = xs, !.pins = ps] :
        mode \in {"selected", "full", "between", "connecting"},
        targets \in {{"c"}, {"a", "c"}}, bs \in {{}, {"x"}, {"a"}}, xs \in {{}, {"b"}},
        ps \in {<<>>} \cup {Key(e) :> 1 : e \in es}}
(* A source reads nothing. *)
Accepted(ps, source) == \A q \in ps : q[1] \notin DOMAIN source
Shapes == {[Site(Inner, Arcs(g[1], g[2]), g[3], {}, {}, 0, 0, i1 :> main, <<>>)
            EXCEPT !.probes = Probes(Arcs(g[1], g[2]))] :
    g \in {g \in (SUBSET Pairs) \X ({{}} \cup {{q} : q \in Pairs}) \X {<<>>, "a" :> Manual} :
            Accepted(g[1], g[3])}}

(* Statuses: the same graphs over a source that ages, with snapshots in which one
   head and one computation differ from what was retained. *)
Work(retained, stated, found, reusable) ==
    [retained |-> retained, stated |-> stated, found |-> found, reusable |-> reusable]
Plain == Work(TRUE, TRUE, "same", TRUE)
Works == {Work(TRUE, TRUE, found, TRUE) : found \in {"same", "moved", "changed", "unclassified"}}
    \cup {Work(TRUE, FALSE, "same", TRUE), Work(TRUE, TRUE, "same", FALSE)}
Asked == {[now |-> 1, at |-> [d \in ToSet(Inner) |-> q.at],
        here |-> [d \in {"a", "b", "c", "x"} |-> IF d = q.x THEN q.h ELSE "available"],
        there |-> [d \in {"a", "b", "c", "x"} |-> IF d = "a" THEN q.o ELSE "available"],
        work |-> [d \in ToSet(Inner) |-> IF d = q.y THEN q.w ELSE Plain]] :
    q \in [x : {"a", "x"}, h : {"never", "corrupt", "unknown"}, y : {"a", "b"}, w : Works,
           o : {"available"}, at : {1}]
        \cup [x : {"a", "b"}, h : {"available", "never"}, y : {"a", "b"}, w : {Work(TRUE, FALSE, "same", TRUE), Plain},
              o : {"never", "available"}, at : {0, 1}]}
Statuses == {[Site(Inner, Arcs(g[1], g[2]), g[3], {}, {}, 0, 0, i1 :> main, <<>>)
              EXCEPT !.explained = TRUE] :
    g \in {g \in (SUBSET Pairs) \X {{}, {<<"b", "a">>}} \X {<<>>, "a" :> 1} :
            Accepted(g[1], g[3]) /\ Cardinality(g[1]) >= 5 - Cardinality(DOMAIN g[3])}}

(* Authored rules: nothing behind main, main behind any other branch. *)
Authored == main :> <<>>
Otherwise == <<main>>
AllSites == {Race, Aging, Moving, Coding, Editing} \cup Shapes \cup Statuses
RaceOnly == {Race}
Swaps == Permutations(Plans) \cup Permutations({i2, i3})
=============================================================================
