------------------------------ MODULE MCChecks ------------------------------
EXTENDS Checks

MCFields == ("n" :> "int" @@ "m" :> "int" @@ "x" :> "float")

Row(n, m, x) == [n |-> n, m |-> m, x |-> x, wide |-> FALSE]
Wide(n, m, x) == [n |-> n, m |-> m, x |-> x, wide |-> TRUE]

MCTables == {
    <<>>,
    <<Row(1, 1, 0)>>,
    <<Row(Null, 2, NaN), Row(1, 2, 1)>>,
    <<Row(2, 1, Null), Wide(2, 1, NaN), Row(0, Null, 0)>>,
    <<Wide(1, 2, 1), Row(1, 2, 0)>>}

\* Row conditions.
Lit(v) == [kind |-> "literal", value |-> v]
Col(c) == [kind |-> "column", name |-> c]
Cmp(op, l, r) == [kind |-> "row_compare", op |-> op, left |-> l, right |-> r]
Over(n) == Cmp("gt", Col("n"), Lit(n))
Unlike == Cmp("not_equals", Col("x"), Lit(1))
Same == Cmp("equals", Col("x"), Col("x"))
Ordering == Cmp("lte", Col("n"), Col("m"))
OneOf == [kind |-> "is_in", column |-> "n", values |-> <<1, Null, 2>>]
Real == [kind |-> "row_not", child |-> [kind |-> "is_nan", column |-> "x"]]
Known == [kind |-> "in_dataset", column |-> "n", alias |-> "ref"]
Untyped == [kind |-> "in_dataset", column |-> "x", alias |-> "ref"]
Missing == [kind |-> "is_null", column |-> "z"]
Close == [kind |-> "approx", column |-> "n", value |-> 1, abs_tol |-> 0]
Recent == [kind |-> "age_compare", column |-> "n", value |-> 1]
Some == [kind |-> "row_any", children |-> <<Over(1), Ordering>>]
Both == [kind |-> "row_all", children |-> <<Unlike, Over(0)>>]
Mixed == [kind |-> "row_any", children |-> <<Over(0), Close>>]

\* Dataset conditions.
Unique == [kind |-> "primary_key", columns |-> {"n", "m"}]
Pairs == [kind |-> "group_count", op |-> "lte", columns |-> {"m"}, value |-> 1]
Mostly == [kind |-> "metric_compare", op |-> "lt", left |-> [kind |-> "null_fraction", column |-> "n"], right |-> Lit(1)]
Fewer == [kind |-> "metric_compare", op |-> "lte", left |-> [kind |-> "row_count", input |-> Null],
          right |-> [kind |-> "row_count", input |-> "ref"]]
Always == [kind |-> "every", child |-> Some]
Never == [kind |-> "dataset_not", child |-> Always]
Either == [kind |-> "dataset_any", children |-> <<[kind |-> "exists", column |-> "z"], Mostly>>]
Doomed == [kind |-> "dataset_all", children |-> <<[kind |-> "every", child |-> Over(2)], [kind |-> "every", child |-> Untyped]>>]

Check(e, ignore, severity, sampled) == [e |-> e, ignore |-> ignore, severity |-> severity, rows |-> sampled]

Everything == {Over(0), Unlike, Same, OneOf, Real, Known, Close, Recent, Some, Both, Mixed, Unique, Pairs, Mostly,
               Fewer, Always, Never, Either, Doomed, Missing}
First == {Over(1), Both, Doomed, Mixed, Unique, Pairs, Never}

MCVersions == <<<<Row(1, 1, 0), Row(2, 1, 1)>>, <<Row(0, 1, 0)>>>>

RECURSIVE Closed(_)
Closed(e) == {e} \cup UNION {Closed(IF "children" \in DOMAIN e THEN e.children[i] ELSE e.child) :
                               i \in IF "children" \in DOMAIN e THEN DOMAIN e.children ELSE IF "child" \in DOMAIN e THEN {1} ELSE {}}
MCConditions == UNION {Closed(e) : e \in Everything \cup First \cup {AnyNull(SetToSeq(Unique.columns))}}

Attempt(version, consumer, limit, forced) ==
    [version |-> version, consumer |-> consumer, limit |-> limit, forced |-> forced, clock |-> 2]

\* One attempt whose output is checked: every condition after, and before, another one.
Plans ==
    {[input |-> <<>>, output |-> <<Check(e, ignore, "WARN", 1), Check(f, ~ignore, "WARN", 2)>>,
      versions |-> MCVersions, produced |-> t, references |-> ("ref" :> <<1, 2>>), disturbed |-> FALSE,
      attempts |-> <<Attempt(1, "c", 1, FALSE)>>] :
         e \in First, f \in Everything, ignore \in BOOLEAN, t \in MCTables}

\* Attempts that follow each other, disturbed by crashes, cancellations and changed bytes.
Followers == {<<Attempt(1, "c", 1, FALSE), b>> :
                b \in {Attempt(1, "c", 1, FALSE), Attempt(2, "c", 1, FALSE), Attempt(1, "d", 1, FALSE),
                       Attempt(1, "c", 2, FALSE), Attempt(1, "c", 1, TRUE)}}
Lifecycles ==
    {[input |-> i, output |-> o, versions |-> MCVersions, produced |-> <<Row(1, 1, NaN), Row(Null, 1, 1)>>,
      references |-> ("ref" :> <<1, 2>>), disturbed |-> TRUE, attempts |-> f] :
         i \in {<<Check(Over(0), FALSE, "FAIL", 1)>>, <<Check(Over(1), FALSE, "WARN", 2)>>,
                <<Check(Over(0), FALSE, "FAIL", 0), Check(Known, FALSE, "WARN", 0)>>},
         o \in {<<>>, <<Check(Over(0), TRUE, "FAIL", 1)>>, <<Check(Over(0), FALSE, "WARN", 1)>>},
         f \in Followers}

MCCatalog == <<Plans, Lifecycles>>
=============================================================================
