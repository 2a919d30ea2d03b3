---------------------------- MODULE CheckCompiler ----------------------------
(***************************************************************************)
(* tf-exec's plan of a list of checks: row conditions share aggregate      *)
(* queries of bounded width, other conditions have a query of their own, a *)
(* check that cannot be compiled leaves no trace, and each compiled node   *)
(* refers to its query by index. The engine answers with exact counts, and *)
(* the outcome of a node is read off them. A condition is compiled in one  *)
(* pass, from its root to its leaves; its items are the places it takes in *)
(* queries, in that order.                                                 *)
(***************************************************************************)
EXTENDS Expectations

Reserved == [kind |-> "reserved"]

\* Compiler: the queries so far, and the row batch that is still open.
Start == [queries |-> <<Reserved>>, expressions |-> <<>>, parameters |-> <<>>, batch |-> 1,
          remaining |-> PlanLimit, places |-> <<>>, error |-> ""]

\* Closes the open batch and reserves the place of the next one.
FlushInPlace(c) ==
    IF c.expressions = <<>> THEN c
    ELSE [c EXCEPT !.queries = [@ EXCEPT ![c.batch] =
                       [kind |-> "rows", expressions |-> c.expressions, parameters |-> c.parameters]],
                   !.expressions = <<>>, !.parameters = <<>>]

Flush(c) ==
    IF c.expressions = <<>> THEN c
    ELSE [c EXCEPT !.queries = Append([@ EXCEPT ![c.batch] =
                       [kind |-> "rows", expressions |-> c.expressions, parameters |-> c.parameters]], Reserved),
                   !.expressions = <<>>, !.parameters = <<>>, !.batch = Len(c.queries) + 1]

\* The pinned columns hold integers; a membership test needs a column of that type.
Writable(r) == \A x \in Leaves[r] : x.kind = "in_dataset" => Fields[x.column] = "int"

\* The literals a predicate pushes on the parameters, in the order of the text. Nothing
\* but the clock is bound by an age: it stands for its value.
Clock == [kind |-> "clock"]
Literals[r \in Terms] ==
    CASE r.kind = "row_compare" -> SelectSeq(<<r.left, r.right>>, LAMBDA v : v.kind = "literal")
      [] r.kind = "is_in" -> SelectSeq(r.values, LAMBDA v : v # Null)
      [] r.kind = "age_compare" -> <<Clock>>
      [] OTHER -> FlattenSeq([i \in DOMAIN Parts(r) |-> Literals[Parts(r)[i]]])

\* The items of a condition: a row condition takes a place in a query, a dataset
\* condition the queries it needs.
AnyNull(columns) == [kind |-> "row_not", child |-> [kind |-> "row_any",
                        children |-> [i \in DOMAIN columns |-> [kind |-> "is_null", column |-> columns[i]]]]]
Visited == [kind |-> "visit"]
Place(r) == [kind |-> "slot", predicate |-> r]
Operand(s) == IF s.kind = "literal" THEN [kind |-> "constant"] ELSE [kind |-> "metric", metric |-> s]

OwnItems == [e \in Terms |->
    CASE RowKind(e) -> <<Place(e)>>
      [] e.kind = "group_count" -> <<Visited, [kind |-> "groups", op |-> e.op, columns |-> e.columns, value |-> e.value]>>
      [] e.kind = "primary_key" -> <<Visited, Place(AnyNull(SetToSeq(e.columns))), [kind |-> "keys", columns |-> e.columns]>>
      [] e.kind = "metric_compare" -> <<Visited, Operand(e.left), Operand(e.right)>>
      [] OTHER -> <<Visited>>]

Items[e \in Terms] == OwnItems[e] \o FlattenSeq([i \in DOMAIN Parts(e) |-> Items[Parts(e)[i]]])

\* The place of one row condition: a query of its own for the exact numeric ones,
\* a pair of counts of the open batch for the others.
Slot(c, r) ==
    IF Numeric(r)
    THEN [c EXCEPT !.queries = Append(@, [kind |-> "scan", predicate |-> r, parameters |-> Literals[r]]),
                   !.places = Append(@, [query |-> Len(c.queries) + 1, slot |-> 0])]
    ELSE [c EXCEPT !.expressions = Append(@, [predicate |-> r, first |-> Len(c.parameters)]),
                   !.parameters = @ \o Literals[r],
                   !.places = Append(@, [query |-> c.batch, slot |-> Len(c.expressions)])]

\* One item; a full batch is closed before a place is taken in it, and the first error
\* ends the compilation of the check.
Nowhere == [query |-> 0, slot |-> 0]
Step(before, item) ==
    LET c == IF item.kind = "slot" /\ Len(before.expressions) >= BatchLimit THEN Flush(before) ELSE before
    IN IF c.error # "" THEN before
       ELSE IF item.kind \in {"slot", "visit"} /\ c.remaining = 0 THEN [c EXCEPT !.error = "plan_limit"]
       ELSE CASE item.kind = "visit" -> [c EXCEPT !.remaining = @ - 1, !.places = Append(@, Nowhere)]
         [] item.kind = "slot" -> IF Writable(item.predicate) THEN Slot([c EXCEPT !.remaining = @ - 1], item.predicate)
                                  ELSE [c EXCEPT !.remaining = @ - 1, !.error = "input_type"]
         [] item.kind = "constant" -> [c EXCEPT !.places = Append(@, Nowhere)]
         [] OTHER -> [c EXCEPT !.queries = Append(@, item), !.places = Append(@, [query |-> Len(c.queries) + 1, slot |-> 0])]

\* The condition agrees with the schema: its columns exist and have a type it takes.
Suits(x) ==
    CASE x.kind = "primary_key" -> \A c \in x.columns : c \in DOMAIN Fields /\ Fields[c] = "int"
      [] x.kind = "group_count" -> x.columns \subseteq DOMAIN Fields
      [] x.kind = "row_compare" -> Columns(x.left) \cup Columns(x.right) \subseteq DOMAIN Fields
      [] x.kind = "metric_compare" -> \A s \in {x.left, x.right} : "column" \in DOMAIN s => s.column \in DOMAIN Fields
      [] x.kind = "exists" -> TRUE
      [] OTHER -> x.column \in DOMAIN Fields /\ (x.kind = "is_nan" => Fields[x.column] = "float")

Fits(e) == \A x \in Leaves[e] : Suits(x)

\* One check on top of the others; a failure restores what was compiled before it.
CompileOne(c, e) ==
    LET all == FoldLeft(Step, [c EXCEPT !.places = <<>>], Items[e])
    IN IF ~Fits(e) THEN [c EXCEPT !.error = "type_or_column"]
       ELSE IF all.error # "" THEN [c EXCEPT !.error = all.error]
       ELSE all

\* The plan: the queries, and of each check the places of its items or its error.
Compiled(checks) ==
    LET next(acc, d) == LET c == CompileOne(acc.c, d.e)
                        IN [c |-> [c EXCEPT !.error = ""], nodes |-> Append(acc.nodes, [error |-> c.error, places |-> c.places])]
        all == FoldLeft(next, [c |-> Start, nodes |-> <<>>], checks)
    IN [queries |-> Flush(all.c).queries, nodes |-> all.nodes]

\* The queries that are sent; the reservations no batch used are dropped and the
\* indices of the nodes follow.
Sent(plan) == SelectSeq(plan.queries, LAMBDA q : q # Reserved)
Remap(plan, q) == Cardinality({k \in 1..q : plan.queries[k] # Reserved})

-----------------------------------------------------------------------------
(* The helper's answers.                                                   *)

\* Every expression reads the literals it was written with, and the query's parameters
\* are those and no others.
BoundRight(q) ==
    CASE q.kind = "rows" ->
           /\ q.parameters = FlattenSeq([k \in DOMAIN q.expressions |-> Literals[q.expressions[k].predicate]])
           /\ \A k \in DOMAIN q.expressions :
                LET x == q.expressions[k]
                IN SubSeq(q.parameters, x.first + 1, x.first + Len(Literals[x.predicate])) = Literals[x.predicate]
      [] q.kind = "scan" -> q.parameters = Literals[q.predicate]
      [] OTHER -> TRUE

With(env, r, truth) == Cardinality({i \in DOMAIN env.table : SqlTruth(env, r, env.table[i]) = truth})
Twice(env, columns) == {i \in DOMAIN env.table : ~KeyNull(columns, env.table[i])
                                                 /\ Cardinality(Shares(env.table, columns, i)) > 1}
Groups(env, columns, of) == {Shares(env.table, columns, i) : i \in of}
Pair(env, r) == <<With(env, r, "false"), With(env, r, "unknown")>>

Counts(env, q) ==
    LET total == <<Len(env.table)>> IN
    CASE q.kind = "rows" -> total \o FlattenSeq([k \in DOMAIN q.expressions |-> Pair(env, q.expressions[k].predicate)])
      [] q.kind = "scan" -> total \o Pair(env, q.predicate)
      [] q.kind = "groups" -> LET groups == Groups(env, q.columns, DOMAIN env.table)
                              IN <<Cardinality(groups), Cardinality({g \in groups : ~Ordered(q.op, Cardinality(g), q.value)})>>
      [] q.kind = "keys" -> <<Cardinality(Groups(env, q.columns, Twice(env, q.columns))), Cardinality(Twice(env, q.columns))>>
      [] q.kind = "metric" -> Scalar(env, q.metric)

Answer(env, q) == IF BoundRight(q) THEN [error |-> "", counts |-> Counts(env, q)] ELSE [error |-> "unbound", counts |-> <<>>]

\* The answers to a plan; "failing" are the queries the engine could not run.
Execute(env, plan, failing) ==
    LET sent == Sent(plan)
    IN [k \in DOMAIN sent |-> IF k \in failing THEN [error |-> "query_error", counts |-> <<>>] ELSE Answer(env, sent[k])]

-----------------------------------------------------------------------------
(* The outcome of a node.                                                  *)

Passed(b, failed) == [error |-> "", passed |-> b, failed |-> failed]
Failure(error) == [error |-> error, passed |-> FALSE, failed |-> Null]

\* The position of the first item of the i-th part of e, whose own first item is at "at".
PartAt(e, at, i) == at + Len(OwnItems[e]) + FoldSeq(+, 0, [k \in 1..(i - 1) |-> Len(Items[Parts(e)[k]])])

\* The answers in the order of the items, those of the indices the nodes were given.
Placed(plan, places, answers) ==
    [k \in DOMAIN places |->
        LET answer == IF places[k].query = 0 THEN [error |-> "", counts |-> <<>>] ELSE answers[Remap(plan, places[k].query)]
        IN [error |-> answer.error, counts |-> answer.counts, slot |-> places[k].slot]]

\* The outcome of a condition from the answers to its own items and that of its parts.
Own(e, own, below, ignore) ==
    LET count(k, i) == own[k].counts[i + 2 * own[k].slot]
        fraction(s, k) == IF s.kind = "literal" THEN <<s.value, 1>>
                          ELSE <<count(k, 1), IF s.kind = "null_fraction" THEN count(k, 2) ELSE 1>>
        passing == {i \in DOMAIN below : below[i].passed}
    IN CASE RowKind(e) -> LET failed == count(1, 2) + (IF ignore THEN 0 ELSE count(1, 3)) IN Passed(failed = 0, failed)
         [] e.kind = "every" -> below[1]
         [] e.kind = "primary_key" -> LET failed == count(2, 2) + count(3, 2) IN Passed(failed = 0, failed)
         [] e.kind = "exists" -> Passed(e.column \in DOMAIN Fields, Null)
         [] e.kind = "group_count" -> Passed(count(2, 2) = 0, Null)
         [] e.kind = "metric_compare" -> LET l == fraction(e.left, 2)  r == fraction(e.right, 3)
                                         IN IF 0 \in {l[2], r[2]} THEN Failure("undefined_metric")
                                            ELSE Passed(Ordered(e.op, l[1] * r[2], r[1] * l[2]), Null)
         [] e.kind = "dataset_all" -> Passed(passing = DOMAIN below, Null)
         [] e.kind = "dataset_any" -> Passed(passing # {}, Null)
         [] e.kind = "dataset_not" -> Passed(passing = {}, Null)

\* The first error of a condition is its outcome, whatever its other parts say.
Outcome(placed, ignore, root) ==
    LET f[x \in Terms \X (1..Len(placed))] ==
          LET own == SubSeq(placed, x[2], x[2] + Len(OwnItems[x[1]]) - 1)
              below == [i \in DOMAIN Parts(x[1]) |-> f[<<Parts(x[1])[i], PartAt(x[1], x[2], i)>>]]
              errors == SelectSeq(own \o below, LAMBDA o : o.error # "")
          IN IF errors = <<>> THEN Own(x[1], own, below, ignore) ELSE Failure(errors[1].error)
    IN f[<<root, 1>>]

-----------------------------------------------------------------------------
(* The diagnostic sample of a check: an independent read of at most "limit" *)
(* of the rows its condition rejects, wide rows left out.                   *)

\* The condition looks into another input.
Foreign(e) ==
    \E x \in Leaves[e] :
        \/ x.kind = "in_dataset"
        \/ x.kind = "metric_compare" /\ \E s \in {x.left, x.right} : s.kind = "row_count" /\ s.input # Null

\* The condition is attributed to rows, and written without inputs or numbers.
Sampled(e) == Attributes(e) /\ ~Foreign(e) /\ (e.kind # "primary_key" => ~Numeric(e))

Rejects(ignore, truth) == IF ignore THEN truth = "false" ELSE truth # "true"

Selected(env, e, ignore) ==
    {i \in DOMAIN env.table :
        /\ ~env.table[i].wide
        /\ IF e.kind = "primary_key"
           THEN KeyNull(e.columns, env.table[i]) \/ Cardinality(Shares(env.table, e.columns, i)) > 1
           ELSE Rejects(ignore, SqlTruth(env, IF e.kind = "every" THEN e.child ELSE e, env.table[i]))}

\* What the engine returns of them: it may find the first or the last rows first.
Sample(env, e, ignore, limit, backwards) ==
    LET rows == Selected(env, e, ignore)
        taken == {i \in rows : Cardinality({k \in rows : IF backwards THEN k > i ELSE k < i}) < limit}
    IN [rows |-> taken, truncated |-> rows # taken]
=============================================================================
