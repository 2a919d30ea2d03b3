---------------------------- MODULE Expectations ----------------------------
(***************************************************************************)
(* The canonical checks of Transflow: expectations over tables, the        *)
(* domain's reference semantics of them (tf-domain expectation/semantics), *)
(* and the truth of the SQL text the compiler of tf-exec writes for them.  *)
(* SQL text is abstracted to the expression it stands for.                 *)
(***************************************************************************)
EXTENDS Integers, Sequences, FiniteSets, SequencesExt, Folds

CONSTANTS Null, NaN,    \* the missing value and the float that is no number
          Fields,       \* column -> "int" or "float": the subject's schema
          BatchLimit,   \* row conditions one aggregate query takes (the code: 32)
          PlanLimit,    \* nodes one plan may hold (the code: 4096)
          Conditions    \* the conditions that occur, with all they are composed of

Terms == Conditions

ASSUME LimitsAssumption == BatchLimit \in Nat \ {0} /\ PlanLimit \in Nat

-----------------------------------------------------------------------------
(* Truth and comparison.                                                   *)

And(a, b) == IF "false" \in {a, b} THEN "false" ELSE IF "unknown" \in {a, b} THEN "unknown" ELSE "true"
Or(a, b) == IF "true" \in {a, b} THEN "true" ELSE IF "unknown" \in {a, b} THEN "unknown" ELSE "false"
Negate(a) == CASE a = "true" -> "false" [] a = "false" -> "true" [] OTHER -> "unknown"
Boolean(b) == IF b THEN "true" ELSE "false"

Ordered(op, a, b) ==
    CASE op = "gt" -> a > b [] op = "gte" -> a >= b [] op = "lt" -> a < b
      [] op = "lte" -> a <= b [] op = "equals" -> a = b [] op = "not_equals" -> a # b

\* The domain's comparison: null is unknown, NaN satisfies not-equals only.
Compare(op, a, b) ==
    IF Null \in {a, b} THEN "unknown"
    ELSE IF NaN \in {a, b} THEN Boolean(op = "not_equals")
    ELSE Boolean(Ordered(op, a, b))

\* The engine's comparison: a total order in which NaN equals itself and is the greatest.
Rank(a) == IF a = NaN THEN 1000 ELSE a
EngineCompare(op, a, b) == IF Null \in {a, b} THEN "unknown" ELSE Boolean(Ordered(op, Rank(a), Rank(b)))

\* The comparison the compiler writes: floats are guarded against null and NaN.
SqlCompare(float, op, a, b) ==
    IF float /\ Null \notin {a, b} /\ NaN \in {a, b} THEN Boolean(op = "not_equals")
    ELSE EngineCompare(op, a, b)

-----------------------------------------------------------------------------
(* Conditions, row predicates and conditions on the whole dataset alike.   *)

DatasetKinds == {"primary_key", "exists", "group_count", "metric_compare", "every",
                 "dataset_all", "dataset_any", "dataset_not"}
RowKind(e) == e.kind \notin DatasetKinds

\* The conditions a condition is composed of, in their order, and what it comes down to.
Parts(e) == IF "children" \in DOMAIN e THEN e.children ELSE IF "child" \in DOMAIN e THEN <<e.child>> ELSE <<>>

Leaves[e \in Terms] ==
    IF Parts(e) = <<>> THEN {e} ELSE UNION {Leaves[Parts(e)[i]] : i \in DOMAIN Parts(e)}

Columns(v) == IF v.kind = "column" THEN {v.name} ELSE {}
Value(row, v) == IF v.kind = "column" THEN row[v.name] ELSE v.value

\* What the helper computes itself, from exact rational numbers.
Numeric(r) == \E x \in Leaves[r] : x.kind \in {"approx", "age_compare"}

\* Whether a value is among those of the input's column.
Member(value, column) ==
    IF value = Null THEN "unknown" ELSE Boolean(value # NaN /\ \E i \in DOMAIN column : column[i] = value)

Near(r, value) == IF value = Null THEN "unknown"
                  ELSE Boolean(value # NaN /\ value - r.value \in -r.abs_tol .. r.abs_tol)
Age(clock, r, value) == IF value = Null THEN "unknown" ELSE Boolean(clock - value <= r.value)

\* The truth of a composed predicate, from that of its leaves.
Composed(truth, r) ==
    LET f[x \in Terms] ==
          LET below == [i \in DOMAIN Parts(x) |-> f[Parts(x)[i]]]
          IN CASE x.kind = "row_all" -> FoldSeq(And, "true", below)
               [] x.kind = "row_any" -> FoldSeq(Or, "false", below)
               [] x.kind = "row_not" -> Negate(below[1])
               [] OTHER -> truth[x]
    IN f[r]

\* The domain's truth of a leaf at a row (semantics.rs); "env" holds the subject's
\* table, the pinned columns a check may look into and the frozen clock.
Leaf(env, r, row) ==
    CASE r.kind = "is_null" -> Boolean(row[r.column] = Null)
      [] r.kind = "is_nan" -> IF row[r.column] = Null THEN "unknown" ELSE Boolean(row[r.column] = NaN)
      [] r.kind = "row_compare" -> Compare(r.op, Value(row, r.left), Value(row, r.right))
      [] r.kind = "is_in" -> Boolean(\E i \in DOMAIN r.values :
             \/ row[r.column] = Null /\ r.values[i] = Null
             \/ Compare("equals", row[r.column], r.values[i]) = "true")
      [] r.kind = "in_dataset" -> Member(row[r.column], env.inputs[r.alias])
      [] r.kind = "approx" -> Near(r, row[r.column])
      [] r.kind = "age_compare" -> Age(env.clock, r, row[r.column])

Truth(env, r, row) == Composed([x \in Terms |-> Leaf(env, x, row)], r)

\* The truth of the text the compiler writes: an unknown comparison of a list counts as false.
Coalesce(t) == IF t = "unknown" THEN "false" ELSE t

SqlLeaf(env, r, row) ==
    CASE r.kind = "row_compare" ->
             SqlCompare(\E c \in Columns(r.left) \cup Columns(r.right) : Fields[c] = "float",
                        r.op, Value(row, r.left), Value(row, r.right))
      [] r.kind = "is_in" -> Boolean(\E i \in DOMAIN r.values :
             IF r.values[i] = Null THEN row[r.column] = Null
             ELSE Coalesce(SqlCompare(Fields[r.column] = "float", "equals", row[r.column], r.values[i])) = "true")
      [] OTHER -> Leaf(env, r, row)

SqlTruth(env, r, row) == Composed([x \in Terms |-> SqlLeaf(env, x, row)], r)

-----------------------------------------------------------------------------
(* The reference: what a declared check says of a table.                   *)

NullCount(table, column) == Cardinality({i \in DOMAIN table : table[i][column] = Null})
Key(columns, row) == [c \in columns |-> row[c]]
KeyNull(columns, row) == \E c \in columns : row[c] = Null
Shares(table, columns, i) == {k \in DOMAIN table : Key(columns, table[k]) = Key(columns, table[i])}
Violating(ignore, t) == t = "false" \/ (t = "unknown" /\ ~ignore)

\* The violating rows of a check that attributes violations to rows.
ViolatingRows(env, e, ignore) ==
    {i \in DOMAIN env.table :
        IF e.kind = "primary_key"
        THEN KeyNull(e.columns, env.table[i]) \/ Cardinality(Shares(env.table, e.columns, i)) > 1
        ELSE Violating(ignore, Truth(env, IF e.kind = "every" THEN e.child ELSE e, env.table[i]))}

Attributes(e) == RowKind(e) \/ e.kind \in {"every", "primary_key"}

\* A scalar as a fraction, whose denominator is 0 where it is undefined.
Scalar(env, s) ==
    LET t == env.table IN
    CASE s.kind = "literal" -> <<s.value, 1>>
      [] s.kind = "row_count" -> <<Len(IF s.input = Null THEN t ELSE env.inputs[s.input]), 1>>
      [] s.kind = "null_count" -> <<NullCount(t, s.column), 1>>
      [] s.kind = "null_fraction" -> <<NullCount(t, s.column), Len(t)>>
      [] s.kind = "distinct_count" -> <<Cardinality({t[i][s.column] : i \in DOMAIN t} \ {Null}), 1>>

\* "pass", "violation", or "error" where the check has no value.
Ruling(b) == IF b THEN "pass" ELSE "violation"

Reference(env, e, ignore) ==
    LET f[x \in Terms] ==
          LET below == {f[Parts(x)[i]] : i \in DOMAIN Parts(x)}
          IN CASE Attributes(x) -> Ruling(ViolatingRows(env, x, ignore) = {})
               [] x.kind = "exists" -> Ruling(x.column \in DOMAIN Fields)
               [] x.kind = "group_count" -> Ruling(\A i \in DOMAIN env.table :
                    Ordered(x.op, Cardinality(Shares(env.table, x.columns, i)), x.value))
               [] x.kind = "metric_compare" ->
                    LET l == Scalar(env, x.left)  r == Scalar(env, x.right)
                    IN IF 0 \in {l[2], r[2]} THEN "error" ELSE Ruling(Ordered(x.op, l[1] * r[2], r[1] * l[2]))
               [] x.kind \in {"dataset_all", "dataset_any", "dataset_not"} ->
                    IF "error" \in below THEN "error"
                    ELSE Ruling(IF x.kind = "dataset_any" THEN "pass" \in below
                                 ELSE ("violation" \in below) = (x.kind = "dataset_not"))
    IN f[e]
=============================================================================
