------------------------------- MODULE Checks -------------------------------
(***************************************************************************)
(* The checks of an attempt, from the frozen obligations to the published  *)
(* version: the isolated evaluation of a group (tf-exec checks.rs), the    *)
(* gates of the lifecycle (lifecycle.rs), the retained evidence and the    *)
(* certificates a later attempt may reuse (tf-store check_evidence.rs and  *)
(* publication.rs), across crashes, cancellations and changed bytes.       *)
(***************************************************************************)
EXTENDS CheckCompiler, TLC

CONSTANTS Catalog     \* the cases: declared checks, tables and attempts of each

Cases == Catalog

VARIABLES
    case,         \* the frozen declarations, tables and attempts of this behaviour
    session,      \* number of the coordinator's session
    attempts,     \* attempt -> its phase, its session, its candidate and the results it holds
    canceled,     \* attempts whose build was asked to stop
    changed,      \* subjects whose bytes were changed on disk
    rows,         \* check_results: one row of an attempt and an obligation
    certificates, \* check_certificates: key -> the row it was written for
    candidates,   \* failed_check_candidates
    underway      \* the evaluation under way: its plan and what the helper answered

checksVars == <<case, session, attempts, canceled, changed, rows, certificates, candidates, underway>>

NoWork == [stage |-> "none"]

Idle == [phase |-> "none", session |-> 0, candidate |-> FALSE, held |-> {}]

\* The group of a phase, and the subject it is evaluated on.
Group(phase) == IF phase = "input" THEN case.input ELSE case.output
Subject(a, phase) == IF phase = "input" THEN <<"version", case.attempts[a].version>> ELSE <<"candidate", a>>
Table(a, phase) == IF phase = "input" THEN case.versions[case.attempts[a].version] ELSE case.produced
Env(a, phase) == [table |-> Table(a, phase), inputs |-> case.references, clock |-> case.attempts[a].clock]

\* The obligations of an attempt: a declaration scoped to its input or to the output.
Obligations == UNION {{<<phase, d>> : d \in ToSet(Group(phase))} : phase \in {"input", "output"}}

ChecksInit ==
    /\ \E family \in DOMAIN Cases : case \in Cases[family]
    /\ session = 1
    /\ attempts = [a \in DOMAIN case.attempts |-> Idle]
    /\ canceled = {} /\ changed = {} /\ rows = {} /\ candidates = {}
    /\ certificates = <<>> /\ underway = NoWork

-----------------------------------------------------------------------------
(* One evaluation.                                                         *)

\* Errors are never accepted, violations only of a check that warns.
AcceptableOnWarn(d, status) == status = "PASS" \/ d.severity = "WARN"

Acceptable(d, status) == status = "PASS" \/ (status = "VIOLATION" /\ d.severity = "WARN")

Limit(a, d) == IF d.rows < case.attempts[a].limit THEN d.rows ELSE case.attempts[a].limit

\* A check whose rows can be read: its sample, with what the read left out.
Shown(a, env, d, failed, backwards) ==
    IF d.rows = 0 \/ ~Sampled(d.e) THEN Null
    ELSE LET s == Sample(env, d.e, d.ignore, Limit(a, d), backwards)
         IN [s EXCEPT !.truncated = @ \/ failed > Cardinality(s.rows)]

\* The isolated helper runs when some check compiled and there is something to ask.
Asks(plan, group) ==
    /\ \E i \in DOMAIN plan.nodes : plan.nodes[i].error = ""
    /\ Sent(plan) # <<>> \/ \E i \in DOMAIN group : group[i].rows > 0

\* The row of one check, from its outcome.
Status(o) == IF o.error # "" THEN "ERROR" ELSE IF o.passed THEN "PASS" ELSE "VIOLATION"
Judged(a, phase, d, o, backwards) ==
    [attempt |-> a, phase |-> phase, check |-> d, status |-> Status(o), error |-> o.error,
     subject |-> Subject(a, phase), failed |-> o.failed,
     sample |-> IF Status(o) = "VIOLATION" THEN Shown(a, Env(a, phase), d, o.failed, backwards) ELSE Null,
     original |-> Null]

\* The rows of a group: one flaw of the run makes all of them errors.
Results(a, phase, flaw, backwards) ==
    {LET d == Group(phase)[i]
         n == underway.plan.nodes[i]
     IN Judged(a, phase, d,
               IF flaw # "" THEN Failure(flaw) ELSE IF n.error # "" THEN Failure(n.error)
               ELSE Outcome(Placed(underway.plan, n.places, underway.answers), d.ignore, d.e),
               backwards) : i \in DOMAIN Group(phase)}

\* What can befall a run: a spent budget, a cancellation, a helper that fails if it runs.
Flaws(a, asks) ==
    {"validation_timeout", IF a \in canceled THEN "canceled" ELSE ""} \cup (IF asks THEN {"helper_error"} ELSE {})

\* Mutant: the subject is not verified again after the helper has read it.
Trusting(a, phase) == IF a \in canceled THEN "canceled" ELSE underway.flaw

\* What the parent finds when it reads the answer: other bytes, or a cancellation.
Late(a, phase) ==
    IF a \in canceled THEN "canceled"
    ELSE IF underway.asked /\ underway.flaw = "" /\ Subject(a, phase) \in changed THEN "result_integrity"
    ELSE underway.flaw

-----------------------------------------------------------------------------
(* The evidence store.                                                     *)

\* Only the attempt of the current session that is not published may write.
Owned(a) == attempts[a].session = session /\ attempts[a].phase # "published"

RowOf(a, phase, d) == {r \in rows : r.attempt = a /\ r.phase = phase /\ r.check = d}

\* A condition that depends on other inputs or on the clock.
Contextual(e) == Foreign(e) \/ \E x \in Leaves[e] : x.kind = "age_compare"

\* The key a certificate is found by: everything its outcome depends on. What a group
\* looks into beyond the subject is in the key of each of its checks.
Context(a, group) == IF \E i \in DOMAIN group : Contextual(group[i].e) THEN a ELSE Null


CertificateKey(a, d, group) ==
    [check |-> d, version |-> case.attempts[a].version, consumer |-> case.attempts[a].consumer,
     limit |-> case.attempts[a].limit, context |-> Context(a, group)]

\* record_check_evaluation: the rows of a group at once; an acceptable row leaves a
\* certificate unless one of the same key is there.
Recorded(a, phase, results) ==
    LET fresh == {r \in results : r.phase = "input" /\ Acceptable(r.check, r.status)}
        key(r) == CertificateKey(a, r.check, Group(phase))
    IN /\ rows' = rows \cup results
       /\ certificates' = [k \in DOMAIN certificates \cup {key(r) : r \in fresh} |->
                             IF k \in DOMAIN certificates THEN certificates[k] ELSE CHOOSE r \in fresh : key(r) = k]

-----------------------------------------------------------------------------
(* The lifecycle of an attempt.                                            *)

Phase(a, phase) == attempts' = [attempts EXCEPT ![a].phase = phase]
Permits(results) == \A r \in results : Acceptable(r.check, r.status)
After(phase) == IF phase = "input" THEN "transform" ELSE "approved"

\* An attempt begins in the current session, after the one before it has ended.
Begin(a) ==
    /\ attempts[a].phase = "none"
    /\ \A b \in DOMAIN attempts : b < a => attempts[b].phase \in {"published", "rejected", "lost"}
    /\ attempts' = [attempts EXCEPT ![a].phase = IF a \in canceled THEN "rejected" ELSE "input", ![a].session = session]
    /\ UNCHANGED <<case, session, canceled, changed, rows, certificates, candidates, underway>>

\* A group without checks has nothing to evaluate.
Pass(a, phase) ==
    /\ attempts[a].phase = phase /\ Group(phase) = <<>>
    /\ Phase(a, IF a \in canceled THEN "rejected" ELSE After(phase))
    /\ UNCHANGED <<case, session, canceled, changed, rows, certificates, candidates, underway>>

\* The subject is verified and the group compiled; bytes that are not those of the
\* manifest leave no evidence.
Compile(a, phase) ==
    /\ attempts[a].phase = phase /\ Group(phase) # <<>> /\ underway = NoWork
    /\ \/ /\ Subject(a, phase) \notin changed
          /\ underway' = [stage |-> "compiled", plan |-> Compiled(Group(phase))]
          /\ UNCHANGED attempts
       \/ /\ Subject(a, phase) \in changed
          /\ Phase(a, "rejected")
          /\ UNCHANGED underway
    /\ UNCHANGED <<case, session, canceled, changed, rows, certificates, candidates>>

\* What the helper reads: bytes that were changed are another table, here one that lost its rows.
Opened(a, phase) == [Env(a, phase) EXCEPT !.table = IF Subject(a, phase) \in changed THEN <<>> ELSE @]

\* The isolated helper answers, unless the run is flawed; the engine may fail one query.
Run(a, phase) ==
    /\ attempts[a].phase = phase /\ underway.stage = "compiled"
    /\ LET asks == Asks(underway.plan, Group(phase))
       IN \E flaw \in Flaws(a, asks), failing \in {{}} \cup {{k} : k \in DOMAIN Sent(underway.plan)} :
            /\ flaw # "" => failing = {}
            /\ underway' = [stage |-> "answered", plan |-> underway.plan, flaw |-> flaw, asked |-> asks,
                            answers |-> IF asks /\ flaw = "" THEN Execute(Opened(a, phase), underway.plan, failing) ELSE <<>>]
    /\ UNCHANGED <<case, session, attempts, canceled, changed, rows, certificates, candidates>>

\* The answers are reduced and recorded, whatever they say; then the gate decides. Rows
\* another call left for the attempt refuse the record.
Record(a, phase) ==
    /\ attempts[a].phase = phase /\ underway.stage = "answered"
    /\ \E results \in {Results(a, phase, Late(a, phase), backwards) : backwards \in BOOLEAN} :
         LET accepted == Owned(a) /\ \A r \in results : RowOf(a, phase, r.check) = {}
         IN /\ IF accepted THEN Recorded(a, phase, results) ELSE UNCHANGED <<rows, certificates>>
            /\ attempts' = [attempts EXCEPT
                 ![a].held = @ \cup results,
                 ![a].phase = IF accepted /\ Permits(attempts[a].held \cup results) /\ a \notin canceled
                              THEN After(phase) ELSE "rejected"]
    /\ underway' = NoWork
    /\ UNCHANGED <<case, session, canceled, changed, candidates>>

\* The producer runs once, and its closed bytes become the candidate.
Materialize(a) ==
    /\ attempts[a].phase = "transform"
    /\ \/ /\ a \notin canceled
          /\ attempts' = [attempts EXCEPT ![a].phase = "output", ![a].candidate = TRUE]
       \/ Phase(a, "rejected")
    /\ UNCHANGED <<case, session, canceled, changed, rows, certificates, candidates, underway>>

\* record_gate_results: the held results cover the obligations exactly, each is
\* acceptable, and the rows already recorded are the same.
Gated(a) ==
    LET held == attempts[a].held
    IN /\ {<<r.phase, r.check>> : r \in held} = Obligations
       /\ \A r \in held : Acceptable(r.check, r.status) /\ RowOf(a, r.phase, r.check) \in {{}, {r}}

\* The approved candidate is gated, installed, verified and committed; the budget of the
\* validation, a cancellation, changed bytes or a lost session refuse it.
Publish(a) ==
    /\ attempts[a].phase = "approved"
    /\ Gated(a) /\ Owned(a) /\ a \notin canceled /\ <<"candidate", a>> \notin changed
    /\ Phase(a, "published")
    /\ rows' = rows \cup attempts[a].held
    /\ UNCHANGED <<case, session, canceled, changed, certificates, candidates, underway>>

Refuse(a) ==
    /\ attempts[a].phase = "approved"
    /\ Phase(a, "rejected")
    /\ UNCHANGED <<case, session, canceled, changed, rows, certificates, candidates, underway>>

\* record_failed_check_candidate: the sealed candidate of a rejected attempt is kept as a
\* diagnosis; also called when closing the store fails after the commit.
KeepCandidate(a) ==
    /\ attempts[a].phase \in {"rejected", "published"} /\ attempts[a].candidate
    /\ <<"candidate", a>> \notin changed
    /\ Owned(a) /\ a \notin candidates
    /\ candidates' = candidates \cup {a}
    /\ UNCHANGED <<case, session, attempts, canceled, changed, rows, certificates, underway>>

\* lookup_input_certificate: for a check that looks at nothing but its subject, whose
\* bytes verified.
Lookup(a, d) ==
    /\ ~Contextual(d.e) /\ Subject(a, "input") \notin changed
    /\ CertificateKey(a, d, <<>>) \in DOMAIN certificates
\* reuse_input_certificate: a row of an earlier attempt stands for this one.
Reuse(a, d) ==
    LET key == CertificateKey(a, d, <<>>)
    IN /\ attempts[a].phase = "input" /\ Owned(a) /\ a \notin canceled
       /\ d \in ToSet(case.input) /\ ~case.attempts[a].forced /\ Lookup(a, d)
       /\ RowOf(a, "input", d) = {}
       /\ rows' = rows \cup {[certificates[key] EXCEPT !.attempt = a, !.original = certificates[key].attempt]}
       /\ UNCHANGED <<case, session, attempts, canceled, changed, certificates, candidates, underway>>

-----------------------------------------------------------------------------
(* The environment.                                                        *)

Unfinished(a) == attempts[a].phase \in {"input", "transform", "output", "approved"}

RequestCancel(a) ==
    /\ case.disturbed /\ Unfinished(a) /\ a \notin canceled
    /\ canceled' = canceled \cup {a}
    /\ UNCHANGED <<case, session, attempts, changed, rows, certificates, candidates, underway>>

\* Somebody changes the bytes of the consumed version or of the candidate.
ChangeBytes(a, phase) ==
    /\ case.disturbed /\ Unfinished(a) /\ changed = {} /\ (phase = "output" => attempts[a].candidate)
    /\ changed' = {Subject(a, phase)}
    /\ UNCHANGED <<case, session, attempts, canceled, rows, certificates, candidates, underway>>

\* The coordinator dies: what its attempts hold is gone, what they recorded stays.
Crash ==
    /\ case.disturbed /\ session = 1
    /\ session' = 2
    /\ attempts' = [a \in DOMAIN attempts |->
                      IF Unfinished(a) THEN [attempts[a] EXCEPT !.phase = "lost", !.held = {}] ELSE attempts[a]]
    /\ underway' = NoWork
    /\ UNCHANGED <<case, canceled, changed, rows, certificates, candidates>>

ChecksNext ==
    \/ \E a \in DOMAIN attempts :
         \/ Begin(a) \/ Materialize(a) \/ Publish(a) \/ Refuse(a) \/ KeepCandidate(a) \/ RequestCancel(a)
         \/ \E phase \in {"input", "output"} : 
              Pass(a, phase) \/ Compile(a, phase) \/ Run(a, phase) \/ Record(a, phase) \/ ChangeBytes(a, phase)
         \/ \E d \in ToSet(case.input) : Reuse(a, d)
    \/ Crash

ChecksSpec == ChecksInit /\ [][ChecksNext]_checksVars

-----------------------------------------------------------------------------
(* Properties.                                                             *)

SampleTrue(r) ==
    LET violating == ViolatingRows(Env(r.attempt, r.phase), r.check.e, r.check.ignore)
    IN /\ r.sample.rows \subseteq violating
       /\ Cardinality(r.sample.rows) <= Limit(r.attempt, r.check)
       /\ r.sample.truncated <=> r.sample.rows # violating
       /\ r.failed = Cardinality(violating)

\* The compiled plan implements the domain's semantics: whatever other checks share its
\* queries, a recorded PASS or VIOLATION is what the reference says of the attempt's own
\* subject, the bytes of its manifest, freshly evaluated or reused; a check without a value
\* is an error, and no error comes of a query that is sent the parameters of another.  A sample beside it shows only violating rows, as many
\* as the policy of the attempt allows, and says so when it leaves some out (checks.rs,
\* compiler.rs, results.rs, check_evidence.rs).
ResultsTrue ==
    \A r \in rows :
        LET expected == IF Fits(r.check.e) THEN Reference(Env(r.attempt, r.phase), r.check.e, r.check.ignore) ELSE "error"
        IN /\ r.status = "PASS" => expected = "pass"
           /\ r.status = "VIOLATION" => expected = "violation"
           /\ r.error = "undefined_metric" => expected = "error"
           /\ r.error # "unbound"
           /\ r.sample # Null => SampleTrue(r)

\* A published attempt has exactly one row for every obligation, none of them an error or
\* a violation of a required check, all about the bytes it consumed and produced
\* (lifecycle.rs permits, publication.rs record_gate_results).
PublishedCertified ==
    \A a \in DOMAIN attempts : attempts[a].phase = "published" =>
        /\ \A o \in Obligations : Cardinality(RowOf(a, o[1], o[2])) = 1
        /\ \A r \in rows : r.attempt = a =>
             /\ r.status # "ERROR" /\ (r.check.severity = "FAIL" => r.status = "PASS")
             /\ r.subject = Subject(a, r.phase)

=============================================================================
