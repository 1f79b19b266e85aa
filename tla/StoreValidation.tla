-------------------------- MODULE StoreValidation ---------------------------
(***************************************************************************)
(* What the store checks of a committed history, whole or since a frontier.  *)
(*                                                                          *)
(* A scope is the length every table had when it was last validated, all     *)
(* zero for a full validation; a validator covers the rows beyond it and the *)
(* older rows that a row beyond it names.                                    *)
(*                                                                          *)
(* Source: crates/nq-store/src/lib.rs, crates/nq-store/src/history_scope.rs. *)
(***************************************************************************)
EXTENDS StoreRows

Tables == {"runs", "intakes", "acknowledgments", "submissions", "refusals", "reports",
           "evaluations", "events", "statuses"}

FullScope == [t \in Tables |-> 0]

\* The frontier of a database: how far every table reaches.
CaptureBounds(db) == [t \in Tables |-> Len(db[t])]

NewRows(db, scope, t) == {n \in DOMAIN db[t] : n > scope[t]}

SubmissionsOf(db, run) == {n \in DOMAIN db.submissions : db.submissions[n].run = run}

EvaluationsOf(db, run) ==
    {n \in DOMAIN db.evaluations : db.evaluations[n].trigger = run}

\* Evaluations of a run beyond the scope are read from the scope on.
RunEvaluations(db, scope, n) ==
    LET found == EvaluationsOf(db, db.runs[n].id)
    IN InOrder(IF n > scope.runs THEN {m \in found : m > scope.evaluations} ELSE found)

-----------------------------------------------------------------------------
(* Provider intake.                                                         *)

IntakeRuns(db, scope) ==
    {n \in DOMAIN db.runs :
       \/ n > scope.runs
       \/ \E k \in NewRows(db, scope, "intakes") : db.intakes[k].run = db.runs[n].id}

IntakesAffected(db, scope) ==
    {n \in DOMAIN db.intakes :
       \/ n > scope.intakes
       \/ \E k \in NewRows(db, scope, "acknowledgments") : db.acknowledgments[k].intake = n
       \/ \E k \in NewRows(db, scope, "runs") : db.runs[k].id = db.intakes[n].run
       \/ \E k \in NewRows(db, scope, "submissions") :
            db.submissions[k].run = db.intakes[n].run}

\* The acknowledgment recomputed from the rows it joins.
AcknowledgmentHolds(db, n) ==
    \E a \in Rows(db.acknowledgments) :
        /\ a.intake = n
        /\ a.run = db.intakes[n].run
        /\ a.attempt = db.intakes[n].attempt
        /\ a.raw = db.intakes[n].raw
        /\ a.status \in DOMAIN db.statuses
        /\ db.statuses[a.status].run = a.run
        /\ a.result = db.statuses[a.status].document

\* An admission fact check without the demand that it is still the active one.
ProviderFactsHold(db, intake) ==
    ValidProviderAdmission([db EXCEPT !.active[intake.bound.instance] = intake.bound.admission],
                           intake)

RunsHaveOneIntake(db, scope) ==
    \A n \in IntakeRuns(db, scope) :
        Cardinality({k \in DOMAIN db.intakes : db.intakes[k].run = db.runs[n].id}) = 1

RunsOfIntake(db, n) == {r \in Rows(db.runs) : r.id = db.intakes[n].run}

\* An intake has one run and one durable acknowledgment.
IntakesAreAnswered(db, scope) ==
    \A n \in IntakesAffected(db, scope) :
        /\ Cardinality(RunsOfIntake(db, n)) = 1
        /\ Cardinality({k \in DOMAIN db.acknowledgments :
                          db.acknowledgments[k].intake = n}) = 1

\* The run repeats what the intake was bound to, and a submission its exact bytes.
IntakeMatchesRun(db, n) ==
    LET intake == db.intakes[n]
    IN /\ \A r \in RunsOfIntake(db, n) : r.bound = intake.bound /\ r.resource = intake.resource
       /\ \A k \in SubmissionsOf(db, intake.run) :
            /\ db.submissions[k].raw = intake.raw
            /\ db.submissions[k].received = intake.received

ValidProviderIntakes(db, scope) ==
    /\ RunsHaveOneIntake(db, scope)
    /\ IntakesAreAnswered(db, scope)
    /\ \A n \in IntakesAffected(db, scope) :
         /\ ProviderFactsHold(db, db.intakes[n])
         /\ IntakeMatchesRun(db, n)
         /\ AcknowledgmentHolds(db, n)

-----------------------------------------------------------------------------
(* Refusals of rejected custody.                                            *)

SubmissionsAffected(db, scope) ==
    {n \in DOMAIN db.submissions :
       \/ n > scope.submissions
       \/ \E k \in NewRows(db, scope, "refusals") : db.refusals[k].submission = n}

\* A rejected submission's refusal repeats its run's identity and profile, and
\* names semantics exactly when the profile refused: those of the admission.
RefusalMatchesRun(db, refusal, submission) ==
    LET run == CHOOSE r \in Rows(db.runs) : r.id = submission.run
    IN /\ refusal.run = submission.run
       /\ refusal.instance = run.bound.instance
       /\ refusal.bound = run.bound.profile
       /\ refusal.evaluation = NoRow
       /\ IF refusal.projection[1] = "profile"
          THEN /\ run.bound.admission \in DOMAIN db.admissions
               /\ db.admissions[run.bound.admission].instance = run.bound.instance
               /\ refusal.profile = db.admissions[run.bound.admission].profile
          ELSE refusal.profile = "none"

ValidRefusals(db, scope) ==
    /\ \A n \in NewRows(db, scope, "refusals") :
         LET r == db.refusals[n]
         IN \/ r.run # NoRun /\ r.submission # NoRow /\ r.evaluation = NoRow
            \/ r.run = NoRun /\ r.submission = NoRow /\ r.evaluation # NoRow
    /\ \A n \in SubmissionsAffected(db, scope) :
         LET linked == {r \in Rows(db.refusals) : r.submission = n}
         IN IF db.submissions[n].admission = "rejected"
            THEN /\ Cardinality(linked) = 1
                 /\ \A r \in linked : RefusalMatchesRun(db, r, db.submissions[n])
            ELSE linked = {}

-----------------------------------------------------------------------------
(* Results of completed runs.                                               *)

RunsAffected(db, scope) ==
    {n \in DOMAIN db.runs :
       \/ n > scope.runs
       \/ \E k \in NewRows(db, scope, "submissions") : db.submissions[k].run = db.runs[n].id
       \/ \E k \in NewRows(db, scope, "statuses") : db.statuses[k].run = db.runs[n].id
       \/ \E k \in NewRows(db, scope, "evaluations") :
            db.evaluations[k].trigger = db.runs[n].id
       \/ \E k \in NewRows(db, scope, "reports") :
            db.submissions[db.reports[k].submission].run = db.runs[n].id}

IsAdmittedRun(db, run) ==
    \E k \in SubmissionsOf(db, run) : db.submissions[k].admission = "admitted"

\* An admitted run is judged by the suite and evaluator of its admission, once
\* by each detector.
EvaluationClosure(db, scope, n) ==
    LET found == RunEvaluations(db, scope, n)
        admission == db.admissions[db.runs[n].bound.admission]
    IN /\ [k \in DOMAIN found |-> db.evaluations[found[k]].detector]
            = InOrder(DetectorsOf(admission.profile))
       /\ \A k \in DOMAIN found : db.evaluations[found[k]].evaluator = admission.evaluator

AdmittedResultHolds(db, scope, n) ==
    LET run == db.runs[n]
        found == RunEvaluations(db, scope, n)
    IN \A report \in ReportOfRun(db, run.id), s \in {s \in Rows(db.statuses) : s.run = run.id} :
         ValidAdmittedResultDocument(s.document, run.id, run.bound.instance, report,
           [k \in DOMAIN found |-> db.evaluations[found[k]].detail])

ValidRunResults(db, scope) ==
    /\ \A n \in RunsAffected(db, scope) :
         LET results == {k \in DOMAIN db.statuses : db.statuses[k].run = db.runs[n].id}
         IN /\ Cardinality(results) = 1
            /\ \A k \in results : db.statuses[k].component = db.runs[n].bound.instance
            /\ IsAdmittedRun(db, db.runs[n].id) =>
                 EvaluationClosure(db, scope, n) /\ AdmittedResultHolds(db, scope, n)
    /\ \A n \in NewRows(db, scope, "evaluations") :
         db.evaluations[n].trigger # NoRun => IsAdmittedRun(db, db.evaluations[n].trigger)

-----------------------------------------------------------------------------
(* Evaluations, their refusals and their finding events.                    *)

\* Sequence numbers have no gap, and neither have the revisions of a detector:
\* those beyond the scope continue those it covers.
ValidRevisionShape(db, scope) ==
    /\ \A n \in NewRows(db, scope, "evaluations") : db.evaluations[n].sequence = n
    /\ \A d \in {db.evaluations[n].detector : n \in NewRows(db, scope, "evaluations")} :
         LET revisions(S) == {db.evaluations[n].revision : n \in
                                {m \in S : db.evaluations[m].detector = d}}
             covered == revisions(1 .. scope.evaluations)
             new == revisions(NewRows(db, scope, "evaluations"))
         IN new = (Cardinality(covered) + 1) .. (Cardinality(covered) + Cardinality(new))

EvaluationsAffected(db, scope) ==
    {n \in DOMAIN db.evaluations :
       \/ n > scope.evaluations
       \/ \E k \in NewRows(db, scope, "refusals") : db.refusals[k].evaluation = n
       \/ \E k \in NewRows(db, scope, "events") : db.events[k].evaluation = n}

\* An event opens its finding at revision one or extends, in its lineage, the
\* event one revision before it, from a later evaluation.
LineageHolds(db, event) ==
    IF event.revision = 1 THEN event.kind = "opened"
    ELSE \E prior \in Rows(db.events) :
           /\ prior.finding = event.finding
           /\ prior.revision = event.revision - 1
           /\ event.kind # "opened"
           /\ prior.lineage = event.lineage
           /\ prior.evaluationRevision < event.evaluationRevision

FindingLinkHolds(db, n, event, refusals) ==
    LET e == db.evaluations[n]
    IN /\ event.lineage.detector = e.detector
       /\ event.lineage.profile = e.profile
       /\ event.evaluationRevision = e.revision
       /\ e.outcome # "cannot_evaluate" => event.condition = e.outcome
       /\ event.refusal = (IF refusals = {} THEN None
                           ELSE (CHOOSE r \in refusals : TRUE).detail)
       /\ e.outcome = "cannot_evaluate" =>
            /\ event.visibility # "sufficient"
            /\ \E prior \in Rows(db.events) :
                 /\ prior.finding = event.finding
                 /\ prior.revision = event.revision - 1
                 /\ prior.condition = event.condition

ValidEvaluationRefusals(db, scope) ==
    /\ ValidRevisionShape(db, scope)
    /\ \A n \in EvaluationsAffected(db, scope) :
         LET e == db.evaluations[n]
             refusals == {r \in Rows(db.refusals) : r.evaluation = n}
             events == {k \in DOMAIN db.events : db.events[k].evaluation = n}
         IN /\ Cardinality(refusals) = IF e.outcome = "cannot_evaluate" THEN 1 ELSE 0
            /\ \A r \in refusals :
                 /\ r.projection[1] = "profile"
                 /\ r.bound = e.profile /\ r.profile = e.profile
                 /\ r.instance = e.watermark.instance
            /\ Cardinality(events) <= 1
            /\ \A k \in events : FindingLinkHolds(db, n, db.events[k], refusals)
    /\ \A n \in NewRows(db, scope, "events") : LineageHolds(db, db.events[n])

\* Every current pointer selects the newest row of its component or finding,
\* and every row beyond the scope has one.
ValidProjections(db, scope) ==
    /\ \A i \in Instances :
         LET mine == {n \in DOMAIN db.statuses : db.statuses[n].component = i}
         IN db.statusCurrent[i] = IF mine = {} THEN NoRow ELSE Newest(mine)
    /\ \A f \in DOMAIN db.findingCurrent :
         LET n == db.findingCurrent[f]
         IN /\ n \in DOMAIN db.events /\ db.events[n].finding = f
            /\ \A e \in Rows(db.events) : e.finding = f => e.revision <= db.events[n].revision
    /\ \A n \in NewRows(db, scope, "events") : db.events[n].finding \in DOMAIN db.findingCurrent

\* What a commit re-checks before it becomes durable.
ValidAppend(db, scope) ==
    /\ ValidProviderIntakes(db, scope)
    /\ ValidRefusals(db, scope)
    /\ ValidRunResults(db, scope)
    /\ ValidEvaluationRefusals(db, scope)

\* What opening a store checks.
ValidHistory(db, scope) == ValidAppend(db, scope) /\ ValidProjections(db, scope)
=============================================================================
