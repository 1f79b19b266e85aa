-------------------------- MODULE EngineValidation --------------------------
(***************************************************************************)
(* What the engine checks of a committed history on top of the store: every  *)
(* carrier is decoded, judged again and compared with the columns beside it, *)
(* and every finding is replayed from its lineage.                           *)
(*                                                                          *)
(* The engine opens no store whose history fails one of these.               *)
(*                                                                          *)
(* Source: crates/nq-core/src/engine.rs, crates/nq-core/src/                 *)
(* provider_intake.rs, crates/nq-store/src/lib.rs.                           *)
(***************************************************************************)
EXTENDS StoreValidation

RunOf(db, run) == CHOOSE r \in Rows(db.runs) : r.id = run

\* A captured attempt reopened from its row: interpreted again from the bytes
\* it retained, with its times in order and a run identity of its own.
ReopenStoreRow(intake) ==
    /\ intake.interpretation =
         InterpretResponse([outcome |-> intake.resource, raw |-> intake.raw])
    /\ intake.key = IdempotencyKey(intake.bound.admission, intake.attempt)
    /\ intake.attempt # intake.run
    /\ intake.bound.started <= intake.bound.deadline
    /\ intake.bound.started <= intake.bound.finished
    /\ intake.bound.finished <= intake.received
    /\ intake.bound.profile \in Catalog

\* The acknowledged result of an attempt decodes and agrees with the capture.
IntakeRecordHolds(db, n) ==
    /\ ReopenStoreRow(db.intakes[n])
    /\ \E a \in Rows(db.acknowledgments) :
         /\ a.intake = n
         /\ ValidOutcome(a.result)
         /\ DownstreamAgrees(db.intakes[n], a.result)

ProviderIntakeHistory(db, scope) ==
    /\ ValidProviderIntakes(db, scope)
    /\ \A n \in IntakesAffected(db, scope) : IntakeRecordHolds(db, n)

-----------------------------------------------------------------------------
(* Admitted reports.                                                        *)

\* A report belongs, through its submission and run, to the admission whose
\* context it carries, and its columns are those of its own document.
AdmittedSnapshotHolds(db, r) ==
    LET submission == db.submissions[r.submission]
        run == RunOf(db, submission.run)
        admission == db.admissions[run.bound.admission]
    IN /\ submission.admission = "admitted"
       /\ r.admission = run.bound.admission
       /\ r.received = submission.received
       /\ r.instance = run.bound.instance /\ r.instance = admission.instance
       /\ r.profile = run.bound.profile /\ r.profile = admission.profile
       /\ r.document = submission.raw
       /\ <<r.document.profile, r.document.status, r.document.observed>>
            = <<r.profile, r.status, r.observed>>

\* The typed judgment can be made again, and says the report is valid.
AdmittedReportHolds(db, r) ==
    /\ AdmittedSnapshotHolds(db, r)
    /\ r.profile \in Catalog
    /\ ProfileVerdict(r.document, r.received) = "valid"

-----------------------------------------------------------------------------
(* Runs, their results and the status events that show them.                *)

\* A run's acquisition column is the code of its resource outcome, and its
\* profile that of its admission, judged by the compiled detector suite.
WatcherRunHolds(db, run) ==
    LET admission == db.admissions[run.bound.admission]
    IN /\ run.bound.outcome = ProjectedOutcome(run.resource)
       /\ admission.instance = run.bound.instance
       /\ admission.profile = run.bound.profile
       /\ run.bound.profile \in Catalog

\* Which acquisition outcome a result requires of its run.
ExpectedAcquisition(o) ==
    CASE o.result.kind = "acquisition_failed" -> o.result.failure.outcome
      [] o.result.kind = "rejected" /\ o.result.refusal.origin = "acquisition" ->
           o.result.refusal.source.outcome
      [] OTHER -> "Response"

AdmittedRunHolds(db, o) ==
    LET evaluations == InOrder(EvaluationsOf(db, o.run))
    IN \E r \in ReportOfRun(db, o.run) :
         /\ r.id = o.result.report
         /\ r.status = o.result.status
         /\ r.document = o.result.digest
         /\ AdmittedSnapshotHolds(db, r)
         /\ o.result.evaluations =
              [k \in DOMAIN evaluations |-> db.evaluations[evaluations[k]].detail]

CollectionRunHolds(db, o) ==
    /\ o.result.kind # "admission_refused"
    /\ \E run \in Rows(db.runs) :
         /\ run.id = o.run
         /\ run.bound.instance = o.instance
         /\ run.resource = ExpectedAcquisition(o)
         /\ o.result.kind = "admitted" => AdmittedRunHolds(db, o)
         /\ o.result.kind = "rejected" /\ o.result.refusal.origin = "profile" =>
              /\ o.result.refusal.source.profile \in Catalog
              /\ o.result.refusal.source.profile = run.bound.profile

\* A refused result is the one its rejected custody retains.
RefusedCustodyLinked(db, o) ==
    \E r \in Rows(db.refusals) :
        r.run = o.run /\ r.instance = o.instance /\ r.detail = o.result.refusal

StatusEventHolds(db, s) ==
    /\ ValidOutcome(s.document)
    /\ s.document.instance = s.component
    /\ <<s.state, s.code>> = InstanceStatusProjection(s.document)
    /\ s.run = s.document.run
    /\ s.run # NoRun => CollectionRunHolds(db, s.document)
    /\ s.document.result.kind = "rejected" => RefusedCustodyLinked(db, s.document)

\* The refusal of rejected custody, decoded, is a valid one of its own run.
RejectedCustodyHolds(db, row) ==
    LET submission == db.submissions[row.submission]
        run == RunOf(db, row.run)
        refusal == row.detail
    IN /\ ValidRefusal(refusal)
       /\ RefusalColumns(refusal) =
            [id |-> row.id, projection |-> row.projection, instance |-> row.instance,
             profile |-> row.profile, detail |-> row.detail]
       /\ refusal.instance = run.bound.instance
       /\ submission.protocol = ExpectedProtocolOutcome(refusal.origin)
       /\ refusal.origin = "profile" => refusal.source.profile = row.profile
       /\ CollectionRunHolds(db, RejectedOutcome(row.instance, row.run, refusal))

-----------------------------------------------------------------------------
(* Evaluations and the findings they extend.                                *)

EnvelopeLineage(e) ==
    [instance |-> e.instance, detector |-> e.detector, profile |-> e.profile,
     context |-> e.context]

EventOf(db, n) ==
    LET found == {e \in Rows(db.events) : e.evaluation = n}
    IN IF found = {} THEN None ELSE CHOOSE e \in found : TRUE

\* The newest event of a lineage before an evaluation.
PriorEvent(db, lineage, n) ==
    LET found == {e \in Rows(db.events) : e.lineage = lineage /\ e.evaluation < n}
    IN IF found = {} THEN None
       ELSE CHOOSE e \in found : \A f \in found : f.evaluation <= e.evaluation

\* A report an evaluation relies on was admitted in the evaluation's context.
ReportInContext(r, e) ==
    /\ r.instance = e.instance
    /\ ReportMatchesContext(r, [profile |-> e.profile, context |-> e.context])

WatermarkHolds(db, row) ==
    LET e == row.detail
    IN /\ row.watermark = e.watermark
       /\ ValidWatermark(db, e.watermark)
       /\ e.watermark.sequence # NoReport =>
            ReportInContext(db.reports[e.watermark.sequence], e)
       /\ e.trigger # NoRun => TriggerAccepted(db, e)

EvidenceHolds(db, e, evidence) ==
    \A cited \in evidence :
        /\ cited.sequence \in DOMAIN db.reports
        /\ cited.sequence <= e.watermark.sequence
        /\ LET r == db.reports[cited.sequence]
           IN /\ <<r.id, r.document, r.observed>> = <<cited.report, cited.digest, cited.observed>>
              /\ ReportInContext(r, e)

\* An event cites what its result cites, or what its finding already cited,
\* from reports of the instance the watermark covers.
EventEvidenceHolds(db, e, event, prior) ==
    /\ event.evidence = (IF e.result.evidence # {} THEN e.result.evidence
                         ELSE IF prior = None THEN {} ELSE prior.evidence)
    /\ \A cited \in event.evidence :
         /\ cited.sequence <= e.watermark.sequence
         /\ db.reports[cited.sequence].instance = e.watermark.instance

EvaluationRowHolds(db, n) ==
    LET row == db.evaluations[n]
        e == row.detail
        event == EventOf(db, n)
        prior == PriorEvent(db, EnvelopeLineage(e), n)
        cited == IF event = None THEN {}
                 ELSE {db.reports[c.sequence] : c \in event.evidence}
    IN /\ ValidEnvelope(e)
       /\ <<row.id, row.trigger, row.detector, row.evaluator, row.profile, row.outcome>>
            = <<e.id, e.trigger, e.detector, e.evaluator, e.profile, e.result.state>>
       /\ row.profile \in Catalog
       /\ row.detector \in DetectorsOf(row.profile)
       /\ {r.detail : r \in {q \in Rows(db.refusals) : q.evaluation = n}}
            = {e.result.refusal} \ {None}
       /\ WatermarkHolds(db, row)
       /\ EvidenceHolds(db, e, e.result.evidence)
       /\ event # None => EventEvidenceHolds(db, e, event, prior)
       /\ FindingProjection(e, event, prior, db.reports[e.watermark.sequence], cited)
       /\ ReplayStep(e.result.state, event, prior)

-----------------------------------------------------------------------------
(* The planes of a semantic validation.                                     *)

StatusHistory(db, scope) ==
    /\ \A n \in NewRows(db, scope, "runs") : WatcherRunHolds(db, db.runs[n])
    /\ \A n \in NewRows(db, scope, "statuses") : StatusEventHolds(db, db.statuses[n])

EvaluationHistory(db, scope) ==
    \A n \in NewRows(db, scope, "evaluations") : EvaluationRowHolds(db, n)

SemanticPlanes(db, scope) ==
    /\ \A n \in NewRows(db, scope, "reports") : AdmittedReportHolds(db, db.reports[n])
    /\ \A n \in NewRows(db, scope, "refusals") :
         db.refusals[n].submission # NoRow => RejectedCustodyHolds(db, db.refusals[n])
    /\ StatusHistory(db, scope)
    /\ EvaluationHistory(db, scope)

SemanticHistory(db, scope) == SemanticPlanes(db, scope) /\ ProviderIntakeHistory(db, scope)
=============================================================================
