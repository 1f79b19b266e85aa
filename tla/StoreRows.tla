----------------------------- MODULE StoreRows ------------------------------
(***************************************************************************)
(* The store's append operations: what each refuses and the rows it leaves.  *)
(*                                                                          *)
(* A database is a record of tables.  A table is a sequence, the position of *)
(* a row its sequence number; status_current and finding_current are the two *)
(* projections that point into a table.  The columns an intake shares with   *)
(* its run are one field, bound; a document's digest is the document.        *)
(*                                                                          *)
(* Source: crates/nq-store/src/lib.rs.                                       *)
(***************************************************************************)
EXTENDS Evaluation

LOCAL INSTANCE SequencesExt

NoAdmission == 0
NoRow == 0

EmptyDatabase ==
    [admissions |-> <<>>, active |-> [i \in Instances |-> NoAdmission],
     runs |-> <<>>, intakes |-> <<>>, acknowledgments |-> <<>>, submissions |-> <<>>,
     refusals |-> <<>>, reports |-> <<>>, evaluations |-> <<>>, events |-> <<>>,
     statuses |-> <<>>, statusCurrent |-> [i \in Instances |-> NoRow],
     findingCurrent |-> [f \in {} |-> NoRow]]

Rows(table) == {table[n] : n \in DOMAIN table}

\* The current event of every finding, as a reader of finding_current sees it.
CurrentFindings(db) ==
    {db.events[db.findingCurrent[f]] : f \in DOMAIN db.findingCurrent}

-----------------------------------------------------------------------------
(* Input checks of a collection.                                            *)

IdempotencyKey(admission, attempt) == <<admission, attempt>>

\* How far interpretation and the protocol plane of the submission agree.
InterpretationMatches(kind, submission) ==
    CASE kind = "unavailable" ->
           \/ submission = None
           \/ submission.protocol = "not_validated" /\ submission.admission = "rejected"
      [] kind = "protocol_rejected" -> submission # None /\ submission.protocol = "rejected"
      [] kind = "provider_refusal" -> submission # None /\ submission.protocol = "valid_refusal"
      [] kind = "candidate_report" -> submission # None /\ submission.protocol = "valid_report"

ValidIntakeShape(intake, run, submission) ==
    /\ intake.key = IdempotencyKey(intake.bound.admission, intake.attempt)
    /\ intake.raw.kind = "overflow" => intake.bound.outcome = "OutputTooLarge"
    /\ intake.bound.started <= intake.bound.finished
    /\ intake.bound.finished <= intake.received
    /\ intake.bound = run.bound
    /\ intake.resource = run.resource
    /\ (run.bound.outcome = "Response") <=> (intake.interpretation.kind # "unavailable")
    /\ submission # None => submission.raw = intake.raw /\ submission.received = intake.received
    /\ InterpretationMatches(intake.interpretation.kind, submission)

\* Two deadlines have one acquisition column.
ProjectedOutcome(exact) == IF exact = "ExchangeTimeout" THEN "Timeout" ELSE exact

ValidCollection(c) ==
    /\ ValidIntakeShape(c.intake, c.run, c.submission)
    /\ c.run.bound.outcome = ProjectedOutcome(c.run.resource)
    /\ c.submission # None =>
         /\ c.submission.raw.kind # "overflow"
         /\ c.submission.admission = "rejected" =>
              c.submission.refusal.instance = c.run.bound.instance
         /\ c.submission.admission = "admitted" =>
              /\ c.submission.report.instance = c.run.bound.instance
              /\ c.submission.report.profile = c.run.bound.profile
              /\ c.submission.report.received = c.submission.received

IsNonSuccessCollection(c) ==
    \/ c.run.bound.outcome # "Response"
    \/ c.submission # None /\ c.submission.admission = "rejected"

IsAdmittedCollection(c) ==
    /\ c.run.bound.outcome = "Response"
    /\ c.submission # None /\ c.submission.admission = "admitted"

\* The run-bearing result is a status of the collection's own instance.
ValidNonSuccessInput(c, status) ==
    /\ status.run = c.run.id
    /\ status.component = c.run.bound.instance
    /\ IsNonSuccessCollection(c)

\* The admitted result names the run, the report and exactly the evaluations
\* that are stored with it, in their order.
ValidAdmittedResultDocument(document, run, i, report, details) ==
    /\ document.schema = 2
    /\ document.instance = i
    /\ document.run = run
    /\ document.result.kind = "admitted"
    /\ document.result.report = report.id
    /\ document.result.status = report.status
    /\ document.result.digest = report.document
    /\ document.result.evaluations = details

ValidAdmittedCompletion(c, status, prepared) ==
    /\ status.component = c.run.bound.instance
    /\ \A k \in DOMAIN prepared :
         /\ prepared[k].envelope.trigger = c.run.id
         /\ \A j \in 1 .. k - 1 : prepared[j].envelope.id # prepared[k].envelope.id
    /\ ValidAdmittedResultDocument(status.document, c.run.id, c.run.bound.instance,
         c.submission.report, Envelopes(prepared))

-----------------------------------------------------------------------------
(* Intake: an admitted, currently bound provider, and no earlier attempt.    *)

ValidProviderAdmission(db, intake) ==
    LET a == intake.bound.admission
    IN /\ a \in DOMAIN db.admissions
       /\ db.admissions[a].instance = intake.bound.instance
       /\ db.admissions[a].profile = intake.bound.profile
       /\ db.admissions[a].evaluator = intake.evaluator
       /\ db.admissions[a].binding = intake.bound.binding
       /\ db.active[intake.bound.instance] = a

\* What the store already holds for an attempt: nothing, the same exchange
\* with its acknowledgment, or something else under one of its identities.
IntakePreflight(db, intake) ==
    LET same == {n \in DOMAIN db.intakes :
                   \/ db.intakes[n].key = intake.key
                   \/ db.intakes[n].attempt = intake.attempt
                   \/ db.intakes[n].bound.request = intake.bound.request}
        first == CHOOSE n \in same : \A m \in same : n <= m
    IN IF same = {} THEN "new"
       ELSE IF db.intakes[first] # intake THEN "replay_conflict"
       ELSE IF \E a \in Rows(db.acknowledgments) : a.intake = first THEN "existing"
       ELSE "unacknowledged"

RunAccepted(db, run) ==
    LET a == run.bound.admission
    IN /\ a \in DOMAIN db.admissions
       /\ db.admissions[a].instance = run.bound.instance
       /\ db.admissions[a].profile = run.bound.profile

CollectionAccepted(db, c) ==
    /\ ValidCollection(c)
    /\ ValidProviderAdmission(db, c.intake)
    /\ IntakePreflight(db, c.intake) = "new"
    /\ RunAccepted(db, c.run)
    /\ \A r \in Rows(db.runs) : r.id # c.run.id

\* A refusal row is linked to the run and submission it rejects, or to the
\* evaluation that could not be made; only a profile refusal names semantics.
RefusalRow(refusal, run, submission, evaluation, profile) ==
    RefusalColumns(refusal) @@
    [run |-> run, submission |-> submission, evaluation |-> evaluation, bound |-> profile]

InsertReport(db, submission, report, admission) ==
    [db EXCEPT !.reports = Append(@,
        [report EXCEPT !.sequence = Len(db.reports) + 1] @@
        [submission |-> submission, admission |-> admission])]

InsertCollection(db, c) ==
    LET linked == [db EXCEPT !.intakes = Append(@, c.intake), !.runs = Append(@, c.run)]
        n == Len(db.submissions) + 1
        held == [linked EXCEPT !.submissions = Append(@,
                   [run |-> c.run.id, raw |-> c.submission.raw,
                    received |-> c.submission.received, protocol |-> c.submission.protocol,
                    admission |-> c.submission.admission])]
    IN IF c.submission = None THEN linked
       ELSE IF c.submission.admission = "rejected"
       THEN [held EXCEPT !.refusals = Append(@, RefusalRow(c.submission.refusal, c.run.id, n,
                                                            NoRow, c.run.bound.profile))]
       ELSE InsertReport(held, n, c.submission.report, c.run.bound.admission)

\* A status event is the new current status of its component.
InsertStatusEvent(db, status) ==
    [db EXCEPT !.statuses = Append(@, status),
               !.statusCurrent[status.component] = Len(db.statuses) + 1]

\* The acknowledgment binds the intake, its run and the result it ended in.
InsertAcknowledgment(db, intake, run, document) ==
    [db EXCEPT !.acknowledgments = Append(@,
        [intake |-> CHOOSE n \in DOMAIN db.intakes : db.intakes[n] = intake, run |-> run,
         status |-> Len(db.statuses), attempt |-> intake.attempt, raw |-> intake.raw,
         result |-> document])]

-----------------------------------------------------------------------------
(* Evaluations and their finding events.                                    *)

\* A watermark names a report of the instance by its exact receipt.
ValidWatermark(db, watermark) ==
    IF watermark.sequence = NoReport THEN watermark.received = NoTime
    ELSE /\ watermark.sequence \in DOMAIN db.reports
         /\ db.reports[watermark.sequence].instance = watermark.instance
         /\ db.reports[watermark.sequence].received = watermark.received

ReportOfRun(db, run) ==
    {r \in Rows(db.reports) : db.submissions[r.submission].run = run}

AdmissionOfRun(db, run) ==
    db.admissions[(CHOOSE r \in Rows(db.runs) : r.id = run).bound.admission]

\* A triggered evaluation is of an admitted run, by the evaluator and profile
\* its admission binds, and its watermark is that run's own report.
TriggerAccepted(db, e) ==
    /\ ReportOfRun(db, e.trigger) # {}
    /\ LET report == CHOOSE r \in ReportOfRun(db, e.trigger) : TRUE
       IN /\ e.evaluator = AdmissionOfRun(db, e.trigger).evaluator
          /\ e.profile = report.profile
          /\ e.watermark.instance = report.instance
          /\ e.watermark.sequence = report.sequence

FindingAgreesWithEvaluation(event, e) ==
    /\ event.lineage.profile = e.profile
    /\ event.refusal = e.result.refusal
    /\ event.kind = "resolved" =>
         /\ e.result.state = "explicitly_absent"
         /\ event.condition = "explicitly_absent"
         /\ event.visibility = "sufficient"
    /\ e.result.state # "cannot_evaluate" => event.condition = e.result.state
    /\ e.result.state = "cannot_evaluate" => event.kind \notin {"resolved", "opened"}

\* An event opens a finding or extends it in its lineage; what cannot evaluate
\* keeps the condition; evidence is admitted and not newer than the watermark.
FindingEventAccepted(db, event, e) ==
    LET exists == event.finding \in DOMAIN db.findingCurrent
        current == db.events[db.findingCurrent[event.finding]]
    IN /\ exists <=> event.kind # "opened"
       /\ exists => current.lineage = event.lineage
       /\ e.result.state = "cannot_evaluate" =>
            /\ exists
            /\ event.visibility # "sufficient"
            /\ event.condition = current.condition
       /\ \A cited \in event.evidence :
            /\ cited # None
            /\ \E r \in Rows(db.reports) :
                 /\ r.id = cited.report /\ r.document = cited.digest
                 /\ r.instance = e.watermark.instance
                 /\ r.sequence <= e.watermark.sequence

EvaluationAccepted(db, input) ==
    LET e == input.envelope
    IN /\ (e.result.state = "cannot_evaluate") <=> (e.result.refusal # None)
       /\ e.trigger # NoRun => TriggerAccepted(db, e)
       /\ ValidWatermark(db, e.watermark)
       /\ e.result.refusal # None =>
            /\ e.result.refusal.origin = "profile"
            /\ e.result.refusal.instance = e.watermark.instance
            /\ e.result.refusal.source.profile = e.profile
       /\ input.event # None =>
            FindingAgreesWithEvaluation(input.event, e) /\ FindingEventAccepted(db, input.event, e)

InsertFindingEvent(db, event, revision) ==
    LET exists == event.finding \in DOMAIN db.findingCurrent
        row == event @@
               [evaluation |-> Len(db.evaluations), evaluationRevision |-> revision,
                revision |-> IF exists THEN db.events[db.findingCurrent[event.finding]].revision + 1
                             ELSE 1]
    IN [db EXCEPT !.events = Append(@, row),
                  !.findingCurrent = (event.finding :> Len(db.events) + 1) @@ @]

\* The revision counts the evaluations of a detector over all instances; the
\* sequence counts all evaluations.
InsertEvaluation(db, input) ==
    LET e == input.envelope
        revision == Max({0} \cup {r.revision : r \in
                           {q \in Rows(db.evaluations) : q.detector = e.detector}}) + 1
        stored == [db EXCEPT !.evaluations = Append(@,
                     [id |-> e.id, sequence |-> Len(db.evaluations) + 1, trigger |-> e.trigger,
                      detector |-> e.detector, evaluator |-> e.evaluator, profile |-> e.profile,
                      revision |-> revision, outcome |-> e.result.state,
                      watermark |-> e.watermark, detail |-> e])]
        refused == IF e.result.refusal = None THEN stored
                   ELSE [stored EXCEPT !.refusals = Append(@,
                           RefusalRow(e.result.refusal, NoRun, NoRow,
                                      Len(stored.evaluations), e.profile))]
    IN IF input.event = None THEN refused ELSE InsertFindingEvent(refused, input.event, revision)

\* Several evaluations are inserted one after another, and all or none stay.
InsertEvaluations(db, prepared) ==
    LET upTo[k \in 0 .. Len(prepared)] ==
          IF k = 0 THEN [accepted |-> TRUE, db |-> db]
          ELSE LET before == upTo[k - 1]
               IN IF before.accepted /\ EvaluationAccepted(before.db, prepared[k])
                  THEN [accepted |-> TRUE, db |-> InsertEvaluation(before.db, prepared[k])]
                  ELSE [accepted |-> FALSE, db |-> db]
    IN upTo[Len(prepared)]
=============================================================================
