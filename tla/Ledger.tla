------------------------------- MODULE Ledger -------------------------------
(***************************************************************************)
(* The evidence ledger: collections of several instances, freshness sweeps,  *)
(* restarts and a status reader over one database.                           *)
(*                                                                          *)
(* Each instance has a worker with its own store handle.  A handle remembers *)
(* how far it has validated the history, so the rows of the other workers    *)
(* are new to it when it commits next.  Admission itself (drafts, locks and  *)
(* the pending ledger) is Binding.tla; here an admission is one append.      *)
(*                                                                          *)
(* Source: crates/nq-core/src/engine.rs, crates/nq-app/src/daemon.rs.        *)
(***************************************************************************)
EXTENDS EngineValidation, TLC

CONSTANTS
    Contexts,        \* subject, scope and vantage a watcher may be configured with
    ProfileOf(_),    \* the profile generation a watcher is configured with
    Evaluators,      \* evaluator artifacts, one per installed binary, from 1
    LockErrors,      \* engine errors met while the active lock is read
    ExecutionErrors, \* admission errors met while the helper is opened and verified
    Captures(_),     \* what the exchange of the n-th operation may capture
    MaxOperations,   \* bound on collections, sweeps, restarts and status reads together
    MaxTime,         \* bound on the clock
    MaxAdmissions    \* bound on admissions

VARIABLES
    db,         \* the committed database
    handle,     \* per instance: how far its store handle has validated
    evaluator,  \* artifact of the running binary
    context,    \* per instance: the configured context
    exchange,   \* per instance: the exchange in flight
    operations, \* collections, sweeps, restarts and status reads begun
    now,        \* wall clock
    restarts,   \* restarts of the daemon so far
    reader      \* the status reader

vars == <<db, handle, evaluator, context, exchange, operations, now, restarts, reader>>

Idle == None
NoSnapshot == [phase |-> "idle"]

Watcher(i) == [instance |-> i, profile |-> ProfileOf(i), context |-> context[i]]

Init ==
    /\ db = EmptyDatabase
    /\ handle = [i \in Instances |-> FullScope]
    /\ evaluator = 1
    /\ context \in [Instances -> {CHOOSE c \in Contexts : TRUE}]
    /\ exchange = [i \in Instances |-> Idle]
    /\ operations = 0
    /\ now = 1
    /\ restarts = 0
    /\ reader = NoSnapshot

-----------------------------------------------------------------------------
(* Admission and configuration.                                             *)

\* The instance guard: no admission, sweep or second collection of an instance
\* while one of its exchanges is in flight.
Guarded(i) == exchange[i] = Idle

\* What the active lock of an instance says against its configuration.
ActiveBinding(i) ==
    LET a == db.active[i]
    IN IF a = NoAdmission THEN "missing"
       ELSE IF db.admissions[a].binding # context[i] THEN "drifted"
       ELSE "bound"

\* The operator admits a watcher, or rotates the admission it has.
Admit(i) ==
    /\ Guarded(i)
    /\ Len(db.admissions) < MaxAdmissions
    /\ db' = [db EXCEPT
         !.admissions = Append(@, [instance |-> i, profile |-> ProfileOf(i),
                                   evaluator |-> evaluator, binding |-> context[i]]),
         !.active[i] = Len(db.admissions) + 1]
    /\ UNCHANGED <<handle, evaluator, context, exchange, operations, now, restarts, reader>>

\* A result with no run is a status of its instance and nothing else.
StatusOf(o) ==
    [component |-> o.instance, run |-> o.run, document |-> o,
     state |-> InstanceStatusProjection(o)[1], code |-> InstanceStatusProjection(o)[2]]

\* Why a collection may be refused before it has a run: no active lock, a
\* lock that cannot be read, or an execution that does not match the lock.
CollectionRefusals(i) ==
    IF ActiveBinding(i) = "missing" THEN {RefusalWithDetails(i, "none")}
    ELSE {AdmissionRefusalFrom(i, "active_binding", e) : e \in LockErrors} \cup
         {RefusalWithDetails(i, AdmissionErrorDetails[e]) :
            e \in IF ActiveBinding(i) = "drifted" THEN {"ConfigDrift"} ELSE ExecutionErrors}

RefuseCollection(i) ==
    /\ Guarded(i)
    /\ operations < MaxOperations
    /\ operations' = operations + 1
    /\ \E refusal \in CollectionRefusals(i) :
         db' = InsertStatusEvent(db, StatusOf(AdmissionRefusedOutcome(i, refusal)))
    /\ UNCHANGED <<handle, evaluator, context, exchange, now, restarts, reader>>

-----------------------------------------------------------------------------
(* One collection: dispatch, exchange, commit.                              *)

\* The exchange with the helper of a bound watcher, and what it captured; a
\* report says when it was observed.
Exchange(i, capture) ==
    /\ Guarded(i)
    /\ ActiveBinding(i) = "bound"
    /\ operations < MaxOperations
    /\ operations' = operations + 1
    /\ exchange' = [exchange EXCEPT ![i] =
         [run |-> <<i, operations + 1>>, admission |-> db.active[i], watcher |-> Watcher(i),
          evaluator |-> db.admissions[db.active[i]].evaluator,
          outcome |-> capture.outcome, started |-> now, finished |-> now,
          raw |-> IF capture.raw.kind # "report" THEN capture.raw
                  ELSE [kind |-> "report", profile |-> ProfileOf(i), context |-> context[i],
                        verdict |-> capture.raw.verdict, status |-> capture.raw.status,
                        conditions |-> capture.raw.conditions,
                        observed |-> now + capture.raw.ahead]]]
    /\ UNCHANGED <<db, handle, evaluator, context, now, restarts, reader>>

\* The intake of a capture and the run it is bound to.
Bound(x) ==
    [admission |-> x.admission, binding |-> x.watcher.context, instance |-> x.watcher.instance,
     profile |-> x.watcher.profile, request |-> x.run, started |-> x.started,
     deadline |-> x.started + 1, finished |-> x.finished,
     outcome |-> ProjectedOutcome(x.outcome)]

IntakeFromCapture(x) ==
    LET attempt == <<"attempt">> \o x.run
    IN [key |-> IdempotencyKey(x.admission, attempt), attempt |-> attempt, run |-> x.run,
        bound |-> Bound(x), resource |-> x.outcome, received |-> x.finished, raw |-> x.raw,
        interpretation |-> InterpretResponse(x), evaluator |-> x.evaluator]

RejectedSubmission(x, refusal) ==
    [raw |-> x.raw, received |-> x.finished, admission |-> "rejected",
     protocol |-> ExpectedProtocolOutcome(refusal.origin), refusal |-> refusal]

\* Bytes retained from a failed transport are received but refused.
RejectedTransportSubmission(x) ==
    IF ~ Retained(x.raw) THEN None
    ELSE RejectedSubmission(x, AcquisitionRefusal(x.run, x.watcher.instance, x.outcome))

\* The store's row for an accepted report.
StoreReport(x) ==
    [id |-> x.run, sequence |-> NoRow, instance |-> x.watcher.instance,
     profile |-> x.watcher.profile, status |-> x.raw.status, document |-> x.raw,
     observed |-> x.raw.observed, received |-> x.finished]

\* A report the profile refuses is custody with a refusal; one it accepts is
\* admitted.
ReportSubmission(x) ==
    LET verdict == ProfileVerdict(x.raw, x.finished)
    IN IF verdict # "valid"
       THEN RejectedSubmission(x, ProfileRefusal(x.run, x.watcher.instance, x.watcher.profile,
                                                 "report", verdict))
       ELSE [raw |-> x.raw, received |-> x.finished, admission |-> "admitted",
             protocol |-> "valid_report", report |-> StoreReport(x)]

\* Custody of a capture, by how far its bytes got.
SubmissionOf(x) ==
    LET i == x.watcher.instance
        interpretation == InterpretResponse(x)
    IN CASE interpretation.kind = "unavailable" -> RejectedTransportSubmission(x)
         [] interpretation.kind = "protocol_rejected" ->
              RejectedSubmission(x, ProtocolRefusal(x.run, i, interpretation.failure))
         [] interpretation.kind = "provider_refusal" ->
              RejectedSubmission(x, HelperRefusal(x.run, i, interpretation.code))
         [] interpretation.kind = "candidate_report" -> ReportSubmission(x)

CollectionOf(x) ==
    [run |-> [id |-> x.run, bound |-> Bound(x), resource |-> x.outcome],
     intake |-> IntakeFromCapture(x), submission |-> SubmissionOf(x)]

\* The result of a capture that admits nothing.
NonSuccessOutcome(x) ==
    IF SubmissionOf(x) = None THEN AcquisitionFailedOutcome(x.watcher.instance, x.run, x.outcome)
    ELSE RejectedOutcome(x.watcher.instance, x.run, SubmissionOf(x).refusal)

\* The database a transaction builds, or NoCommit when an input is refused.
NoCommit == None

NonSuccessCollection(c, o) ==
    IF /\ DownstreamAgrees(c.intake, o)
       /\ ValidNonSuccessInput(c, StatusOf(o))
       /\ CollectionAccepted(db, c)
    THEN InsertAcknowledgment(InsertStatusEvent(InsertCollection(db, c), StatusOf(o)),
                              c.intake, c.run.id, o)
    ELSE NoCommit

\* The evaluations an admitted report triggers, on the transaction's own view.
TriggeredEvaluations(x, c) ==
    LET held == InsertCollection(db, c)
    IN PrepareInstanceEvaluations(Len(db.evaluations) + 1, x.watcher, x.run,
         [reports |-> {r \in Rows(held.reports) : r.instance = x.watcher.instance},
          expired |-> {}],
         CurrentFindings(held), evaluator, now, NoReport)

\* An admitted report, its evaluations and its status in one transaction that
\* first validates what the other workers committed since this handle's last.
AdmittedCollection(scope, c, prepared, o) ==
    LET judged == InsertEvaluations(InsertCollection(db, c), prepared)
    IN IF /\ CollectionAccepted(db, c)
          /\ EvaluationHistory(db, scope)
          /\ DownstreamAgrees(c.intake, o)
          /\ ValidAdmittedCompletion(c, StatusOf(o), prepared)
          /\ judged.accepted
       THEN InsertAcknowledgment(InsertStatusEvent(judged.db, StatusOf(o)),
                                 c.intake, c.run.id, o)
       ELSE NoCommit

CollectionTransaction(i, c, prepared) ==
    IF IsAdmittedCollection(c)
    THEN AdmittedCollection(handle[i], c, prepared,
           AdmittedOutcome(i, c.run.id, c.submission.report, Envelopes(prepared)))
    ELSE NonSuccessCollection(c, NonSuccessOutcome(exchange[i]))

\* All rows of a collection, re-checked from the handle's frontier, or none.
\* The worker ends the collection either way; an error is only logged.
Commit(i) ==
    /\ exchange[i] # Idle
    /\ \E c \in {CollectionOf(exchange[i])} :
       \E prepared \in {IF IsAdmittedCollection(c) THEN TriggeredEvaluations(exchange[i], c)
                       ELSE <<>>} :
       \E new \in {CollectionTransaction(i, c, prepared)} :
         IF new # NoCommit /\ ValidAppend(new, handle[i])
         THEN db' = new /\ handle' = [handle EXCEPT ![i] = CaptureBounds(new)]
         ELSE UNCHANGED <<db, handle>>
    /\ exchange' = [exchange EXCEPT ![i] = Idle]
    /\ UNCHANGED <<evaluator, context, operations, now, restarts, reader>>

-----------------------------------------------------------------------------
(* Freshness sweeps, time, configuration and restarts.                      *)

\* Every detector of a bound watcher judges the reports it already has; the
\* evaluations of a sweep are recorded together or, on an error, not at all.
SweptEvaluations(i) ==
    PrepareInstanceEvaluations(Len(db.evaluations) + 1, Watcher(i), NoRun,
        [reports |-> {r \in Rows(db.reports) : r.instance = i}, expired |-> {}],
        CurrentFindings(db), evaluator, now, NoReport)

FreshnessSweep(i) ==
    /\ Guarded(i)
    /\ ActiveBinding(i) = "bound"
    /\ operations < MaxOperations
    /\ operations' = operations + 1
    /\ \E prepared \in {SweptEvaluations(i)} :
       \E judged \in {InsertEvaluations(db, prepared)} :
         IF /\ EvaluationHistory(db, handle[i])
            /\ judged.accepted
            /\ ValidAppend(judged.db, handle[i])
         THEN db' = judged.db /\ handle' = [handle EXCEPT ![i] = CaptureBounds(judged.db)]
         ELSE UNCHANGED <<db, handle>>
    /\ UNCHANGED <<evaluator, context, exchange, now, restarts, reader>>

Tick ==
    /\ now < MaxTime
    /\ now' = now + 1
    /\ UNCHANGED <<db, handle, evaluator, context, exchange, operations, restarts, reader>>

\* The daemon stops and starts again, as it was, with another binary or with
\* one watcher's configuration edited.  Exchanges in flight and status reads
\* are lost; the new handles have validated the whole history they opened.
Opens == ValidHistory(db, FullScope) /\ SemanticHistory(db, FullScope)

Restart(e, edited) ==
    /\ operations \in 1 .. MaxOperations - 1
    /\ operations' = operations + 1
    /\ restarts' = restarts + 1
    /\ IF Opens THEN handle' = [i \in Instances |-> CaptureBounds(db)] ELSE FALSE
    /\ evaluator' = e
    /\ context' = edited
    /\ exchange' = [i \in Instances |-> Idle]
    /\ reader' = NoSnapshot
    /\ UNCHANGED <<db, now>>

Upgrade == \E e \in Evaluators : e > evaluator /\ Restart(e, context)

Reconfigure ==
    \E i \in Instances, c \in Contexts : Restart(evaluator, [context EXCEPT ![i] = c])

-----------------------------------------------------------------------------
(* A status reader: four reads, none of them in one transaction.  Only a     *)
(* reader that starts while a collection is in flight is of interest.         *)

LatestEvaluations(evaluations, through) ==
    {n \in 1 .. through :
       \A m \in 1 .. through :
           EnvelopeLineage(evaluations[m].detail) = EnvelopeLineage(evaluations[n].detail)
           => evaluations[m].revision <= evaluations[n].revision}

ReadStatusBefore ==
    /\ reader = NoSnapshot
    /\ \E i \in Instances : exchange[i] # Idle
    /\ operations < MaxOperations
    /\ operations' = operations + 1
    /\ reader' = [phase |-> "rows", before |-> Len(db.statuses)]
    /\ UNCHANGED <<db, handle, evaluator, context, exchange, now, restarts>>

ReadRows ==
    /\ reader.phase = "rows"
    /\ reader' = [reader EXCEPT !.phase = "bound"] @@ [rows |-> db.statusCurrent]
    /\ UNCHANGED <<db, handle, evaluator, context, exchange, operations, now, restarts>>

SelectLatest ==
    /\ reader.phase = "bound"
    /\ reader' = [reader EXCEPT !.phase = "selected"] @@
                 [through |-> Len(db.evaluations),
                  latest |-> LatestEvaluations(db.evaluations, Len(db.evaluations))]
    /\ UNCHANGED <<db, handle, evaluator, context, exchange, operations, now, restarts>>

\* Captured when no status was recorded meanwhile, tried again otherwise.
ReadStatusAgainUnchecked ==
    /\ reader.phase = "selected"
    /\ reader' = [reader EXCEPT !.phase = "captured"]
    /\ UNCHANGED <<db, handle, evaluator, context, exchange, operations, now, restarts>>

ReadStatusAgain ==
    /\ reader.phase = "selected"
    /\ reader' = IF reader.before = Len(db.statuses) THEN [reader EXCEPT !.phase = "captured"]
                 ELSE NoSnapshot
    /\ UNCHANGED <<db, handle, evaluator, context, exchange, operations, now, restarts>>

Next ==
    \/ \E i \in Instances : \/ Admit(i) \/ RefuseCollection(i)
                            \/ \E c \in Captures(operations + 1) : Exchange(i, c)
                            \/ Commit(i) \/ FreshnessSweep(i)
    \/ Tick \/ Upgrade \/ Reconfigure
    \/ ReadStatusBefore \/ ReadRows \/ SelectLatest \/ ReadStatusAgain

\* Bound: nothing is explored beyond a captured snapshot.
UntilCaptured == reader.phase # "captured"

Spec == Init /\ [][Next]_vars

-----------------------------------------------------------------------------
(* Properties.                                                              *)

\* Every history the workers can commit is one that opening the store accepts:
\* all store and engine validators hold of it, run from nothing and run from
\* any worker's frontier.  A commit whose rows a later validation refuses
\* would leave a database no daemon can open.
HistoryReopens ==
    /\ Opens
    /\ \A i \in Instances : ValidHistory(db, handle[i]) /\ SemanticHistory(db, handle[i])

\* The determinate evaluations of a lineage, oldest first.
DeterminateEvaluations(lineage) ==
    {n \in DOMAIN db.evaluations :
       /\ EnvelopeLineage(db.evaluations[n].detail) = lineage
       /\ db.evaluations[n].outcome # "cannot_evaluate"}

\* A finding shown as open or resolved is what the newest determinate
\* evaluation of its lineage found, and a lineage found present has exactly
\* one finding, whatever partial, stale or missing evidence came between.
FindingFollowsEvaluations ==
    LET lineages == {EnvelopeLineage(e.detail) : e \in Rows(db.evaluations)}
        shown(lineage) == {f \in CurrentFindings(db) : f.lineage = lineage}
        known(lineage) == {db.evaluations[n].outcome : n \in DeterminateEvaluations(lineage)}
    IN \A lineage \in lineages :
         /\ Cardinality(shown(lineage)) = IF "present" \in known(lineage) THEN 1 ELSE 0
         /\ \A f \in shown(lineage) :
              f.condition = db.evaluations[Newest(DeterminateEvaluations(lineage))].outcome

\* A finding is only ever resolved by the newest report its watcher had, in
\* the finding's own context, complete, without the condition, and still
\* within its reliance when it was judged.
ResolvedByNewestAbsence ==
    \A event \in Rows(db.events) :
        event.kind = "resolved" =>
          LET e == db.evaluations[event.evaluation].detail
              seen == {r \in Rows(db.reports) :
                         /\ r.sequence <= e.watermark.sequence
                         /\ r.instance = event.lineage.instance
                         /\ r.document.context = event.lineage.context}
          IN \E cited \in event.evidence :
               /\ cited.sequence = NewestReport(seen).sequence
               /\ NewestReport(seen).status = "complete"
               /\ event.lineage.detector \notin NewestReport(seen).document.conditions
               /\ e.evaluated <= NewestReport(seen).observed + Reliance

\* What the findings show is what the newest evaluations and reports of their
\* lineages say.
FindingsAreCurrent == FindingFollowsEvaluations /\ ResolvedByNewestAbsence

\* A captured status snapshot is of one moment: the status it shows for an
\* instance embeds no evaluation beyond the declared bound, and no evaluation
\* within the bound belongs to a collection newer than that status.
SnapshotIsOneMoment ==
    reader.phase = "captured" =>
      \A i \in Instances :
        /\ reader.rows[i] # NoRow /\ db.statuses[reader.rows[i]].run # NoRun =>
             \A n \in EvaluationsOf(db, db.statuses[reader.rows[i]].run) :
               /\ n <= reader.through
               /\ \E m \in reader.latest :
                    /\ m >= n
                    /\ EnvelopeLineage(db.evaluations[m].detail)
                         = EnvelopeLineage(db.evaluations[n].detail)
        /\ \A k \in DOMAIN db.statuses :
             /\ db.statuses[k].component = i /\ db.statuses[k].run # NoRun
             /\ \E n \in EvaluationsOf(db, db.statuses[k].run) : n <= reader.through
             => k <= reader.rows[i]

\* Whatever a helper exchange captured is recorded: its intake is committed
\* with its run and its result, unless the daemon stops first or runs another
\* evaluator than the one the active admission binds.
EveryExchangeIsRecorded ==
    [][\A i \in Instances :
         /\ exchange[i] # Idle /\ exchange'[i] = Idle
         /\ exchange[i].evaluator = evaluator
         /\ restarts' = restarts
         => \E intake \in Rows(db'.intakes) : intake.run = exchange[i].run]_vars
=============================================================================
