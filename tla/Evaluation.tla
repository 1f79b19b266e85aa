----------------------------- MODULE Evaluation -----------------------------
(***************************************************************************)
(* What an evaluation computes from the admitted reports of an instance, the *)
(* finding event that follows from it, and the replay that decides, from the *)
(* committed history alone, whether each event was the one required.         *)
(*                                                                          *)
(* A context stands for the subject, scope and vantage of a watcher.  The    *)
(* summary and limitation texts of a result stand for its state.             *)
(*                                                                          *)
(* Source: crates/nq-core/src/engine.rs, crates/nq-profiles/src/host.rs.     *)
(***************************************************************************)
EXTENDS Outcomes, FiniteSets

LOCAL INSTANCE SequencesExt

CONSTANTS
    Reliance,        \* how long a report may be relied on after it was observed
    DetectorsOf(_)   \* detector numbers of a compiled profile generation

NoReport == 0
NoTime == 0

\* The newest of a set of report rows, by the order the store gave them.
NewestReport(rows) == CHOOSE r \in rows : \A q \in rows : q.sequence <= r.sequence

\* The rows of one watcher's evaluation context: same profile contract, same
\* subject, scope and vantage, read from the stored report itself.
ReportMatchesContext(row, w) ==
    /\ row.profile = w.profile
    /\ row.document.profile = w.profile
    /\ row.document.context = w.context

EvaluationContextRows(rows, w) == {r \in rows : ReportMatchesContext(r, w)}

DetectIgnoringAge(d, i, reports, at) ==
    LET newest == NewestReport({r \in reports : r.instance = i})
    IN IF {r \in reports : r.instance = i} = {} \/ newest.status # "complete"
       THEN [state |-> "cannot_evaluate", evidence |-> {}, reason |-> "missing_testimony"]
       ELSE [state |-> IF d \in newest.document.conditions THEN "present" ELSE "explicitly_absent",
             evidence |-> {[report |-> newest.id, sequence |-> newest.sequence,
                            digest |-> newest.document, observed |-> newest.observed]},
             reason |-> "none"]

\* A compiled detector: it relies on the newest report only, and only while it
\* is complete and fresh; an older success never shadows it.
Detect(d, i, reports, at) ==
    LET mine == {r \in reports : r.instance = i}
        newest == NewestReport(mine)
        cannot(reason) == [state |-> "cannot_evaluate", evidence |-> {}, reason |-> reason]
    IN IF mine = {} THEN cannot("missing_testimony")
       ELSE IF newest.status # "complete" THEN cannot("incomplete_coverage")
       ELSE IF at < newest.observed \/ at - newest.observed > Reliance
            THEN cannot("invalid_freshness")
       ELSE [state |-> IF d \in newest.document.conditions THEN "present" ELSE "explicitly_absent",
             evidence |-> {[report |-> newest.id, sequence |-> newest.sequence,
                            digest |-> newest.document, observed |-> newest.observed]},
             reason |-> "none"]

\* The watermark of an evaluation: the newest matching report and its receipt.
EvaluationWatermark(i, matching) ==
    IF matching = {} THEN [instance |-> i, sequence |-> NoReport, received |-> NoTime]
    ELSE [instance |-> i, sequence |-> NewestReport(matching).sequence,
          received |-> NewestReport(matching).received]

\* A governed refusal accompanies exactly the results that could not evaluate.
GovernedEvaluationResult(id, w, watermark, result) ==
    [profile |-> w.profile, state |-> result.state, evidence |-> result.evidence,
     watermark |-> watermark.sequence,
     refusal |-> IF result.state = "cannot_evaluate"
                 THEN ProfileRefusal(id, w.instance, w.profile, "detector", "cannot_evaluate")
                 ELSE None]

Envelope(id, trigger, w, d, evaluator, at, watermark, result) ==
    [id |-> id, trigger |-> trigger, instance |-> w.instance, context |-> w.context,
     detector |-> d, evaluator |-> evaluator, profile |-> w.profile,
     started |-> at, evaluated |-> at, watermark |-> watermark,
     result |-> GovernedEvaluationResult(id, w, watermark, result)]

\* What makes two events steps of the same finding.
Lineage(w, d) ==
    [instance |-> w.instance, detector |-> d, profile |-> w.profile, context |-> w.context]

FindCurrentFinding(current, lineage) == {f \in current : f.lineage = lineage}

-----------------------------------------------------------------------------
(* The finding event of an evaluation.                                      *)

\* Only explicit absence resolves; a result that cannot evaluate changes the
\* visibility of a finding and nothing else about it.
EventKind(prior, state) ==
    CASE prior = None /\ state = "present" -> "opened"
      [] prior # None /\ state = "present" /\ prior.condition = "explicitly_absent" -> "reopened"
      [] prior # None /\ state = "explicitly_absent" -> "resolved"
      [] OTHER -> "updated"

VisibilityByAge(state, at, rows) ==
    IF state # "cannot_evaluate" THEN "sufficient"
    ELSE IF rows = {} THEN "missing"
    ELSE IF at > NewestReport(rows).observed + Reliance THEN "stale"
    ELSE "refused"

VisibilityFor(state, at, rows) ==
    IF state # "cannot_evaluate" THEN "sufficient"
    ELSE IF rows = {} THEN "missing"
    ELSE IF NewestReport(rows).status \in {"partial", "failed"} THEN "partial"
    ELSE IF at > NewestReport(rows).observed + Reliance THEN "stale"
    ELSE "refused"

\* The citations of an event: those of the result, each a row at the watermark,
\* or, from an empty result, those the finding already had, each still a row or
\* a source-expired citation.  No event is built from a citation outside both.
CitationsKnown(evidence, rows) ==
    \A e \in evidence :
        \E r \in rows : r.id = e.report /\ r.sequence = e.sequence /\ r.document = e.digest

RetainedEvidence(prior, rows, expired) ==
    IF \A e \in prior.evidence :
          \E r \in rows \cup expired : r.id = e.report /\ r.document = e.digest
    THEN prior.evidence ELSE {None}

FindingEvidence(prior, result, rows, expired) ==
    IF result.evidence # {} THEN
        IF CitationsKnown(result.evidence, rows) THEN result.evidence ELSE {None}
    ELSE IF prior = None THEN {}
    ELSE RetainedEvidence(prior, rows, expired)

NoEventNeeded(prior, state) ==
    \/ prior = None /\ state # "present"
    \/ prior # None /\ prior.condition = "explicitly_absent" /\ state = "explicitly_absent"

BuildFindingEvent(id, w, d, result, refusal, at, prior, rows, expired) ==
    LET evidence == FindingEvidence(prior, result, rows, expired)
        cited == {r \in rows \cup expired : \E e \in evidence : r.id = e.report}
        cannot == result.state = "cannot_evaluate"
    IN [lineage |-> Lineage(w, d),
        finding |-> IF prior = None THEN id ELSE prior.finding,
        kind |-> EventKind(prior, result.state),
        condition |-> IF ~ cannot THEN result.state
                      ELSE IF prior = None THEN "cannot_evaluate" ELSE prior.condition,
        visibility |-> VisibilityFor(result.state, at, rows),
        severity |-> CASE result.state = "present" -> "warning"
                       [] result.state = "explicitly_absent" -> "info"
                       [] OTHER -> IF prior = None THEN "info" ELSE prior.severity,
        summary |-> IF cannot /\ prior # None THEN prior.summary ELSE result.state,
        observed |-> IF cited = {} THEN NoTime ELSE NewestReport(cited).observed,
        received |-> IF cited = {} THEN NoTime ELSE NewestReport(cited).received,
        created |-> at, refusal |-> refusal, evidence |-> evidence]

-----------------------------------------------------------------------------
(* An evaluation of one watcher: one envelope, and at most one event, for    *)
(* every detector of its profile, in detector order.                        *)

\* Reports a detector reads: all that match, or only the one just admitted.
SelectReports(matching, selection) ==
    IF selection = NoReport THEN matching ELSE {r \in matching : r.id = selection}

PrepareEvaluation(id, w, d, trigger, snapshot, current, evaluator, at, selection) ==
    LET matching == EvaluationContextRows(snapshot.reports, w)
        result == Detect(d, w.instance, SelectReports(matching, selection), at)
        envelope == Envelope(id, trigger, w, d, evaluator, at,
                             EvaluationWatermark(w.instance, matching), result)
        found == FindCurrentFinding(current, Lineage(w, d))
        prior == IF found = {} THEN None ELSE CHOOSE f \in found : TRUE
    IN [envelope |-> envelope,
        event |-> IF NoEventNeeded(prior, result.state) THEN None
                  ELSE BuildFindingEvent(id, w, d, result, envelope.result.refusal, at,
                                         prior, matching, snapshot.expired)]

InOrder(S) == SetToSortSeq(S, LAMBDA x, y : x < y)

Newest(S) == CHOOSE n \in S : \A m \in S : m <= n

PrepareInstanceEvaluations(next, w, trigger, snapshot, current, evaluator, at, selection) ==
    LET suite == InOrder(DetectorsOf(w.profile))
    IN FoldLeft(LAMBDA prepared, d :
                  Append(prepared, PrepareEvaluation(next + Len(prepared), w, d, trigger,
                                     snapshot, current, evaluator, at, selection)),
                <<>>, suite)

Envelopes(prepared) == FoldLeft(LAMBDA acc, p : Append(acc, p.envelope), <<>>, prepared)

-----------------------------------------------------------------------------
(* Replay: what the committed evaluations of a lineage require of each event.*)

RequiresEvent(state, prior) ==
    CASE state = "present" -> TRUE
      [] state = "cannot_evaluate" -> prior # None
      [] state = "explicitly_absent" -> prior # None /\ prior.condition # "explicitly_absent"

\* One evaluation extends its lineage: the event it requires and no other, at
\* revision one when it opens the lineage and at the next one otherwise.
ReplayStep(state, event, prior) ==
    /\ RequiresEvent(state, prior) <=> event # None
    /\ event # None =>
         IF prior = None THEN event.revision = 1 /\ event.kind = "opened"
         ELSE event.finding = prior.finding /\ event.revision = prior.revision + 1

\* What an event must say, recomputed from its evaluation and the event before it.
ExpectedVisibility(envelope, atWatermark) ==
    IF envelope.result.state # "cannot_evaluate" THEN "sufficient"
    ELSE IF envelope.watermark.sequence = NoReport THEN "missing"
    ELSE IF atWatermark.status \in {"partial", "failed"} THEN "partial"
    ELSE IF envelope.evaluated > atWatermark.observed + Reliance THEN "stale"
    ELSE "refused"

FindingProjection(envelope, event, prior, atWatermark, cited) ==
    IF event = None THEN envelope.result.state # "present"
    ELSE LET state == envelope.result.state IN
         /\ event.lineage = [instance |-> envelope.instance, detector |-> envelope.detector,
                             profile |-> envelope.profile, context |-> envelope.context]
         /\ event.visibility = ExpectedVisibility(envelope, atWatermark)
         /\ event.severity = (CASE state = "present" -> "warning"
                                [] state = "explicitly_absent" -> "info"
                                [] OTHER -> prior.severity)
         /\ event.summary = (IF state = "cannot_evaluate" THEN prior.summary ELSE state)
         /\ event.observed = (IF cited = {} THEN NoTime ELSE NewestReport(cited).observed)
         /\ event.received = (IF cited = {} THEN NoTime ELSE NewestReport(cited).received)
         /\ event.created = envelope.evaluated
         /\ IF state = "cannot_evaluate"
            THEN event.kind \notin {"opened", "resolved"} /\ event.visibility # "sufficient"
            ELSE event.condition = state
         /\ event.kind = EventKind(prior, state)
         /\ event.kind # "opened" => prior # None
=============================================================================
