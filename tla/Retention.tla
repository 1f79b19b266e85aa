----------------------------- MODULE Retention -----------------------------
(***************************************************************************)
(* Evaluation history, findings and expiry in one store.                    *)
(*                                                                          *)
(* A collection appends a watcher run with its provider intake, its status   *)
(* event and, when a report is admitted, the report and the evaluation it    *)
(* triggers (engine.rs, collect_internal).  A freshness sweep appends an     *)
(* evaluation alone (evaluate_instance).  An evaluation may append a finding *)
(* event.  Expiry (nq-store, retention.rs) deletes aged rows, keeps those a   *)
(* root still needs whole, and reduces to compact records those that a       *)
(* retained finding row still names.                                         *)
(*                                                                          *)
(* What a row says never changes, so it is recorded once, in "runs",         *)
(* "statuses" and "evals", at the index the store's sequence column gives it; *)
(* which rows still exist, and in which form, is "db".  One run stands for   *)
(* its whole closure (run, submission, report, intake, acknowledgment,       *)
(* status event): expiry keeps, compacts or deletes the closure as one.      *)
(*   db.runs       the runs whose closure is whole;                          *)
(*   db.anchors    those of which only the compact report, submission and    *)
(*                 run rows are left (the intake row of a run that is not    *)
(*                 whole is a retired identity commitment);                  *)
(*   db.evals      the evaluations that are whole;                           *)
(*   db.decisions  those reduced to a compact decision record;               *)
(*   db.floor      the expired-through floors, 0 before the first expiry.    *)
(***************************************************************************)
EXTENDS Integers, Sequences, FiniteSets, FiniteSetsExt, Functions

CONSTANTS
    Lineages,     \* evaluation lineages: a watcher configured on a subject, scope and vantage
    Instance,     \* the watcher instance of each lineage
    Samples,      \* what a report may say: [shows, ckpt]
    Batches,      \* how many runs beyond the floors one expiry may consider
    AnyEvent,     \* whether a notification may be bound to an event that is not the latest
    ClockSteps,   \* whether the wall clock may be set back between expiries
    MaxCommits,      \* bound on the commits that append rows
    MaxOf,           \* bound on those of each lineage
    MaxQuiet,        \* bound on those that admit no report and evaluate nothing
    MaxDiagnostics,  \* bound on the runs a diagnostic artifact names
    MaxCustody       \* bound on the deliveries in progress at once

ASSUME RetentionAssumption ==
    /\ DOMAIN Instance = Lineages
    /\ Samples \subseteq [shows : {"present", "absent", "partial"}, ckpt : BOOLEAN]
    /\ Batches \subseteq Nat \ {0}
    /\ AnyEvent \in BOOLEAN /\ ClockSteps \in BOOLEAN
    /\ MaxOf \in [Lineages -> Nat]
    /\ {MaxCommits, MaxQuiet, MaxDiagnostics, MaxCustody} \subseteq Nat

VARIABLES
    runs,      \* watcher_runs, with their reports and intakes, in append order
    statuses,  \* status_events: the instance and the run, 0 for a status without one
    evals,     \* evaluation_runs, with their watermarks and finding events
    finding,   \* finding_current: the latest and the opening event of each lineage's finding
    db,        \* which of those rows exist, in which form, and the floors
    pending,   \* the evaluations whose finding event has a delivery that has not ended
    failed     \* whether the last expiry ended in an integrity failure

vars == <<runs, statuses, evals, finding, db, pending, failed>>

\* The seconds of the wall clock are the commits made so far.
Now == Len(statuses) + Cardinality({s \in DOMAIN evals : evals[s].trigger = 0})

Run == [lineage : Lineages, shows : {"present", "absent", "partial"},
        ckpt : BOOLEAN, diagnostic : BOOLEAN, report : Nat, status : Nat \ {0}, at : Nat]
Status == [instance : Range(Instance), run : Nat]
Event == {"none", "opened", "reopened", "updated", "resolved"}
Evaluation == [lineage : Lineages, trigger : Nat, outcome : {"present", "absent", "cannot"},
               mark : Nat, event : Event, condition : {"none", "present", "absent"},
               evidence : Nat, at : Nat]
Floors == [e : Nat, r : Nat, i : Nat, s : Nat, expired : BOOLEAN]

Init ==
    /\ runs = <<>> /\ statuses = <<>> /\ evals = <<>>
    /\ db = [runs |-> {}, anchors |-> {}, evals |-> {}, decisions |-> {},
             floor |-> [e |-> 0, r |-> 0, i |-> 0, s |-> 0, expired |-> FALSE]]
    /\ finding = [l \in Lineages |-> [latest |-> 0, opening |-> 0]]
    /\ pending = {} /\ failed = FALSE

-----------------------------------------------------------------------------
(* Rows.  intake_sequence is the run's own index: every run commits one.     *)

Top(S) == IF S = {} THEN 0 ELSE Max(S)

Admitted(r) == runs[r].report # 0

Reports(S) == {r \in S : Admitted(r)}
ReportRows(st) == Reports(st.runs \cup st.anchors)
BoundStatuses(st) == {runs[r].status : r \in st.runs}
EvalRows(st) == st.evals \cup st.decisions

InstanceOf(r) == Instance[runs[r].lineage]

\* The report an evaluation's envelope names: the one its detector cites.
Cites(s) == IF evals[s].outcome = "cannot" THEN 0 ELSE evals[s].mark

Events == {s \in DOMAIN evals : evals[s].event # "none"}
Evidence == {evals[s].evidence : s \in Events}

Unresolved(l) == finding[l].latest # 0 /\ evals[finding[l].latest].condition # "absent"

-----------------------------------------------------------------------------
(* Evaluation.                                                               *)

\* The admitted reports a lineage's evaluation reads: source-expired ones are
\* identities, not evidence.
ContextRows(st, l) == {r \in Reports(st.runs) : runs[r].lineage = l}

\* Every detector decides from the newest report, and cannot evaluate when
\* there is none, when it is not current, or when it lacks coverage.
DetectorOutcome(mark, stale) ==
    IF mark = 0 \/ stale THEN "cannot"
    ELSE IF runs'[mark].shows = "partial" THEN "cannot" ELSE runs'[mark].shows

EventKind(current, condition, outcome) ==
    CASE current = 0 /\ outcome # "present" -> "none"
      [] current = 0 /\ outcome = "present" -> "opened"
      [] current # 0 /\ condition = "absent" /\ outcome = "absent" -> "none"
      [] current # 0 /\ condition = "absent" /\ outcome = "present" -> "reopened"
      [] current # 0 /\ condition # "absent" /\ outcome = "absent" -> "resolved"
      [] OTHER -> "updated"

\* The evaluation a lineage's detector produces over the rows of st.
Prepared(st, l, trigger, stale, at) ==
    LET rows == ContextRows(st, l) \cup (IF trigger = 0 THEN {} ELSE {trigger})
        mark == Top(rows)
        outcome == DetectorOutcome(mark, stale)
        current == finding[l].latest
        condition == IF current = 0 THEN "none" ELSE evals[current].condition
        kind == EventKind(current, condition, outcome)
    IN  [lineage |-> l, trigger |-> trigger, outcome |-> outcome, mark |-> mark, event |-> kind,
         condition |-> CASE kind = "none" -> "none"
                         [] outcome = "cannot" -> condition
                         [] OTHER -> outcome,
         evidence |-> CASE kind = "none" -> 0
                        [] outcome = "cannot" -> evals[current].evidence
                        [] OTHER -> mark,
         at |-> at]

\* What the store requires of a finding event's evidence: an admitted report
\* that still has a row, no newer than the evaluation's watermark.
EvidenceAdmitted(st, e) ==
    e.event # "none" => /\ e.evidence \in st.runs \cup st.anchors
                        /\ e.evidence <= e.mark

\* evaluation_sequence is one above the greatest that still has a row.
NextSequence(st) == Top(EvalRows(st)) + 1

AppendEvaluation(st, e) ==
    LET n == NextSequence(st) IN
    /\ EvidenceAdmitted(st, e)
    /\ evals' = Append(SubSeq(evals, 1, n - 1), e)
    /\ finding' = [finding EXCEPT ![e.lineage] =
         CASE e.event = "none" -> @
           [] e.event \in {"opened", "reopened"} -> [latest |-> n, opening |-> n]
           [] OTHER -> [@ EXCEPT !.latest = n]]
    /\ db' = [st EXCEPT !.evals = @ \cup {n}]

NextReport == Cardinality({r \in DOMAIN runs : Admitted(r)}) + 1

RunRow(l, report, sample, diagnostic) ==
    [lineage |-> l, shows |-> sample.shows, ckpt |-> sample.ckpt, diagnostic |-> diagnostic,
     report |-> report, status |-> Len(statuses) + 1, at |-> Now]

Room(l) ==
    /\ Now < MaxCommits
    /\ Cardinality({r \in DOMAIN runs : runs[r].lineage = l})
       + Cardinality({s \in DOMAIN evals : evals[s].lineage = l /\ evals[s].trigger = 0}) < MaxOf[l]

AppendRun(row) ==
    /\ Room(row.lineage)
    /\ row.diagnostic => Cardinality({r \in DOMAIN runs : runs[r].diagnostic}) < MaxDiagnostics
    /\ runs' = Append(runs, row)
    /\ statuses' = Append(statuses, [instance |-> Instance[row.lineage], run |-> Len(runs) + 1])
    /\ UNCHANGED <<pending, failed>>

\* An admitted collection commits its run and the evaluation it triggers.
CollectAdmitted ==
    \E l \in Lineages, sample \in Samples, diagnostic \in BOOLEAN :
      LET r == Len(runs) + 1
          st == [db EXCEPT !.runs = @ \cup {r}]
      IN  /\ AppendRun(RunRow(l, NextReport, sample, diagnostic))
          /\ AppendEvaluation(st, Prepared(db, l, r, FALSE, Now))

Quiet == {k \in DOMAIN statuses : statuses[k].run = 0 \/ ~ Admitted(statuses[k].run)}

\* A collection that admits nothing commits its run, intake and status.
CollectNonSuccess ==
    \E l \in Lineages, diagnostic \in BOOLEAN :
      /\ Now < MaxCommits /\ Cardinality(Quiet) < MaxQuiet
      /\ AppendRun(RunRow(l, 0, [shows |-> "partial", ckpt |-> FALSE], diagnostic))
      /\ db' = [db EXCEPT !.runs = @ \cup {Len(runs) + 1}]
      /\ UNCHANGED <<evals, finding>>

\* A freshness sweep evaluates again without collecting.
Sweep ==
    \E l \in Lineages, stale \in BOOLEAN :
      /\ Room(l)
      /\ UNCHANGED <<runs, statuses, pending, failed>>
      /\ AppendEvaluation(db, Prepared(db, l, 0, stale, Now))

\* A status that no run reports (an admission refused before any exchange).
RecordStatus ==
    \E i \in Range(Instance) :
      /\ Now < MaxCommits /\ Cardinality(Quiet) < MaxQuiet
      /\ statuses' = Append(statuses, [instance |-> i, run |-> 0])
      /\ UNCHANGED <<runs, evals, finding, db, pending, failed>>

\* A notification bound to a finding event begins and ends its custody.
EnqueueNotification ==
    \E s \in Events :
      /\ Cardinality(pending) < MaxCustody
      /\ AnyEvent \/ s = finding[evals[s].lineage].latest
      /\ pending' = pending \cup {s}
      /\ UNCHANGED <<runs, statuses, evals, finding, db, failed>>

EndCustody ==
    \E s \in pending :
      /\ pending' = pending \ {s}
      /\ UNCHANGED <<runs, statuses, evals, finding, db, failed>>

-----------------------------------------------------------------------------
(* Roots: what keeps a closure whole.                                        *)

\* Mutant: a delivery makes a compacted closure live again.
LiveFindingEventsRevived(st) ==
    UNION {Range(finding[l]) : l \in {k \in Lineages : Unresolved(k)}} \cup pending

\* The finding events that still need their whole closure: the latest and the
\* opening event of an unresolved finding, and those whose delivery has not
\* ended, unless their evaluation was compacted before it began.
LiveFindingEvents(st) ==
    UNION {Range(finding[l]) : l \in {k \in Lineages : Unresolved(k)}}
    \cup (pending \ st.decisions)

DiagnosticOrigins == {s \in DOMAIN evals : evals[s].trigger # 0 /\ runs[evals[s].trigger].diagnostic}

\* The rows of S that no later row of S with the same key supersedes.
Heads(S, key(_)) == {x \in S : \A y \in S : x < y => key(y) # key(x)}

\* Mutant: a watcher's newest evaluation stands for all its lineages.
LineageNewestOfInstance(st, limit) ==
    Heads({s \in st.evals : s <= limit}, LAMBDA s : Instance[evals[s].lineage])

\* The newest full evaluation of every lineage among those at most "limit".
LineageNewest(st, limit) ==
    Heads({s \in st.evals : s <= limit}, LAMBDA s : evals[s].lineage)

\* The newest report of every instance, as far as report "limit".
ReportHeads(st, limit) ==
    Heads({r \in ReportRows(st) : runs[r].report <= limit}, LAMBDA r : InstanceOf(r))

\* The newest acknowledged checkpoint of every checkpoint contract.
CheckpointHeads(st, limit) ==
    Heads({r \in Reports(st.runs) : runs[r].ckpt /\ runs[r].report <= limit},
          LAMBDA r : runs[r].lineage)

\* The reports that the evaluations in S read through or cite.
ReadBy(S) == {evals[s].mark : s \in S} \cup {Cites(s) : s \in S}

\* The runs that triggered evaluations in S; a sweep has none.
Triggers(S) == {evals[s].trigger : s \in S} \ {0}

-----------------------------------------------------------------------------
(* The boundary validation of a store: what may be left below its floors.   *)

EvaluationRoots(st) == Events \cup DiagnosticOrigins \cup LineageNewest(st, st.floor.e)

\* The runs some relationship justifies below the floors.  The root need not
\* be live: one released since the last expiry stays legal until the next.
JustifiedRuns(st) ==
    {r \in DOMAIN runs : runs[r].diagnostic}
    \cup Triggers(st.evals \cap EvaluationRoots(st))
    \cup (Reports(st.runs) \cap (Evidence \cup ReadBy(st.evals)
                                \cup ReportHeads(st, st.floor.r)
                                \cup CheckpointHeads(st, st.floor.r)))
    \cup {statuses[k].run : k \in Heads({j \in BoundStatuses(st) : j <= st.floor.s},
                                        LAMBDA j : statuses[j].instance)}

\* A re-cited compact report was released by a resolution before event s.
ReleasedRecitation(s) ==
    \E x, z \in Events :
      /\ x <= z /\ z < s
      /\ evals[x].lineage = evals[s].lineage /\ evals[z].lineage = evals[s].lineage
      /\ evals[x].evidence = evals[s].evidence
      /\ evals[z].event = "resolved"

RetainedBelowFloors(st) ==
    LET justified == JustifiedRuns(st)
    IN  /\ {s \in st.evals : s <= st.floor.e /\ evals[s].trigger \notin justified}
             \subseteq EvaluationRoots(st)
        /\ {r \in st.runs : \/ r <= st.floor.i
                            \/ Admitted(r) /\ runs[r].report <= st.floor.r
                            \/ runs[r].status <= st.floor.s} \subseteq justified
        /\ \A s \in st.decisions : /\ s <= st.floor.e /\ s \in Events
                                /\ evals[s].trigger # 0 => evals[s].trigger \in st.anchors
        /\ \A r \in st.anchors :
             runs[r].report <= st.floor.r /\ r \in Evidence \cup Triggers(st.decisions)
        /\ Triggers(st.evals) \cap st.anchors = {}
        /\ \A s \in LiveFindingEvents(st) :
             /\ s \notin st.decisions
             /\ evals[s].evidence \in st.anchors => ReleasedRecitation(s)

\* Above a floor nothing has been expired.
ContiguousAboveFloors(st) ==
    /\ \A s \in DOMAIN evals : st.floor.e < s => s \in st.evals
    /\ \A r \in DOMAIN runs :
         \/ st.floor.i < r
         \/ Admitted(r) /\ st.floor.r < runs[r].report
         \/ st.floor.s < runs[r].status
         => r \in st.runs

ValidBoundary(st) ==
    IF st.floor.expired
    THEN RetainedBelowFloors(st) /\ ContiguousAboveFloors(st)
    ELSE st.runs = DOMAIN runs

-----------------------------------------------------------------------------
(* Expiry.                                                                   *)

Aged(row, c) == row.at < c

\* An island below the floor whose last root was released.
ReleasedIslands(st) ==
    {s \in st.evals \cap Events : st.floor.expired /\ s <= st.floor.e}
    \ (LiveFindingEvents(st) \cup DiagnosticOrigins \cup LineageNewest(st, Len(evals)))

\* Cheap test, run before the store is inspected: the first row above some
\* floor has aged, or there is an island to release.
PrefixMayAdvance(st, c) ==
    LET first(S) == IF S = {} THEN {} ELSE {Min(S)}
        e == first({s \in EvalRows(st) : st.floor.e < s})
        heads == first({r \in ReportRows(st) : st.floor.r < runs[r].report})
                 \cup first({r \in st.runs : st.floor.i < r})
                 \cup {statuses[k].run : k \in first({k \in BoundStatuses(st) : st.floor.s < k})}
    IN  \/ \E s \in e : Aged(evals[s], c)
        \/ \E r \in heads : Aged(runs[r], c)
        \/ ReleasedIslands(st) # {}

\* Aged whole runs: every island, and the first "limit" of the others.
Candidates(st, c, limit) ==
    LET aged == {r \in st.runs : Aged(runs[r], c)}
        island == {r \in aged : runs[r].status <= st.floor.s}
    IN  island \cup {r \in aged \ island :
                       Cardinality({q \in aged \ island : q < r}) < limit}

\* How far the prefix of each table is clear of rows that must stay.
Raised(floor, blocking, present) ==
    Max({floor, IF blocking # {} THEN Min(blocking) - 1 ELSE Top(present)})

PlanFloors(st, c, C) ==
    [e |-> Raised(st.floor.e,
             {s \in EvalRows(st) : /\ st.floor.e < s
                                   /\ \/ ~ Aged(evals[s], c)
                                      \/ evals[s].trigger \notin C \cup {0}},
             EvalRows(st)),
     r |-> Raised(st.floor.r,
             {runs[r].report : r \in {q \in ReportRows(st) \ C : st.floor.r < runs[q].report}},
             {runs[r].report : r \in ReportRows(st)}),
     i |-> Raised(st.floor.i, {r \in st.runs \ C : st.floor.i < r}, DOMAIN runs),
     s |-> Raised(st.floor.s,
             {k \in BoundStatuses(st) : st.floor.s < k /\ statuses[k].run \notin C},
             BoundStatuses(st)),
     expired |-> TRUE]

\* The candidates all of whose rows are at or below the floors.
BelowFloors(st, C, f) ==
    {r \in C : /\ \A s \in st.evals : evals[s].trigger = r => s <= f.e
               /\ Admitted(r) => runs[r].report <= f.r
               /\ r <= f.i
               /\ runs[r].status <= f.s}

Iterate(step(_), base, n) == FoldSet(LAMBDA k, acc : step(acc), base, 1 .. n)

\* Runs leave the candidates while they hold a floor down; the loop ends with
\* the candidates the floors they allow are clear of.
PlanCandidates(st, c, limit) ==
    LET C == Candidates(st, c, limit) IN
    Iterate(LAMBDA D : BelowFloors(st, D, PlanFloors(st, c, D)), C, Cardinality(C))

\* Mutant: the checkpoint the next collection is offered is not a root.
RunRootsNoCheckpoint(st) ==
    {r \in DOMAIN runs : runs[r].diagnostic}
    \cup {statuses[k].run : k \in Heads(DOMAIN statuses, LAMBDA k : statuses[k].instance)}
    \cup ReportHeads(st, Len(runs))
    \cup {evals[s].evidence : s \in LiveFindingEvents(st)}

\* The runs a root names, whatever has become of its evaluations.
RunRoots(st) ==
    {r \in DOMAIN runs : runs[r].diagnostic}
    \cup {statuses[k].run : k \in Heads(DOMAIN statuses, LAMBDA k : statuses[k].instance)}
    \cup ReportHeads(st, Len(runs)) \cup CheckpointHeads(st, Len(runs))
    \cup {evals[s].evidence : s \in LiveFindingEvents(st)}

\* Mutant: a protected run does not keep the evaluations it triggered.
ProtectRunsOnly(st, C, E, kept) ==
    LET surviving == (st.evals \ E) \cup kept.evals
    IN  [evals |-> kept.evals,
         runs  |-> kept.runs \cup (C \cap (Triggers(kept.evals) \cup ReadBy(surviving)))]

\* One pass of the closure over the candidates C and the evaluations E below
\* the floor: an island keeps its trigger, a protected run its evaluations, a
\* surviving evaluation the reports it reads.
Protect(st, C, E, kept) ==
    LET islands == kept.evals \cup {s \in E : evals[s].trigger \in kept.runs}
        surviving == (st.evals \ E) \cup islands
    IN  [evals |-> islands,
         runs  |-> kept.runs \cup (C \cap (Triggers(islands) \cup ReadBy(surviving)))]

\* The store after the plan for cutoff c has been applied.
PlanExpiry(st, c, limit) ==
    LET C == PlanCandidates(st, c, limit)
        f == PlanFloors(st, c, C)
        E == {s \in st.evals : s <= f.e}
        roots == LiveFindingEvents(st) \cup DiagnosticOrigins \cup LineageNewest(st, Len(evals))
        kept == Iterate(LAMBDA k : Protect(st, C, E, k),
                        [runs |-> C \cap RunRoots(st), evals |-> E \cap roots],
                        Cardinality(C) + 1)
        retired == E \ kept.evals
        dead == C \ kept.runs
        compact == retired \cap Events
        anchors == Reports(dead) \cap (Evidence \cup Triggers(compact))
    IN  [runs |-> st.runs \ dead, anchors |-> st.anchors \cup anchors,
         evals |-> st.evals \ retired, decisions |-> st.decisions \cup compact,
         floor |-> f]

\* Cutoffs that tell the rows apart.
Cutoffs(st) ==
    {0} \cup {runs[r].at + 1 : r \in st.runs} \cup {evals[s].at + 1 : s \in st.evals}

\* Cutoff c is no earlier than the ones the islands below the floors have aged
\* past, as it is while the wall clock only moves forward.
Passed(st, c) ==
    /\ \A r \in st.runs : runs[r].status <= st.floor.s => Aged(runs[r], c)
    /\ \A s \in st.evals : s <= st.floor.e => Aged(evals[s], c)

\* One batch, in one transaction that ends with the boundary validation: a
\* plan that fails it is rolled back and the caller gets an integrity failure.
Expire ==
    \E c \in Cutoffs(db), limit \in Batches :
      LET after == PlanExpiry(db, c, limit) IN
      /\ ClockSteps \/ Passed(db, c)
      /\ PrefixMayAdvance(db, c)
      /\ [after EXCEPT !.floor.expired = db.floor.expired] # db
      /\ IF ValidBoundary(after)
         THEN db' = after /\ failed' = FALSE
         ELSE failed' = TRUE /\ UNCHANGED db
      /\ UNCHANGED <<runs, statuses, evals, finding, pending>>

Next ==
    \/ CollectAdmitted
    \/ CollectNonSuccess
    \/ Sweep
    \/ RecordStatus
    \/ EnqueueNotification
    \/ EndCustody
    \/ Expire

Spec == Init /\ [][Next]_vars

-----------------------------------------------------------------------------
(* Properties.                                                               *)

\* Every row has its shape, and db has one entry for every row.
TypeOK ==
    /\ runs \in Seq(Run) /\ statuses \in Seq(Status) /\ evals \in Seq(Evaluation)
    /\ DOMAIN db = {"runs", "anchors", "evals", "decisions", "floor"} /\ db.floor \in Floors
    /\ db.runs \subseteq DOMAIN runs /\ db.anchors \subseteq Reports(DOMAIN runs) \ db.runs
    /\ db.evals \subseteq DOMAIN evals /\ db.decisions \subseteq DOMAIN evals \ db.evals
    /\ finding \in [Lineages -> [latest : {0} \cup Events, opening : {0} \cup Events]]
    /\ pending \subseteq Events
    /\ failed \in BOOLEAN

\* Whatever is collected, evaluated, delivered and expired in whatever order,
\* the store passes its own boundary validation (validate_boundary), which
\* every open and every expiry runs: no sequence of legal calls produces a
\* store that refuses to open.
BoundaryValid == ValidBoundary(db)

\* An expiry never plans a deletion that its own validation then rejects, so
\* it never fails the collection that runs it (expire_ordinary_history).
ExpiryNeverCostsTheCollection == ~ failed

\* The roots that must not disappear, whatever was expired: every lineage that
\* was ever evaluated still has its newest evaluation whole (the row "nq
\* status" shows, and the one MAX + 1 counts from), and every lineage that was
\* ever given a checkpoint still has the one its next collection is offered.
HeadsKept ==
    \A l \in Lineages :
      LET S == {s \in DOMAIN evals : evals[s].lineage = l}
          R == {r \in DOMAIN runs : Admitted(r) /\ runs[r].ckpt /\ runs[r].lineage = l}
      IN  /\ S # {} => Max(S) \in db.evals
          /\ R # {} => Max(R) \in db.runs

\* The opening and the latest event of an unresolved finding are explained in
\* full: their evaluations, the runs that triggered these and the reports they
\* cite are whole, however old the episode is.
OpenEpisodeIsWhole ==
    \A l \in Lineages : Unresolved(l) =>
      \A s \in Range(finding[l]) :
        /\ s \in db.evals
        /\ evals[s].trigger # 0 => evals[s].trigger \in db.runs
        /\ evals[s].evidence \in db.runs

\* Nothing that is still read is lost: not what status and the next collection
\* look at, nor what explains an open finding.
NeededIsKept == HeadsKept /\ OpenEpisodeIsWhole

\* No expiry makes a lineage impossible to evaluate: whatever the detector
\* decides next, the evidence the finding re-cites still has a row and is not
\* newer than the watermark (insert_finding_event rejects both).
NextEvaluationIsAdmitted ==
    \A l \in Lineages :
      LET current == finding[l].latest
          mark == Top(ContextRows(db, l))
      IN  current # 0 => /\ evals[current].evidence \in db.runs \cup db.anchors
                         /\ evals[current].evidence <= mark
=============================================================================
