----------------------------- MODULE SavedCheck -----------------------------
(***************************************************************************)
(* Saved checks: `nq saved-check install` and `evaluate`, each run by a      *)
(* process of its own on one store.  An evaluation is named by its caller.   *)
(* It is claimed, the target database is read once under fixed limits, and    *)
(* its outcome is appended; a repeated request is answered from the record.   *)
(*                                                                          *)
(* Source: crates/nq-app/src/cli.rs, crates/nq-app/src/saved_check.rs and     *)
(* crates/nq-store/src/lib.rs.                                               *)
(***************************************************************************)
EXTENDS StoreCommit, Sequences

CONSTANTS
    Checkers,      \* processes that evaluate
    References,    \* stable references of definitions
    Materials,     \* canonical definitions
    Targets,       \* target and observation time, as a caller asserts them
    Evaluations,   \* evaluation identities callers name
    NoMaterial     \* the reference is not installed

ASSUME SavedCheckAssumption == NoMaterial \notin Materials

VARIABLES
    checker,   \* what each evaluating process is doing
    reads,     \* how often each evaluation read a target
    answers    \* the results commands printed

savedCheckVars == <<checker, reads, answers>>

Asleep == [pc |-> "idle"]

Results == {"passed", "failed", "refused"}

\* What a command binds: a reference, its definition and the target.
Binding == References \X Materials \X Targets

Check == [evaluation : Evaluations, binding : Binding, outcome : Results \cup {"claimed"}]

\* What an evaluating process holds at each of its steps.
CheckerState ==
    {Asleep} \cup [pc : {"lookup", "claim", "read"}, evaluation : Evaluations, binding : Binding,
                   outcome : {"none"}]
    \cup [pc : {"finish"}, evaluation : Evaluations, binding : Binding, outcome : Results]

\* saved_check_definitions by reference, and saved_check_events of evaluations.
Definitions == db.definitions
CheckEvents == db.checks

SavedCheckInit ==
    /\ checker = [c \in Checkers |-> Asleep]
    /\ reads = [e \in Evaluations |-> 0]
    /\ answers = {}

Of(e, outcomes) == {k \in DOMAIN CheckEvents : CheckEvents[k].evaluation = e
                                               /\ CheckEvents[k].outcome \in outcomes}

SetChecker(c, new) == checker' = [checker EXCEPT ![c] = new]

Answer(e, binding, outcome) ==
    answers' = answers \cup {[evaluation |-> e, binding |-> binding, outcome |-> outcome]}

\* A reference is bound to its definition once; the same one may be repeated.
Install ==
    \E r \in References, m \in Materials :
      /\ Definitions[r] = NoMaterial
      /\ Commit([db EXCEPT !.definitions[r] = m])
      /\ UNCHANGED savedCheckVars

\* `evaluate` reads the installed definition and states what it binds.
Evaluate(c) ==
    /\ checker[c].pc = "idle"
    /\ \E r \in References, t \in Targets, e \in Evaluations :
         /\ Definitions[r] # NoMaterial
         /\ SetChecker(c, [pc |-> "lookup", evaluation |-> e, binding |-> <<r, Definitions[r], t>>,
                           outcome |-> "none"])
    /\ UNCHANGED <<storeVars, reads, answers>>

\* A known evaluation is answered from its newest event, if that has the same
\* binding; otherwise the command fails.
ReplayEvaluation(c) ==
    LET me == checker[c]
        known == Of(me.evaluation, Results \cup {"claimed"})
    IN  /\ me.pc = "lookup"
        /\ IF known = {}
           THEN SetChecker(c, [me EXCEPT !.pc = "claim"]) /\ UNCHANGED answers
           ELSE /\ SetChecker(c, Asleep)
                /\ \E k \in known :
                     /\ \A j \in known : j <= k
                     /\ IF CheckEvents[k].binding = me.binding
                        THEN Answer(me.evaluation, me.binding, CheckEvents[k].outcome)
                        ELSE UNCHANGED answers
        /\ UNCHANGED <<storeVars, reads>>

CheckEvent(me, outcome) ==
    [evaluation |-> me.evaluation, binding |-> me.binding, outcome |-> outcome]

\* Mutant: a claim made since the look-up is taken for one's own.
ClaimEvaluationTwice(c) ==
    LET me == checker[c] IN
    /\ me.pc = "claim"
    /\ SetChecker(c, [me EXCEPT !.pc = "read"])
    /\ IF Of(me.evaluation, {"claimed"}) = {}
       THEN Commit([db EXCEPT !.checks = Append(@, CheckEvent(me, "claimed"))])
       ELSE UNCHANGED storeVars
    /\ UNCHANGED <<reads, answers>>

\* The claim looks again, in its transaction: an equal claim means another
\* process is at it, a different one is an error.
ClaimEvaluation(c) ==
    LET me == checker[c]
        claims == Of(me.evaluation, {"claimed"})
    IN  /\ me.pc = "claim"
        /\ IF claims = {}
           THEN /\ Commit([db EXCEPT !.checks = Append(@, CheckEvent(me, "claimed"))])
                /\ SetChecker(c, [me EXCEPT !.pc = "read"])
                /\ UNCHANGED answers
           ELSE /\ SetChecker(c, Asleep)
                /\ IF \E k \in claims : CheckEvents[k].binding = me.binding
                   THEN Answer(me.evaluation, me.binding, "claimed")
                   ELSE UNCHANGED answers
                /\ UNCHANGED storeVars
        /\ UNCHANGED reads

\* The target says what it says when it is read; a source that is not current,
\* cannot be opened or exceeds a limit is refused.
ReadTarget(c) ==
    /\ checker[c].pc = "read"
    /\ \E outcome \in Results : SetChecker(c, [checker[c] EXCEPT !.pc = "finish", !.outcome = outcome])
    /\ reads' = [reads EXCEPT ![checker[c].evaluation] = @ + 1]
    /\ UNCHANGED <<storeVars, answers>>

\* The outcome, in a transaction that requires its claim and finds no other.
AppendResult(c) ==
    LET me == checker[c]
        results == Of(me.evaluation, Results)
        claims == Of(me.evaluation, {"claimed"})
    IN  /\ me.pc = "finish"
        /\ SetChecker(c, Asleep)
        /\ IF results = {} /\ \E k \in claims : CheckEvents[k].binding = me.binding
           THEN /\ Commit([db EXCEPT !.checks = Append(@, CheckEvent(me, me.outcome))])
                /\ Answer(me.evaluation, me.binding, me.outcome)
           ELSE UNCHANGED <<storeVars, answers>>
        /\ UNCHANGED reads

\* The command fails or its process dies.
Drop(c) ==
    /\ checker[c].pc # "idle"
    /\ SetChecker(c, Asleep)
    /\ UNCHANGED <<storeVars, reads, answers>>

-----------------------------------------------------------------------------
(* Properties.                                                               *)

\* An evaluation reads its target once, however many processes ask for it; only
\* a power loss that takes the claim back lets another one read
\* (claim_saved_check_evaluation).
TargetReadOnce == \A e \in Evaluations : reads[e] <= 1 + losses

\* Everyone who is told the outcome of an evaluation asked the same question
\* and is told the same, for ever, whatever a power loss takes back.
AnswersAgree ==
    \A a, b \in answers :
      (/\ a.evaluation = b.evaluation
       /\ a.outcome # "claimed" /\ b.outcome # "claimed") => a = b

\* One evaluation identity is one reading of its target with one answer.
EvaluatedOnce == TargetReadOnce /\ AnswersAgree
=============================================================================
