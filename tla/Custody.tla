------------------------------ MODULE Custody ------------------------------
(***************************************************************************)
(* Notification deliveries and saved checks on one store, a power loss under *)
(* both, and the rollover inspection that decides from the records alone     *)
(* whether a store has nothing left to settle.                               *)
(*                                                                          *)
(* Source: crates/nq-app/src/rollover.rs.                                    *)
(***************************************************************************)
EXTENDS Notification, SavedCheck

CONSTANTS
    Histories,     \* records a store may have from earlier commands, and the time
    MaxCommands    \* bound: commands begun

\* A history the commands can have written (the triggers of schema.sql): an
\* identity has one record, a record one refusal, or a claim and its outcome.
Written(row) ==
    \/ row.events = <<>>
    \/ Len(row.events) = 1 /\ row.events[1].outcome \in {"claimed", "refused"}
    \/ /\ Len(row.events) = 2 /\ row.events[1].outcome = "claimed"
       /\ row.events[2].outcome \in {"failed", "unknown", "accepted"}

ASSUME CustodyAssumption ==
    /\ MaxCommands \in Nat
    /\ Histories \subseteq [outbox : Seq(Record), now : Nat]
    /\ \A h \in Histories :
         /\ \A n \in DOMAIN h.outbox : Written(h.outbox[n])
         /\ \A n \in DOMAIN h.outbox : \A k \in DOMAIN h.outbox[n].events :
              h.outbox[n].events[k].at <= h.now
         /\ \A m, n \in DOMAIN h.outbox :
              Identity(h.outbox[m].intent) = Identity(h.outbox[n].intent) => m = n

\* notification_outbox, saved_check_definitions and saved_check_events.
Tables == [outbox : Seq(Record), definitions : [References -> Materials \cup {NoMaterial}],
           checks : Seq(Check)]

VARIABLE commands       \* commands begun so far

vars == <<storeVars, notificationVars, savedCheckVars, commands>>

Init ==
    /\ \E h \in Histories :
         /\ db = [outbox |-> h.outbox, definitions |-> [r \in References |-> NoMaterial],
                  checks |-> <<>>]
         /\ NotificationInit(h.outbox, h.now)
    /\ disk = db
    /\ losses = 0
    /\ commands = 0
    /\ SavedCheckInit

Begins == commands < MaxCommands /\ commands' = commands + 1
Continues == UNCHANGED commands

\* The machine loses power: every process is gone.
PowerLoss ==
    /\ LoseNewestCommit
    /\ courier' = [c \in Couriers |-> Idle]
    /\ checker' = [c \in Checkers |-> Asleep]
    /\ UNCHANGED <<clock, sent, reads, answers, commands>>

Deliver(c) ==
    \/ (Submit(c) \/ Resubmit(c)) /\ Begins
    \/ /\ \/ CheckNewest(c) \/ SubmitAgain(c) \/ RetainDelivery(c) \/ Refuse(c)
          \/ Claim(c) \/ Send(c) \/ RecordOutcome(c) \/ Abort(c)
       /\ Continues

RunCheck(c) ==
    \/ Evaluate(c) /\ Begins
    \/ /\ \/ ReplayEvaluation(c) \/ ClaimEvaluation(c) \/ ReadTarget(c) \/ AppendResult(c)
          \/ Drop(c)
       /\ Continues

Next ==
    \/ \E c \in Couriers : Deliver(c) /\ UNCHANGED savedCheckVars
    \/ \E c \in Checkers : RunCheck(c) /\ UNCHANGED notificationVars
    \/ Install /\ Continues /\ UNCHANGED notificationVars
    \/ PowerLoss

Spec == Init /\ [][Next]_vars

-----------------------------------------------------------------------------
(* Rollover inspection.                                                      *)

\* The state of a record by the exact shape of its history.
NotificationState(row) ==
    CASE row.events = <<>> -> "pending"
      [] Len(row.events) = 1 /\ row.events[1].outcome = "claimed" -> "unknown"
      [] Len(row.events) = 1 /\ row.events[1].outcome = "refused" -> "refused"
      [] /\ Len(row.events) = 2 /\ row.events[1].outcome = "claimed"
         /\ row.events[2].outcome \in {"accepted", "failed", "unknown"} -> row.events[2].outcome
      [] OTHER -> "contradictory"

\* The scan of the saved-check events fails: an evaluation has two claims, or a
\* result without, against or besides another result of its claim.
ChecksContradictory ==
    \E k \in DOMAIN CheckEvents :
      LET before(outcomes) == {j \in Of(CheckEvents[k].evaluation, outcomes) : j < k}
      IN  IF CheckEvents[k].outcome = "claimed"
          THEN before({"claimed"}) # {}
          ELSE \/ before(Results) # {}
               \/ ~ \E j \in before({"claimed"}) : CheckEvents[j].binding = CheckEvents[k].binding

Unfinished == {e \in Evaluations : Of(e, {"claimed"}) # {} /\ Of(e, Results) = {}}

Contradictory ==
    \/ ChecksContradictory
    \/ \E n \in DOMAIN Outbox : NotificationState(Outbox[n]) = "contradictory"

\* Mutant: a record without an event does not count.
EligiblePending ==
    /\ ~ Contradictory
    /\ Unfinished = {}
    /\ \A n \in DOMAIN Outbox : NotificationState(Outbox[n]) # "unknown"

\* `nq rollover inspect` reports no refusal.
Eligible ==
    /\ ~ Contradictory
    /\ Unfinished = {}
    /\ \A n \in DOMAIN Outbox : NotificationState(Outbox[n]) \notin {"pending", "unknown"}

-----------------------------------------------------------------------------
(* Properties.                                                               *)

\* Every table, process and count has its shape (the store's schema and the
\* locals of the commands).
TypeOK ==
    /\ {db, disk} \subseteq Tables
    /\ losses \in 0 .. MaxLosses
    /\ courier \in [Couriers -> CourierState]
    /\ clock \in Nat
    /\ sent \in [Identities -> Nat]
    /\ checker \in [Checkers -> CheckerState]
    /\ reads \in [Evaluations -> Nat]
    /\ answers \subseteq Check

\* No sequence of commands, deaths and power losses leaves a history the
\* inspection refuses to read, or reads otherwise than delivery status does
\* (inspect_store, notification_state).
InspectionReadsHistory ==
    /\ ~ Contradictory
    /\ \A n \in DOMAIN Outbox : NotificationState(Outbox[n]) = DeliveryState(Outbox[n])

\* A store the inspection finds eligible has nothing under way: no process
\* holds one of its records between the claim and the outcome, and every
\* identity something was sent for, and every evaluation that read a target,
\* has a definite outcome unless a power loss took its record
\* (inspect_store, eligible).
EligibleIsSettled ==
    Eligible =>
      /\ \A c \in Couriers : courier[c].pc \notin {"decide", "send", "record"}
      /\ \A c \in Checkers : checker[c].pc \notin {"read", "finish"}
      /\ losses = 0 =>
           /\ \A k \in Identities : sent[k] > 0 =>
                \E n \in DOMAIN Outbox : /\ Identity(Outbox[n].intent) = k
                                         /\ DeliveryState(Outbox[n]) \in {"accepted", "failed"}
           /\ \A e \in Evaluations : reads[e] > 0 => Of(e, Results) # {}

\* The rollover inspection reads every history a store can have, as delivery
\* status reads it, and passes only a store with nothing under way.
InspectionIsSound == InspectionReadsHistory /\ EligibleIsSettled
=============================================================================
