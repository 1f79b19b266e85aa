---------------------------- MODULE Notification ----------------------------
(***************************************************************************)
(* Delivery of notifications: `nq notification submit`, `resubmit` and      *)
(* `deliver-local`, each run by a process of its own on one store.           *)
(*                                                                          *)
(* A delivery looks its identity up, retains an outbox row with its intent,  *)
(* appends a claim, sends one request or creates one inbox file, and appends *)
(* the outcome: three transactions with the send between the last two.  No   *)
(* lock spans them.  A process may fail or die between any two.              *)
(*                                                                          *)
(* Source: crates/nq-app/src/notification.rs, crates/nq-store/src/lib.rs     *)
(* and crates/nq-store/src/schema.sql.                                       *)
(***************************************************************************)
EXTENDS StoreCommit, Sequences

CONSTANTS
    Couriers,   \* processes that deliver
    Events,     \* stable event identities
    Routes,     \* configured routes; a route has one destination identity
    Transport,  \* "https", "pagerduty" or "local_file" for each route
    Intents,    \* the intent files operators submit
    MaxClock    \* bound: clock readings before which a command may begin

Intent == [event : Events, route : Routes, condition : Nat, page : BOOLEAN]

ASSUME NotificationAssumption ==
    /\ Transport \in [Routes -> {"https", "pagerduty", "local_file"}]
    /\ Intents \subseteq Intent
    /\ MaxClock \in Nat

VARIABLES
    courier,   \* what each delivering process is doing
    clock,     \* readings of the wall clock so far
    sent       \* requests that may have left, or inbox files created, for each identity

notificationVars == <<courier, clock, sent>>

Identities == Events \X Routes
Identity(i) == <<i.event, i.route>>

Idle == [pc |-> "idle"]

\* What a delivering process holds at each of its steps.
CourierState ==
    {Idle} \cup [pc : {"newest"}, intent : Intent, source : Nat]
    \cup [pc : {"lookup"}, intent : Intent, source : Nat, asof : Nat]
    \cup [pc : {"retain", "decide", "send", "record"}, intent : Intent, row : Nat, source : Nat,
          asof : Nat, at : Nat, outcome : {"none", "accepted", "failed", "unknown"}]

\* notification_outbox with its intent and events, in rowid order.
Outbox == db.outbox

-----------------------------------------------------------------------------
(* Records.                                                                  *)

Outcomes(row) == {row.events[k].outcome : k \in DOMAIN row.events}

Terminal == {"refused", "failed", "unknown", "accepted"}

Event == [outcome : Terminal \cup {"claimed"}, deliberate : BOOLEAN, at : Nat]
Record == [intent : Intent, created : Nat, events : Seq(Event)]

\* What inspection reports of a record: a claim without an outcome is unknown.
DeliveryState(row) ==
    IF row.events = <<>> THEN "pending"
    ELSE IF Outcomes(row) \cap Terminal = {} THEN "unknown"
    ELSE CHOOSE o \in Outcomes(row) \cap Terminal : TRUE

Retained(i) == {n \in DOMAIN Outbox : Identity(Outbox[n].intent) = Identity(i)}

\* The triggers on notification_delivery_events: a claim or a refusal first,
\* then one outcome of the claim, then nothing.
EventAllowed(row, number, outcome) ==
    IF number = 1
    THEN row.events = <<>> /\ outcome \in {"claimed", "refused"}
    ELSE /\ Len(row.events) = number - 1
         /\ row.events[number - 1].outcome = "claimed"
         /\ outcome \in {"failed", "unknown", "accepted"}

AppendEvent(n, number, event) ==
    /\ EventAllowed(Outbox[n], number, event.outcome)
    /\ Commit([db EXCEPT !.outbox[n].events = Append(@, event)])

\* A request left, or an inbox file was created, for this record.
Left(row) ==
    /\ "claimed" \in Outcomes(row)
    /\ ~ (Transport[row.intent.route] = "local_file" /\ "failed" \in Outcomes(row))

\* No command is running on a store that holds the given records at a time.
NotificationInit(outbox, now) ==
    /\ courier = [c \in Couriers |-> Idle]
    /\ clock = now
    /\ sent = [k \in Identities |->
                 IF \E n \in DOMAIN outbox : Identity(outbox[n].intent) = k /\ Left(outbox[n])
                 THEN 1 ELSE 0]

-----------------------------------------------------------------------------
(* Commands.                                                                 *)

Move(c, new) == courier' = [courier EXCEPT ![c] = new]

Goto(c, step) == Move(c, [courier[c] EXCEPT !.pc = step])

Reads == UNCHANGED <<storeVars, clock, sent>>

\* A new record is given its time before the transaction that retains it.
Stamp(c, i, source, asof) ==
    /\ clock' = clock + 1
    /\ Move(c, [pc |-> "retain", intent |-> i, row |-> 0, source |-> source, asof |-> asof,
                at |-> clock', outcome |-> "none"])

\* `submit` and `deliver-local` read an intent file.  An intent whose identity
\* is retained is answered from the record; otherwise the owner's decision is
\* replayed.
Submit(c) ==
    /\ courier[c].pc = "idle" /\ clock < MaxClock
    /\ \E i \in Intents : Retained(i) = {} /\ Stamp(c, i, 0, 0)
    /\ UNCHANGED <<storeVars, sent>>

\* `resubmit` names a retained record and a new event.  Only a record of a
\* pagerduty route that was not accepted is sent again.
Resubmit(c) ==
    /\ courier[c].pc = "idle" /\ clock < MaxClock
    /\ \E n \in DOMAIN Outbox, e \in Events :
         /\ Transport[Outbox[n].intent.route] = "pagerduty"
         /\ DeliveryState(Outbox[n]) # "accepted"
         /\ Move(c, [pc |-> "newest", intent |-> [Outbox[n].intent EXCEPT !.event = e], source |-> n])
    /\ Reads

\* The records of the same condition on the same route created later.
NewerSameCondition(n) ==
    {m \in DOMAIN Outbox :
       /\ Outbox[m].intent.route = Outbox[n].intent.route
       /\ Outbox[m].intent.condition = Outbox[n].intent.condition
       /\ Outbox[n].created < Outbox[m].created}

\* Only the newest record of a condition is sent again.
CheckNewest(c) ==
    /\ courier[c].pc = "newest"
    /\ LET me == courier[c] IN
       IF NewerSameCondition(me.source) = {} /\ me.intent.event # Outbox[me.source].intent.event
       THEN Move(c, [pc |-> "lookup", intent |-> me.intent, source |-> me.source,
                     asof |-> Len(Outbox)])
       ELSE Move(c, Idle)
    /\ Reads

\* A resubmission is then submitted like any intent.
SubmitAgain(c) ==
    /\ courier[c].pc = "lookup"
    /\ LET me == courier[c] IN
       IF Retained(me.intent) = {}
       THEN Stamp(c, me.intent, me.source, me.asof)
       ELSE Move(c, Idle) /\ UNCHANGED clock
    /\ UNCHANGED <<storeVars, sent>>

InsertRow(c) ==
    /\ Commit([db EXCEPT !.outbox = Append(@, [intent |-> courier[c].intent,
                                               created |-> courier[c].at, events |-> <<>>])])
    /\ Move(c, [courier[c] EXCEPT !.pc = "decide", !.row = Len(Outbox) + 1])

\* Mutant: an identity retained since the look-up is not noticed.
RetainDeliveryBlind(c) ==
    /\ courier[c].pc = "retain"
    /\ InsertRow(c)
    /\ UNCHANGED <<clock, sent>>

\* The row and its intent, in one transaction that looks the identity up
\* again: an equal intent is answered from the record, another is refused.
RetainDelivery(c) ==
    /\ courier[c].pc = "retain"
    /\ IF Retained(courier[c].intent) = {}
       THEN InsertRow(c)
       ELSE Move(c, Idle) /\ UNCHANGED storeVars
    /\ UNCHANGED <<clock, sent>>

\* A record is refused without a send: it is not page-class, its event is no
\* longer current, the network is not enabled, or the route has no usable
\* secret or client.  The second, the only one a local inbox has, and the third
\* are deliberate: they say nothing of the route, and nothing reads their time.
Refuse(c) ==
    /\ courier[c].pc = "decide"
    /\ \E deliberate \in BOOLEAN :
         LET i == courier[c].intent
             transport == Transport[i.route]
         IN  /\ transport = "local_file" => deliberate
             /\ transport = "pagerduty" /\ ~ i.page => ~ deliberate
             /\ AppendEvent(courier[c].row, 1,
                  [outcome |-> "refused", deliberate |-> deliberate, at |-> courier[c].at])
    /\ Move(c, Idle)
    /\ UNCHANGED <<clock, sent>>

\* Mutant: the claim is not committed before the send.
ClaimNothing(c) ==
    /\ courier[c].pc = "decide"
    /\ Transport[courier[c].intent.route] = "pagerduty" => courier[c].intent.page
    /\ Goto(c, "send")
    /\ UNCHANGED <<storeVars, clock, sent>>

Claim(c) ==
    /\ courier[c].pc = "decide"
    /\ Transport[courier[c].intent.route] = "pagerduty" => courier[c].intent.page
    /\ AppendEvent(courier[c].row, 1, [outcome |-> "claimed", deliberate |-> FALSE,
                                       at |-> courier[c].at])
    /\ Goto(c, "send")
    /\ UNCHANGED <<clock, sent>>

\* A request is answered with success or failure, or may have arrived or not;
\* an inbox file is created or not, and may be incomplete.
Send(c) ==
    /\ courier[c].pc = "send"
    /\ \E outcome \in {"accepted", "failed", "unknown"} :
         LET nothing == Transport[courier[c].intent.route] = "local_file" /\ outcome = "failed"
         IN  /\ sent' = [sent EXCEPT ![Identity(courier[c].intent)] = IF nothing THEN @ ELSE @ + 1]
             /\ Move(c, [courier[c] EXCEPT !.pc = "record", !.outcome = outcome])
    /\ UNCHANGED <<storeVars, clock>>

RecordOutcome(c) ==
    /\ courier[c].pc = "record"
    /\ clock' = clock + 1
    /\ AppendEvent(courier[c].row, 2, [outcome |-> courier[c].outcome, deliberate |-> FALSE,
                                       at |-> clock'])
    /\ Move(c, Idle)
    /\ UNCHANGED sent

\* The command fails or its process dies.
Abort(c) ==
    /\ courier[c].pc # "idle"
    /\ Move(c, Idle)
    /\ Reads

-----------------------------------------------------------------------------
(* The summary `nq status export` derives from the records.                  *)

\* Mutant: the failures of a route are not kept apart by condition.
ConditionOfRoute(row) == <<row.intent.route, 0>>

\* What an acceptance resolves: its route, and for a pager its condition.
Condition(row) ==
    <<row.intent.route, IF Transport[row.intent.route] = "pagerduty" THEN row.intent.condition ELSE 0>>

Claimed(row) == Len(row.events) = 1 /\ row.events[1].outcome = "claimed"

\* The events of record n that the summary counts: an outcome, a refusal that
\* was not deliberate, and a claim that has no outcome and is stale.
Counted(n, stale) ==
    {[outcome |-> e.outcome, at |-> e.at, record |-> n] :
       e \in {f \in {Outbox[n].events[k] : k \in DOMAIN Outbox[n].events} :
                CASE f.outcome = "claimed" -> Claimed(Outbox[n]) /\ n \in stale
                  [] f.outcome = "refused" -> ~ f.deliberate
                  [] OTHER -> TRUE}}

\* The records whose counted event is the newest of its condition and is not
\* an acceptance.
Unresolved(stale) ==
    LET events == UNION {Counted(n, stale) : n \in DOMAIN Outbox}
    IN  {e.record : e \in {f \in events :
           /\ f.outcome # "accepted"
           /\ \A g \in events :
                Condition(Outbox[g.record]) = Condition(Outbox[f.record]) => g.at <= f.at}}

-----------------------------------------------------------------------------
(* Properties.                                                               *)

\* One event is sent to one destination at most once, whichever processes
\* submit it, again and at the same time, wherever they die and whatever a
\* power loss takes back (retain_notification_delivery and the claim before
\* the send).
SentAtMostOnce == \A k \in Identities : sent[k] <= 1

\* What a record says happened did: nothing was sent for a refused record nor
\* for a failed inbox file, an accepted one was sent, and a pending one was
\* not unless a power loss took its claim (NOTIFICATIONS.md, delivery
\* outcomes).
RecordsAreHonest ==
    \A n \in DOMAIN Outbox :
      LET row == Outbox[n]
          times == sent[Identity(row.intent)]
      IN  CASE DeliveryState(row) = "refused" -> times = 0
            [] DeliveryState(row) = "accepted" -> times = 1
            [] DeliveryState(row) = "failed" ->
                 Transport[row.intent.route] = "local_file" => times = 0
            [] DeliveryState(row) = "pending" -> times = 0 \/ losses > 0
            [] OTHER -> TRUE

\* A resubmission never overtakes a record that was there when it looked: when
\* it sends, every record of its condition created after the one it copies was
\* retained after its look (prepare_resubmission).
ResubmissionFollowsNewest ==
    \A c \in Couriers :
      courier[c].pc = "send" /\ courier[c].source # 0 =>
        \A m \in DOMAIN Outbox :
          LET old == Outbox[courier[c].source] IN
          (/\ Outbox[m].intent.route = old.intent.route
           /\ Outbox[m].intent.condition = old.intent.condition
           /\ Outbox[m].created > old.created
           /\ m # courier[c].row) => m > courier[c].asof

\* A failure stays visible: a delivery that failed, was refused for a fault or
\* was claimed by a process that is gone is listed, or a later failure of its
\* condition is, until a delivery of that condition is accepted
\* (notification_delivery_summary).
FailureStaysVisible ==
    LET held == {courier[c].row : c \in {d \in Couriers : courier[d].pc \in {"send", "record"}}}
        stale == {n \in DOMAIN Outbox : Claimed(Outbox[n])} \ held
        Same(m, n) ==
            /\ Outbox[m].intent.route = Outbox[n].intent.route
            /\ Transport[Outbox[n].intent.route] = "pagerduty" =>
                 Outbox[m].intent.condition = Outbox[n].intent.condition
    IN  \A n \in DOMAIN Outbox :
          \A e \in Counted(n, stale) :
            (/\ e.outcome # "accepted"
             /\ \A m \in DOMAIN Outbox : Same(m, n) =>
                  \A f \in Counted(m, {}) : f.outcome = "accepted" => f.at < e.at)
            => \E m \in Unresolved(stale) : Same(m, n)

\* An operator who acts on what the records show acts on the newest state of a
\* condition: failures are listed and a resubmission copies the newest record.
NewestIsShown == FailureStaysVisible /\ ResubmissionFollowsNewest
=============================================================================
