--------------------------- MODULE CustodyProofs ----------------------------
(***************************************************************************)
(* Proofs about Custody for every set of processes, intents, evaluations   *)
(* and earlier histories, and every bound on power losses.                 *)
(*                                                                         *)
(* The tables a power loss may fall back to are those of `disk`.  Hence    *)
(* IInv says what holds of both, and that `disk` is an earlier state of    *)
(* the same records.  NewestInv adds the order and the times of the        *)
(* records, which NewestIsShown rests on.                                  *)
(***************************************************************************)
EXTENDS Custody, TLAPS, WellFoundedInduction

-----------------------------------------------------------------------------
(* Deliveries. *)

\* A state of the outbox the commands can have written.
OutboxInv(outbox) ==
    /\ \A n \in DOMAIN outbox : Written(outbox[n])
    /\ \A m, n \in DOMAIN outbox :
         Identity(outbox[m].intent) = Identity(outbox[n].intent) => m = n

\* The records a power loss would leave are the first ones, each with the first
\* of its events.
OutboxPrefix(old, new) ==
    /\ Len(old) <= Len(new)
    /\ \A n \in DOMAIN old :
         /\ old[n].intent = new[n].intent
         /\ Len(old[n].events) <= Len(new[n].events)
         /\ \A k \in DOMAIN old[n].events : old[n].events[k] = new[n].events[k]

\* A settled record says how often its identity was sent.
Honest(row) ==
    LET times == sent[Identity(row.intent)] IN
    /\ Len(row.events) = 1 /\ row.events[1].outcome = "refused" => times = 0
    /\ Len(row.events) = 2 /\ row.events[2].outcome = "accepted" => times = 1
    /\ (/\ Len(row.events) = 2 /\ row.events[2].outcome = "failed"
        /\ Transport[row.intent.route] = "local_file") => times = 0

\* What a delivering process knows of the record it retained: no one else
\* works on it, and nothing was sent before its own send.
CourierInv(c) ==
    courier[c].pc \in {"decide", "send", "record"} =>
      LET me == courier[c]
          times == sent[Identity(me.intent)]
      IN  /\ me.row \in DOMAIN db.outbox
          /\ db.outbox[me.row].intent = me.intent
          /\ \A d \in Couriers :
               courier[d].pc \in {"decide", "send", "record"} /\ courier[d].row = me.row => d = c
          /\ me.pc = "decide" => db.outbox[me.row].events = <<>> /\ times = 0
          /\ me.pc \in {"send", "record"} =>
               /\ Len(db.outbox[me.row].events) = 1
               /\ db.outbox[me.row].events[1].outcome = "claimed"
               /\ me.row \in DOMAIN disk.outbox
          /\ me.pc = "send" => times = 0
          /\ me.pc = "record" =>
               /\ me.outcome # "none"
               /\ me.outcome = "accepted" => times = 1
               /\ me.outcome = "failed" /\ Transport[me.intent.route] = "local_file" => times = 0

\* Whatever was sent has a record that no power loss takes, and before the
\* first power loss that record has a claim.
SentInv ==
    \A k \in Identities :
      /\ sent[k] \in {0, 1}
      /\ sent[k] = 1 =>
           /\ \E n \in DOMAIN disk.outbox : Identity(disk.outbox[n].intent) = k
           /\ losses = 0 => \E n \in DOMAIN db.outbox :
                /\ Identity(db.outbox[n].intent) = k
                /\ db.outbox[n].events # <<>>

DeliveryInv ==
    /\ OutboxInv(db.outbox) /\ OutboxInv(disk.outbox) /\ OutboxPrefix(disk.outbox, db.outbox)
    /\ \A n \in DOMAIN db.outbox : Honest(db.outbox[n])
    /\ \A n \in DOMAIN disk.outbox : Honest(disk.outbox[n])
    /\ \A c \in Couriers : CourierInv(c)
    /\ SentInv

-----------------------------------------------------------------------------
(* Saved checks. *)

\* An evaluation has one claim, and one result at most, after its claim and
\* with its binding.
ChecksInv(checks) ==
    /\ \A j, k \in DOMAIN checks :
         (/\ checks[j].evaluation = checks[k].evaluation
          /\ (checks[j].outcome = "claimed" <=> checks[k].outcome = "claimed")) => j = k
    /\ \A k \in DOMAIN checks : checks[k].outcome # "claimed" =>
         \E j \in DOMAIN checks : /\ j < k /\ checks[j].outcome = "claimed"
                                  /\ checks[j].evaluation = checks[k].evaluation
                                  /\ checks[j].binding = checks[k].binding

\* A power loss takes the newest event at most.
ChecksPrefix(old, new) ==
    /\ Len(old) <= Len(new) /\ Len(new) <= Len(old) + 1
    /\ \A k \in DOMAIN old : old[k] = new[k]

HasClaim(checks, e, b) ==
    \E k \in DOMAIN checks : /\ checks[k].evaluation = e /\ checks[k].binding = b
                             /\ checks[k].outcome = "claimed"

\* What an evaluating process knows once it has its claim.
CheckerInv(c) ==
    checker[c].pc \in {"read", "finish"} =>
      LET me == checker[c] IN
      /\ HasClaim(db.checks, me.evaluation, me.binding)
      /\ \A k \in DOMAIN db.checks :
           db.checks[k].evaluation = me.evaluation => db.checks[k].outcome = "claimed"
      /\ \A d \in Checkers : (/\ checker[d].pc \in {"read", "finish"}
                              /\ checker[d].evaluation = me.evaluation) => d = c
      /\ me.pc = "read" => reads[me.evaluation] <= losses

ReadsInv ==
    \A e \in Evaluations :
      reads[e] <= losses + (IF \E b \in Binding : HasClaim(db.checks, e, b) THEN 1 ELSE 0)

\* An outcome someone was told belongs to a claim no power loss takes, and no
\* other outcome can be reached.
AnsweredInv ==
    \A a \in answers : a.outcome # "claimed" =>
      /\ HasClaim(disk.checks, a.evaluation, a.binding)
      /\ \A c \in Checkers : checker[c].pc \in {"read", "finish"} =>
           checker[c].evaluation # a.evaluation
      /\ \A k \in DOMAIN db.checks :
           db.checks[k].evaluation = a.evaluation /\ db.checks[k].outcome # "claimed" =>
             db.checks[k].outcome = a.outcome

CheckInv ==
    /\ ChecksInv(db.checks) /\ ChecksInv(disk.checks) /\ ChecksPrefix(disk.checks, db.checks)
    /\ \A c \in Checkers : CheckerInv(c)
    /\ ReadsInv
    /\ AnsweredInv
    /\ AnswersAgree

IInv == TypeOK /\ DeliveryInv /\ CheckInv

-----------------------------------------------------------------------------
(* The store. *)

\* A commit changes the tables, and a power loss may fall back to the tables
\* before it.
LEMMA CommitFacts ==
    ASSUME NEW new, Commit(new)
    PROVE  db' = new /\ disk' \in {db, new} /\ losses' = losses
BY Zenon DEF Commit

\* What TypeOK says of the tables.
LEMMA TableTypes ==
    ASSUME NEW t \in Tables
    PROVE  /\ t.outbox \in Seq(Record) /\ t.checks \in Seq(Check)
           /\ t.definitions \in [References -> Materials \cup {NoMaterial}]
           /\ t = [outbox |-> t.outbox, definitions |-> t.definitions, checks |-> t.checks]
           /\ Len(t.outbox) \in Nat /\ DOMAIN t.outbox = 1 .. Len(t.outbox)
           /\ Len(t.checks) \in Nat /\ DOMAIN t.checks = 1 .. Len(t.checks)
           /\ \A n \in DOMAIN t.outbox : t.outbox[n] \in Record
           /\ \A k \in DOMAIN t.checks : t.checks[k] \in Check
<1>1. /\ t.outbox \in Seq(Record) /\ t.checks \in Seq(Check)
      /\ t.definitions \in [References -> Materials \cup {NoMaterial}]
      /\ t = [outbox |-> t.outbox, definitions |-> t.definitions, checks |-> t.checks]
  BY Zenon DEF Tables
<1> QED
  BY <1>1

\* A record, its events and their number.
LEMMA RecordTypes ==
    ASSUME NEW r \in Record
    PROVE  /\ r.intent \in Intent /\ r.events \in Seq(Event) /\ Len(r.events) \in Nat
           /\ DOMAIN r.events = 1 .. Len(r.events)
           /\ Identity(r.intent) \in Identities
<1>1. r.intent \in Intent /\ r.events \in Seq(Event)
  BY Zenon DEF Record
<1>2. Identity(r.intent) \in Identities
  BY <1>1, Zenon DEF Intent, Identity, Identities
<1> QED
  BY <1>1, <1>2

\* The elements of a sequence after an Append.
LEMMA AppendElements ==
    ASSUME NEW S, NEW s \in Seq(S), NEW x \in S
    PROVE  /\ Append(s, x) \in Seq(S) /\ Len(Append(s, x)) = Len(s) + 1 /\ Len(s) \in Nat
           /\ DOMAIN s = 1 .. Len(s) /\ DOMAIN Append(s, x) = (DOMAIN s) \cup {Len(s) + 1}
           /\ Len(s) + 1 \notin DOMAIN s
           /\ \A i \in DOMAIN s : Append(s, x)[i] = s[i]
           /\ Append(s, x)[Len(s) + 1] = x
OBVIOUS

\* The second of two events.
LEMMA SecondElement ==
    ASSUME NEW S, NEW s \in Seq(S), NEW x \in S, Len(s) = 1
    PROVE  Len(Append(s, x)) = 2 /\ Append(s, x)[2] = x
<1>1. Len(Append(s, x)) = Len(s) + 1 /\ Append(s, x)[Len(s) + 1] = x
  BY AppendElements
<1> QED
  BY <1>1

\* Deliveries are not disturbed by a step that leaves the outbox and the
\* couriers alone; its commit brings earlier records to stable storage.
LEMMA DeliveryFrame ==
    ASSUME TypeOK, DeliveryInv, UNCHANGED <<courier, sent, losses>>, db'.outbox = db.outbox,
           disk'.outbox \in {disk.outbox, db.outbox}
    PROVE  DeliveryInv'
<1>1. db \in Tables /\ disk \in Tables
  BY Zenon DEF TypeOK
<1>2. /\ DOMAIN db.outbox = 1 .. Len(db.outbox) /\ DOMAIN disk.outbox = 1 .. Len(disk.outbox)
      /\ Len(db.outbox) \in Nat /\ Len(disk.outbox) \in Nat
      /\ \A n \in DOMAIN db.outbox : db.outbox[n] \in Record /\ Len(db.outbox[n].events) \in Nat
  BY <1>1, TableTypes, RecordTypes, Zenon
<1>3. DOMAIN disk.outbox \subseteq DOMAIN db.outbox /\ DOMAIN disk.outbox \subseteq DOMAIN disk'.outbox
  BY <1>2 DEF DeliveryInv, OutboxPrefix
<1>4. OutboxInv(db'.outbox) /\ OutboxInv(disk'.outbox)
  BY Zenon DEF DeliveryInv
<1>5. OutboxPrefix(disk'.outbox, db'.outbox)
  <2>1. OutboxPrefix(db.outbox, db.outbox)
    BY <1>2 DEF OutboxPrefix
  <2> QED
    BY <2>1, Zenon DEF DeliveryInv
<1>6. /\ \A n \in DOMAIN db'.outbox : Honest(db.outbox[n])'
      /\ \A n \in DOMAIN disk'.outbox : Honest(disk.outbox[n])'
  <2>1. ASSUME NEW n \in DOMAIN db'.outbox PROVE Honest(db.outbox[n])'
    <3>1. Honest(db.outbox[n])
      BY ZenonT(90) DEF DeliveryInv
    <3> QED
      BY <3>1, Zenon DEF Honest
  <2>2. ASSUME NEW n \in DOMAIN disk'.outbox PROVE Honest(disk.outbox[n])'
    <3>1. PICK t \in {disk, db} : disk'.outbox = t.outbox
      BY Zenon
    <3>2. Honest(t.outbox[n])
      BY <3>1, Zenon DEF DeliveryInv
    <3> QED
      BY <3>1, <3>2, Zenon DEF Honest
  <2> QED
    BY <2>1, <2>2, ZenonT(90)
<1>7. ASSUME NEW c \in Couriers PROVE CourierInv(c)'
  BY <1>3, ZenonT(90) DEF DeliveryInv, CourierInv
<1>8. SentInv'
  <2> SUFFICES ASSUME NEW k \in Identities, sent[k] = 1
               PROVE  /\ \E n \in DOMAIN disk'.outbox : Identity(disk'.outbox[n].intent) = k
                      /\ losses = 0 => \E n \in DOMAIN db.outbox :
                           Identity(db.outbox[n].intent) = k /\ db.outbox[n].events # <<>>
    BY Zenon DEF DeliveryInv, SentInv
  <2>1. PICK n \in DOMAIN disk.outbox : Identity(disk.outbox[n].intent) = k
    BY Zenon DEF DeliveryInv, SentInv
  <2>2. n \in DOMAIN disk'.outbox /\ disk'.outbox[n].intent = disk.outbox[n].intent
    BY <1>3, Zenon DEF DeliveryInv, OutboxPrefix
  <2> QED
    BY <2>1, <2>2, Zenon DEF DeliveryInv, SentInv
<1> QED
  BY <1>4, <1>5, <1>6, <1>7, <1>8, Zenon DEF DeliveryInv

\* Saved checks are not disturbed by a step that leaves their events and the
\* checkers alone.
LEMMA CheckFrame ==
    ASSUME TypeOK, CheckInv, UNCHANGED <<checker, reads, answers, losses>>, db'.checks = db.checks,
           disk'.checks \in {disk.checks, db.checks}
    PROVE  CheckInv'
<1>1. db \in Tables /\ disk \in Tables
  BY Zenon DEF TypeOK
<1>2. /\ DOMAIN db.checks = 1 .. Len(db.checks) /\ DOMAIN disk.checks = 1 .. Len(disk.checks)
      /\ Len(db.checks) \in Nat /\ Len(disk.checks) \in Nat
  BY <1>1, TableTypes, Zenon
<1>3. ChecksInv(db'.checks) /\ ChecksInv(disk'.checks)
  BY Zenon DEF CheckInv
<1>4. ChecksPrefix(disk'.checks, db'.checks)
  BY <1>2 DEF CheckInv, ChecksPrefix
<1>5. \A c \in Checkers : CheckerInv(c)'
  BY DEF CheckInv, CheckerInv, HasClaim
<1>6. ReadsInv'
  BY Zenon DEF CheckInv, ReadsInv, HasClaim
<1>7. \A e, b : HasClaim(disk.checks, e, b) => HasClaim(disk'.checks, e, b)
  <2>1. DOMAIN disk.checks \subseteq DOMAIN db.checks /\ \A k \in DOMAIN disk.checks : disk.checks[k] = db.checks[k]
    BY <1>2 DEF CheckInv, ChecksPrefix
  <2> QED
    BY <2>1, Zenon DEF HasClaim
<1>8. AnsweredInv'
  BY <1>7 DEF CheckInv, AnsweredInv
<1>9. AnswersAgree'
  BY Zenon DEF CheckInv, AnswersAgree
<1> QED
  BY <1>3, <1>4, <1>5, <1>6, <1>8, <1>9, Zenon DEF CheckInv

-----------------------------------------------------------------------------
(* Steps of a delivery. *)

Working == {"decide", "send", "record"}

\* The fields a delivering process has once it may write.
LEMMA CourierTypes ==
    ASSUME TypeOK, NEW c \in Couriers, courier[c].pc \in Working \cup {"retain"}
    PROVE  /\ courier[c] \in [pc : {"retain", "decide", "send", "record"}, intent : Intent, row : Nat,
                              source : Nat, asof : Nat, at : Nat,
                              outcome : {"none", "accepted", "failed", "unknown"}]
           /\ Identity(courier[c].intent) \in Identities
<1>1. courier[c] \in CourierState
  BY Zenon DEF TypeOK
<1>2. courier[c] \in [pc : {"retain", "decide", "send", "record"}, intent : Intent, row : Nat,
                      source : Nat, asof : Nat, at : Nat,
                      outcome : {"none", "accepted", "failed", "unknown"}]
  BY <1>1 DEF CourierState, Idle, Working
<1>3. courier[c].intent \in Intent
  BY <1>2, ZenonT(90)
<1> QED
  BY <1>2, <1>3, Zenon DEF Intent, Identity, Identities

\* A courier that does not move keeps what it knows while its record does.
LEMMA CourierOther ==
    ASSUME DeliveryInv, NEW d \in Couriers, courier'[d] = courier[d],
           courier[d].pc \in Working =>
             /\ courier[d].row \in DOMAIN db'.outbox
             /\ db'.outbox[courier[d].row] = db.outbox[courier[d].row]
             /\ (courier[d].row \in DOMAIN disk.outbox => courier[d].row \in DOMAIN disk'.outbox)
             /\ sent'[Identity(courier[d].intent)] = sent[Identity(courier[d].intent)]
             /\ \A e \in Couriers : courier'[e].pc \in Working /\ courier'[e].row = courier[d].row => e = d
    PROVE  CourierInv(d)'
<1>1. CourierInv(d)
  BY Zenon DEF DeliveryInv
<1> QED
  BY <1>1, ZenonT(90) DEF CourierInv, Working

\* A process that holds no record when it has moved, and wrote nothing.
LEMMA CourierRests ==
    ASSUME TypeOK, DeliveryInv, NEW c \in Couriers, NEW new \in CourierState, new.pc \notin Working,
           Move(c, new), UNCHANGED <<db, disk, losses, sent>>
    PROVE  DeliveryInv' /\ courier' \in [Couriers -> CourierState]
<1>1. courier' \in [Couriers -> CourierState] /\ courier'[c] = new
      /\ \A d \in Couriers \ {c} : courier'[d] = courier[d]
  BY Zenon DEF TypeOK, Move
<1>2. ASSUME NEW d \in Couriers PROVE CourierInv(d)'
  <2>1. CASE d = c
    BY <1>1, <2>1, ZenonT(90) DEF CourierInv, Working
  <2>2. CASE d # c
    <3>1. CourierInv(d)
      BY Zenon DEF DeliveryInv
    <3>2. \A e \in Couriers : courier'[e].pc \in Working => courier'[e] = courier[e]
      BY <1>1, Zenon
    <3> QED
      BY <1>1, <2>2, <3>1, <3>2, ZenonT(90) DEF CourierInv, Working
  <2> QED
    BY <2>1, <2>2, Zenon
<1>3. /\ \A n \in DOMAIN db'.outbox : Honest(db.outbox[n])'
      /\ \A n \in DOMAIN disk'.outbox : Honest(disk.outbox[n])'
  BY Zenon DEF DeliveryInv, Honest
<1>4. SentInv'
  BY Zenon DEF DeliveryInv, SentInv
<1> QED
  BY <1>1, <1>2, <1>3, <1>4, Zenon DEF DeliveryInv

\* An outbox is a prefix of itself.
LEMMA SamePrefix ==
    ASSUME NEW outbox, Len(outbox) \in Nat, \A n \in DOMAIN outbox : Len(outbox[n].events) \in Nat
    PROVE  OutboxPrefix(outbox, outbox)
BY DEF OutboxPrefix

\* A list as long as one that is not empty is not empty.
LEMMA LongerList ==
    ASSUME NEW s \in Seq(Event), NEW t \in Seq(Event), s # <<>>, Len(s) <= Len(t)
    PROVE  t # <<>>
OBVIOUS

\* The second event of a record follows a claim.
LEMMA SecondEvent ==
    ASSUME NEW row, NEW outcome, EventAllowed(row, 2, outcome)
    PROVE  Len(row.events) = 1 /\ row.events[1].outcome = "claimed" /\ outcome \in {"failed", "unknown", "accepted"}
BY DEF EventAllowed

\* A commit of the outbox keeps what the invariant says of the records.
LEMMA DeliveryCommit ==
    ASSUME TypeOK, DeliveryInv, db' \in Tables, disk' \in {db, db'}, UNCHANGED <<losses, sent>>,
           OutboxInv(db'.outbox), OutboxPrefix(db.outbox, db'.outbox),
           \A n \in DOMAIN db'.outbox : Honest(db'.outbox[n]),
           \A c \in Couriers : CourierInv(c)'
    PROVE  DeliveryInv'
<1>1. db \in Tables /\ disk \in Tables
  BY Zenon DEF TypeOK
<1>2. /\ DOMAIN db.outbox = 1 .. Len(db.outbox) /\ DOMAIN disk.outbox = 1 .. Len(disk.outbox)
      /\ DOMAIN db'.outbox = 1 .. Len(db'.outbox) /\ Len(db'.outbox) \in Nat
      /\ Len(db.outbox) \in Nat /\ Len(disk.outbox) \in Nat
      /\ \A n \in DOMAIN db'.outbox : Len(db'.outbox[n].events) \in Nat /\ db'.outbox[n].events \in Seq(Event)
      /\ \A n \in DOMAIN db.outbox : Len(db.outbox[n].events) \in Nat /\ db.outbox[n].events \in Seq(Event)
  BY <1>1, TableTypes, RecordTypes, Zenon
<1>3. OutboxInv(disk'.outbox) /\ OutboxPrefix(disk'.outbox, db'.outbox)
  <2>1. OutboxPrefix(db'.outbox, db'.outbox)
    BY <1>2, SamePrefix, ZenonT(90)
  <2> QED
    BY <2>1, ZenonT(90) DEF DeliveryInv
<1>4. ASSUME NEW n \in DOMAIN db'.outbox PROVE Honest(db.outbox[n])'
  <2>1. Honest(db'.outbox[n])
    BY ZenonT(90)
  <2> QED
    BY <2>1, Zenon DEF Honest
<1>5. ASSUME NEW n \in DOMAIN disk'.outbox PROVE Honest(disk.outbox[n])'
  <2>1. Honest(disk'.outbox[n])
    BY Zenon DEF DeliveryInv
  <2> QED
    BY <2>1, ZenonT(90) DEF Honest
<1>6. DOMAIN disk.outbox \subseteq DOMAIN db.outbox /\ DOMAIN db.outbox \subseteq DOMAIN db'.outbox
  BY <1>2 DEF DeliveryInv, OutboxPrefix
<1>7. ASSUME NEW k \in Identities, sent[k] = 1
      PROVE  /\ \E n \in DOMAIN disk'.outbox : Identity(disk'.outbox[n].intent) = k
             /\ losses = 0 => \E n \in DOMAIN db'.outbox :
                  Identity(db'.outbox[n].intent) = k /\ db'.outbox[n].events # <<>>
  <2>1. PICK n \in DOMAIN disk.outbox : Identity(disk.outbox[n].intent) = k
    BY <1>7, Zenon DEF DeliveryInv, SentInv
  <2>2. n \in DOMAIN disk'.outbox /\ disk'.outbox[n].intent = disk.outbox[n].intent
    BY <1>6, Zenon DEF DeliveryInv, OutboxPrefix
  <2>3. ASSUME losses = 0
        PROVE  \E m \in DOMAIN db'.outbox :
                 Identity(db'.outbox[m].intent) = k /\ db'.outbox[m].events # <<>>
    <3>1. PICK m \in DOMAIN db.outbox : Identity(db.outbox[m].intent) = k /\ db.outbox[m].events # <<>>
      BY <1>7, <2>3, Zenon DEF DeliveryInv, SentInv
    <3>2. m \in DOMAIN db'.outbox /\ db'.outbox[m].intent = db.outbox[m].intent
          /\ Len(db.outbox[m].events) <= Len(db'.outbox[m].events)
      BY <1>6, Zenon DEF OutboxPrefix
    <3>3. db.outbox[m].events \in Seq(Event) /\ db'.outbox[m].events \in Seq(Event)
      BY <1>2, <3>2, ZenonT(90)
    <3>4. db'.outbox[m].events # <<>>
      BY <3>1, <3>2, <3>3, LongerList, ZenonT(90)
    <3> QED
      BY <3>1, <3>2, <3>4, Zenon
  <2> QED
    BY <2>1, <2>2, <2>3, Zenon
<1>8. SentInv'
  BY <1>7, ZenonT(90) DEF DeliveryInv, SentInv
<1> QED
  BY <1>3, <1>4, <1>5, <1>8, Zenon DEF DeliveryInv

\* An event is appended to one record and nothing else changes.
LEMMA AppendEventFacts ==
    ASSUME TypeOK, NEW n \in DOMAIN db.outbox, NEW number, NEW event \in Event,
           AppendEvent(n, number, event)
    PROVE  /\ db' \in Tables /\ disk' \in {db, db'} /\ losses' = losses
           /\ db'.checks = db.checks
           /\ DOMAIN db'.outbox = DOMAIN db.outbox /\ Len(db'.outbox) = Len(db.outbox)
           /\ \A m \in DOMAIN db.outbox : m # n => db'.outbox[m] = db.outbox[m]
           /\ db'.outbox[n].intent = db.outbox[n].intent /\ db'.outbox[n].created = db.outbox[n].created
           /\ db'.outbox[n].events = Append(db.outbox[n].events, event)
           /\ EventAllowed(db.outbox[n], number, event.outcome)
<1> DEFINE row == [db.outbox[n] EXCEPT !.events = Append(@, event)]
           box == [db.outbox EXCEPT ![n] = row]
           new == [db EXCEPT !.outbox = box]
<1>1. db \in Tables /\ db.outbox[n] \in Record /\ n \in 1 .. Len(db.outbox) /\ db.outbox \in Seq(Record)
  BY TableTypes, Zenon DEF TypeOK
<1>2. Append(db.outbox[n].events, event) \in Seq(Event)
  BY <1>1, RecordTypes, AppendElements, Zenon
<1>3. /\ row \in Record /\ row.intent = db.outbox[n].intent /\ row.created = db.outbox[n].created
      /\ row.events = Append(db.outbox[n].events, event)
  BY <1>1, <1>2, Zenon DEF Record
<1> HIDE DEF row
<1>4. /\ box \in Seq(Record) /\ Len(box) = Len(db.outbox)
      /\ \A j \in 1 .. Len(db.outbox) : box[j] = IF j = n THEN row ELSE db.outbox[j]
  BY <1>1, <1>3
<1> HIDE DEF box
<1>5. new \in Tables /\ new.outbox = box /\ new.checks = db.checks
  BY <1>1, <1>4, TableTypes, Zenon DEF Tables
<1>6. Commit(new) /\ EventAllowed(db.outbox[n], number, event.outcome)
  BY Zenon DEF AppendEvent, Outbox, row, box
<1> HIDE DEF new
<1>7. db' = new /\ disk' \in {db, db'} /\ losses' = losses
  BY <1>6, CommitFacts, Zenon
<1>8. DOMAIN db'.outbox = DOMAIN db.outbox
  BY <1>1, <1>4, <1>5, <1>7, TableTypes, Zenon
<1>9. /\ \A m \in DOMAIN db.outbox : m # n => db'.outbox[m] = db.outbox[m]
      /\ db'.outbox[n] = row
  BY <1>1, <1>4, <1>5, <1>7, TableTypes, ZenonT(90)
<1> QED
  BY <1>3, <1>4, <1>5, <1>6, <1>7, <1>8, <1>9, Zenon

\* What an event of the process that retained a record leaves: the shape of
\* the records, and each earlier event.
LEMMA EventStep ==
    ASSUME TypeOK, DeliveryInv, NEW c \in Couriers, courier[c].pc \in Working, NEW number \in {1, 2},
           NEW event \in Event, AppendEvent(courier[c].row, number, event),
           NEW new \in CourierState, new.pc \in Working => new.row = courier[c].row,
           Move(c, new), UNCHANGED sent,
           Honest(db'.outbox[courier[c].row]),
           CourierInv(c)'
    PROVE  /\ DeliveryInv' /\ db' \in Tables /\ disk' \in {db, db'} /\ losses' = losses
           /\ db'.checks = db.checks /\ courier' \in [Couriers -> CourierState]
<1> DEFINE n == courier[c].row
<1>1. n \in DOMAIN db.outbox
  BY ZenonT(90) DEF DeliveryInv, CourierInv, Working
<1>2. /\ db' \in Tables /\ disk' \in {db, db'} /\ losses' = losses
      /\ db'.checks = db.checks
      /\ DOMAIN db'.outbox = DOMAIN db.outbox /\ Len(db'.outbox) = Len(db.outbox)
      /\ \A m \in DOMAIN db.outbox : m # n => db'.outbox[m] = db.outbox[m]
      /\ db'.outbox[n].intent = db.outbox[n].intent
      /\ db'.outbox[n].events = Append(db.outbox[n].events, event)
      /\ EventAllowed(db.outbox[n], number, event.outcome)
  BY <1>1, AppendEventFacts, Zenon
<1> HIDE DEF n
<1>3. db \in Tables /\ disk \in Tables /\ db.outbox \in Seq(Record) /\ Len(db.outbox) \in Nat
      /\ db.outbox[n] \in Record /\ db.outbox[n].events \in Seq(Event)
      /\ \A m \in DOMAIN db.outbox : db.outbox[m].events \in Seq(Event)
  BY <1>1, TableTypes, RecordTypes, ZenonT(90) DEF TypeOK
<1> DEFINE events == db.outbox[n].events
<1>4. /\ Append(events, event) \in Seq(Event) /\ Len(Append(events, event)) = Len(events) + 1
      /\ Len(events) \in Nat /\ DOMAIN events = 1 .. Len(events)
      /\ \A k \in DOMAIN events : Append(events, event)[k] = events[k]
      /\ Append(events, event)[Len(events) + 1] = event
  <2>1. events \in Seq(Event)
    BY <1>3, Zenon
  <2> HIDE DEF events
  <2> QED
    BY <2>1, AppendElements
<1>5. OutboxPrefix(db.outbox, db'.outbox)
  <2>1. \A m \in DOMAIN db.outbox :
          /\ db.outbox[m].intent = db'.outbox[m].intent
          /\ Len(db.outbox[m].events) <= Len(db'.outbox[m].events)
          /\ \A k \in DOMAIN db.outbox[m].events : db.outbox[m].events[k] = db'.outbox[m].events[k]
    <3> SUFFICES ASSUME NEW m \in DOMAIN db.outbox
                 PROVE  /\ db.outbox[m].intent = db'.outbox[m].intent
                        /\ Len(db.outbox[m].events) <= Len(db'.outbox[m].events)
                        /\ \A k \in DOMAIN db.outbox[m].events :
                             db.outbox[m].events[k] = db'.outbox[m].events[k]
      BY Zenon
    <3>1. CASE m = n
      <4>1. db'.outbox[m].events = Append(events, event) /\ db.outbox[m].events = events
        BY <1>2, <3>1, ZenonT(90)
      <4>2. db.outbox[m].intent = db'.outbox[m].intent
        BY <1>2, <3>1, ZenonT(90)
      <4> HIDE DEF events
      <4> QED
        BY <1>4, <4>1, <4>2
    <3>2. CASE m # n
      <4>1. db'.outbox[m] = db.outbox[m]
        BY <1>2, <3>2, ZenonT(90)
      <4>2. Len(db.outbox[m].events) \in Nat
        BY <1>3
      <4> QED
        BY <4>1, <4>2
    <3> QED
      BY <3>1, <3>2, Zenon
  <2>2. Len(db'.outbox) = Len(db.outbox) /\ Len(db.outbox) \in Nat
    BY <1>2, <1>3, Zenon
  <2> QED
    BY <2>1, <2>2 DEF OutboxPrefix
<1>6. OutboxInv(db'.outbox)
  <2>1. Written(db'.outbox[n])
    <3>1. Written(db.outbox[n])
      BY <1>1, ZenonT(90) DEF DeliveryInv, OutboxInv
    <3>2. CASE number = 1
      <4>1. events = <<>> /\ event.outcome \in {"claimed", "refused"}
        <5>1. EventAllowed(db.outbox[n], number, event.outcome)
          BY <1>2, Zenon
        <5> QED
          BY <5>1, <3>2, Zenon DEF EventAllowed
      <4>2. Len(events) = 0
        BY <4>1
      <4>3. Len(Append(events, event)) = 1 /\ Append(events, event)[1] = event
        BY <1>4, <4>2
      <4> QED
        BY <1>2, <4>1, <4>3, ZenonT(90) DEF Written
    <3>3. CASE number = 2
      <4>1. Len(events) = 1 /\ events[1].outcome = "claimed"
            /\ event.outcome \in {"failed", "unknown", "accepted"}
        <5>1. EventAllowed(db.outbox[n], number, event.outcome)
          BY <1>2, Zenon
        <5> QED
          BY <5>1, <3>3, SecondEvent, ZenonT(90)
      <4>2. /\ Len(Append(events, event)) = 2 /\ Append(events, event)[2] = event
            /\ Append(events, event)[1] = events[1]
        BY <1>4, <4>1
      <4> QED
        BY <1>2, <4>1, <4>2, ZenonT(90) DEF Written
    <3> QED
      BY <3>2, <3>3, Zenon
  <2>2. \A m \in DOMAIN db'.outbox : Written(db'.outbox[m])
    BY <1>2, <2>1, ZenonT(90) DEF DeliveryInv, OutboxInv
  <2>3. \A m \in DOMAIN db'.outbox : db'.outbox[m].intent = db.outbox[m].intent
    BY <1>2, ZenonT(90)
  <2> QED
    BY <1>2, <2>2, <2>3, ZenonT(90) DEF DeliveryInv, OutboxInv
<1>7. \A m \in DOMAIN db'.outbox : Honest(db'.outbox[m])
  BY <1>2, ZenonT(90) DEF DeliveryInv, n
<1>8. /\ courier' \in [Couriers -> CourierState] /\ courier'[c] = new
      /\ \A d \in Couriers \ {c} : courier'[d] = courier[d]
  BY Zenon DEF TypeOK, Move
<1>9. ASSUME NEW d \in Couriers \ {c} PROVE CourierInv(d)'
  <2>1. ASSUME courier[d].pc \in Working
        PROVE  /\ courier[d].row \in DOMAIN db.outbox /\ courier[d].row # n
               /\ \A e \in Couriers : courier[e].pc \in Working /\ courier[e].row = courier[d].row => e = d
    BY <2>1, ZenonT(90) DEF DeliveryInv, CourierInv, Working, n
  <2>2. disk'.outbox \in {db.outbox, db'.outbox}
    BY <1>2, ZenonT(90)
  <2>3. ASSUME courier[d].pc \in Working, NEW e \in Couriers, courier'[e].pc \in Working,
               courier'[e].row = courier[d].row
        PROVE  e = d
    BY <1>8, <2>1, <2>3, ZenonT(90) DEF n
  <2> QED
    BY <1>2, <1>8, <2>1, <2>2, <2>3, CourierOther, ZenonT(90)
<1>10. \A d \in Couriers : CourierInv(d)'
  BY <1>9, Zenon
<1> QED
  BY <1>2, <1>5, <1>6, <1>7, <1>8, <1>10, DeliveryCommit, ZenonT(90)

\* What a step of a courier leaves to the rest of the store.
Apart == /\ db' \in Tables /\ disk' \in Tables /\ losses' \in 0 .. MaxLosses /\ clock' \in Nat
         /\ courier' \in [Couriers -> CourierState] /\ sent' \in [Identities -> Nat]
         /\ UNCHANGED <<checker, reads, answers, losses>>
         /\ db'.checks = db.checks /\ disk'.checks \in {disk.checks, db.checks}

\* The other half of the invariant follows from that.
LEMMA CourierStep ==
    ASSUME IInv, DeliveryInv', Apart
    PROVE  IInv'
<1>1. TypeOK'
  BY Zenon DEF IInv, TypeOK, Apart
<1>2. CheckInv'
  BY CheckFrame, Zenon DEF IInv, Apart
<1> QED
  BY <1>1, <1>2, Zenon DEF IInv

\* A process that only reads, starts a record or gives up.
LEMMA RestStep ==
    ASSUME IInv, NEW c \in Couriers, NEW new \in CourierState, new.pc \notin Working, Move(c, new),
           UNCHANGED <<storeVars, sent, savedCheckVars>>, clock' \in Nat
    PROVE  IInv'
<1>1. UNCHANGED <<db, disk, losses, sent, checker, reads, answers>> /\ TypeOK /\ DeliveryInv
  BY Zenon DEF storeVars, savedCheckVars, IInv
<1>2. DeliveryInv' /\ courier' \in [Couriers -> CourierState]
  BY <1>1, CourierRests, Zenon
<1>3. Apart
  BY <1>1, <1>2, Zenon DEF Apart, TypeOK
<1> QED
  BY <1>2, <1>3, CourierStep, Zenon

LEMMA SubmitInv ==
    ASSUME IInv, NEW c \in Couriers, Submit(c), UNCHANGED savedCheckVars
    PROVE  IInv'
<1>1. PICK i \in Intents : Stamp(c, i, 0, 0)
  BY Zenon DEF Submit
<1> DEFINE new == [pc |-> "retain", intent |-> i, row |-> 0, source |-> 0, asof |-> 0,
                   at |-> clock', outcome |-> "none"]
<1>2. clock' \in Nat /\ i \in Intent
  BY <1>1, NotificationAssumption DEF Stamp, IInv, TypeOK
<1>3. new \in CourierState /\ new.pc \notin Working
  BY <1>2, Zenon DEF CourierState, Working
<1> QED
  BY <1>1, <1>2, <1>3, RestStep, Zenon DEF Stamp, Submit

LEMMA ResubmitInv ==
    ASSUME IInv, NEW c \in Couriers, Resubmit(c), UNCHANGED savedCheckVars
    PROVE  IInv'
<1>1. PICK n \in DOMAIN db.outbox, e \in Events :
        Move(c, [pc |-> "newest", intent |-> [db.outbox[n].intent EXCEPT !.event = e], source |-> n])
  BY Zenon DEF Resubmit, Outbox
<1> DEFINE new == [pc |-> "newest", intent |-> [db.outbox[n].intent EXCEPT !.event = e], source |-> n]
<1>2. db.outbox[n] \in Record /\ n \in Nat
  BY TableTypes DEF IInv, TypeOK
<1>3. db.outbox[n].intent \in Intent
  BY <1>2, RecordTypes, Zenon
<1>4. [db.outbox[n].intent EXCEPT !.event = e] \in Intent
  BY <1>3, Zenon DEF Intent
<1>5. new \in CourierState /\ new.pc \notin Working
  BY <1>2, <1>4, Zenon DEF CourierState, Working
<1>6. clock' \in Nat /\ UNCHANGED <<storeVars, sent>>
  BY Zenon DEF Resubmit, Reads, IInv, TypeOK
<1> QED
  BY <1>1, <1>5, <1>6, RestStep, Zenon

LEMMA IdleState == Idle \in CourierState /\ Idle.pc \notin Working
BY Zenon DEF Idle, CourierState, Working

LEMMA CheckNewestInv ==
    ASSUME IInv, NEW c \in Couriers, CheckNewest(c), UNCHANGED savedCheckVars
    PROVE  IInv'
<1> DEFINE new == [pc |-> "lookup", intent |-> courier[c].intent, source |-> courier[c].source,
                   asof |-> Len(Outbox)]
<1>1. courier[c] \in [pc : {"newest"}, intent : Intent, source : Nat]
  <2>1. courier[c] \in CourierState /\ courier[c].pc = "newest"
    BY Zenon DEF IInv, TypeOK, CheckNewest
  <2> QED
    BY <2>1 DEF CourierState, Idle
<1>2. Len(Outbox) \in Nat
  BY TableTypes, ZenonT(90) DEF IInv, TypeOK, Outbox
<1>3. new \in CourierState /\ new.pc \notin Working
  BY <1>1, <1>2, Zenon DEF CourierState, Working
<1>4. clock' \in Nat /\ UNCHANGED <<storeVars, sent>>
  BY ZenonT(90) DEF CheckNewest, Reads, IInv, TypeOK
<1>5. Move(c, new) \/ Move(c, Idle)
  BY ZenonT(90) DEF CheckNewest
<1> QED
  BY <1>3, <1>4, <1>5, IdleState, RestStep, Zenon

LEMMA SubmitAgainInv ==
    ASSUME IInv, NEW c \in Couriers, SubmitAgain(c), UNCHANGED savedCheckVars
    PROVE  IInv'
<1> DEFINE new == [pc |-> "retain", intent |-> courier[c].intent, row |-> 0,
                   source |-> courier[c].source, asof |-> courier[c].asof,
                   at |-> clock + 1, outcome |-> "none"]
<1>1. courier[c] \in [pc : {"lookup"}, intent : Intent, source : Nat, asof : Nat]
  BY DEF IInv, TypeOK, SubmitAgain, CourierState, Idle
<1>2. clock \in Nat /\ UNCHANGED <<storeVars, sent>>
  BY ZenonT(90) DEF SubmitAgain, IInv, TypeOK
<1>3. new \in CourierState /\ new.pc \notin Working
  BY <1>1, <1>2 DEF CourierState, Working
<1>4. clock' \in Nat /\ (Move(c, new) \/ Move(c, Idle))
  <2>1. CASE Retained(courier[c].intent) = {}
    <3>1. clock' = clock + 1 /\ Move(c, [new EXCEPT !.at = clock'])
      BY <2>1 DEF SubmitAgain, Stamp
    <3>2. [new EXCEPT !.at = clock'] = new
      BY <3>1
    <3> QED
      BY <1>2, <3>1, <3>2
  <2>2. CASE Retained(courier[c].intent) # {}
    <3>1. Move(c, Idle) /\ clock' = clock
      BY <2>2, Zenon DEF SubmitAgain
    <3> QED
      BY <1>2, <3>1, Zenon
  <2> QED
    BY <2>1, <2>2, Zenon
<1> QED
  BY <1>2, <1>3, <1>4, IdleState, RestStep, ZenonT(90)

LEMMA AbortInv ==
    ASSUME IInv, NEW c \in Couriers, Abort(c), UNCHANGED savedCheckVars
    PROVE  IInv'
<1>1. clock' \in Nat /\ UNCHANGED <<storeVars, sent>> /\ Move(c, Idle)
  BY Zenon DEF Abort, Reads, IInv, TypeOK
<1> QED
  BY <1>1, IdleState, RestStep, Zenon

\* A record without events says nothing about what was sent.
LEMMA FreshHonest ==
    ASSUME NEW row, Len(row.events) = 0
    PROVE  Honest(row)
BY DEF Honest

\* An inserted record leaves the earlier ones a prefix.
LEMMA AppendedPrefix ==
    ASSUME NEW old, NEW new, Len(old) \in Nat, Len(new) = Len(old) + 1,
           \A m \in DOMAIN old : new[m] = old[m] /\ Len(old[m].events) \in Nat
    PROVE  OutboxPrefix(old, new)
BY DEF OutboxPrefix

\* The identity is looked up in the transaction that inserts the record, so
\* there is no other record of it and nothing was sent for it.
LEMMA RetainDeliveryInv ==
    ASSUME IInv, NEW c \in Couriers, RetainDelivery(c), UNCHANGED savedCheckVars
    PROVE  IInv'
<1>1. /\ courier[c].pc = "retain" /\ UNCHANGED <<clock, sent>> /\ clock' \in Nat
      /\ TypeOK /\ DeliveryInv /\ UNCHANGED <<checker, reads, answers>>
  BY Zenon DEF RetainDelivery, IInv, TypeOK, savedCheckVars
<1>2. CASE Move(c, Idle) /\ UNCHANGED storeVars
  BY <1>1, <1>2, IdleState, RestStep, Zenon
<1>3. CASE Retained(courier[c].intent) = {} /\ InsertRow(c)
  <2> DEFINE me == courier[c]
             row == [intent |-> me.intent, created |-> me.at, events |-> <<>>]
             n == Len(db.outbox) + 1
             new == [db EXCEPT !.outbox = Append(@, row)]
             state == [me EXCEPT !.pc = "decide", !.row = n]
  <2>1. /\ me \in [pc : {"retain", "decide", "send", "record"}, intent : Intent, row : Nat,
                   source : Nat, asof : Nat, at : Nat,
                   outcome : {"none", "accepted", "failed", "unknown"}]
        /\ Identity(me.intent) \in Identities
    BY <1>1, CourierTypes, Zenon DEF Working
  <2>2. db \in Tables /\ disk \in Tables /\ db.outbox \in Seq(Record)
        /\ DOMAIN db.outbox = 1 .. Len(db.outbox) /\ Len(db.outbox) \in Nat
    BY <1>1, TableTypes, ZenonT(90) DEF TypeOK
  <2>3. row \in Record /\ row.intent = me.intent /\ row.events = <<>>
    BY <2>1 DEF Record
  <2>4. state \in CourierState /\ state.pc = "decide" /\ state.row = n /\ state.intent = me.intent
    <3>1. n \in Nat
      BY <2>2
    <3>2. state \in [pc : {"retain", "decide", "send", "record"}, intent : Intent, row : Nat,
                    source : Nat, asof : Nat, at : Nat,
                    outcome : {"none", "accepted", "failed", "unknown"}]
      BY <2>1, <3>1, Zenon
    <3>3. state.pc = "decide" /\ state.row = n /\ state.intent = me.intent
      BY <2>1, ZenonT(90)
    <3> QED
      BY <3>2, <3>3, Zenon DEF CourierState
  <2> HIDE DEF row, state
  <2>5. /\ Append(db.outbox, row) \in Seq(Record) /\ Len(Append(db.outbox, row)) = n
        /\ DOMAIN Append(db.outbox, row) = (DOMAIN db.outbox) \cup {n} /\ n \notin DOMAIN db.outbox
        /\ \A m \in DOMAIN db.outbox : Append(db.outbox, row)[m] = db.outbox[m]
        /\ Append(db.outbox, row)[n] = row
    BY <2>2, <2>3, AppendElements
  <2>6. new \in Tables /\ new.outbox = Append(db.outbox, row) /\ new.checks = db.checks
    BY <2>2, <2>5, TableTypes, ZenonT(90) DEF Tables
  <2>7. Commit(new) /\ Move(c, state)
    BY <1>3, Zenon DEF InsertRow, Outbox, row, state
  <2> HIDE DEF new
  <2>8. db' = new /\ disk' \in {db, db'} /\ losses' = losses
    BY <2>7, CommitFacts, Zenon
  <2>9. /\ courier' \in [Couriers -> CourierState] /\ courier'[c] = state
        /\ \A d \in Couriers \ {c} : courier'[d] = courier[d]
    BY <1>1, <2>4, <2>7, Zenon DEF TypeOK, Move
  <2> HIDE DEF n
  <2>10. \A m \in DOMAIN db.outbox : Identity(db.outbox[m].intent) # Identity(me.intent)
    BY <1>3, ZenonT(90) DEF Retained, Outbox
  <2>11. sent[Identity(me.intent)] = 0
    <3>1. \A m \in DOMAIN disk.outbox : m \in DOMAIN db.outbox /\ disk.outbox[m].intent = db.outbox[m].intent
      <4>1. OutboxPrefix(disk.outbox, db.outbox)
        BY <1>1, Zenon DEF DeliveryInv
      <4>2. Len(disk.outbox) \in Nat /\ DOMAIN disk.outbox = 1 .. Len(disk.outbox)
        BY <2>2, TableTypes, Zenon
      <4> QED
        BY <2>2, <4>1, <4>2 DEF OutboxPrefix
    <3>2. SentInv
      BY <1>1, Zenon DEF DeliveryInv
    <3> QED
      BY <2>1, <2>10, <3>1, <3>2, ZenonT(60) DEF SentInv
  <2>12. OutboxInv(db'.outbox)
    <3>1. Written(row)
      BY <2>3, ZenonT(90) DEF Written
    <3> QED
      <4>1. \A m \in DOMAIN db'.outbox : Written(db'.outbox[m])
        BY <1>1, <2>5, <2>6, <2>8, <3>1, ZenonT(90) DEF DeliveryInv, OutboxInv
      <4>2. ASSUME NEW l \in DOMAIN db'.outbox, NEW m \in DOMAIN db'.outbox,
                   Identity(db'.outbox[l].intent) = Identity(db'.outbox[m].intent)
            PROVE  l = m
        <5>1. \A j \in DOMAIN db.outbox : db'.outbox[j].intent = db.outbox[j].intent
          BY <2>5, <2>6, <2>8, ZenonT(90)
        <5>2. db'.outbox[n].intent = me.intent
          BY <2>3, <2>5, <2>6, <2>8, ZenonT(90)
        <5>3. l \in (DOMAIN db.outbox) \cup {n} /\ m \in (DOMAIN db.outbox) \cup {n}
          BY <2>5, <2>6, <2>8, ZenonT(90)
        <5>4. CASE l = n \/ m = n
          BY <2>10, <4>2, <5>1, <5>2, <5>3, <5>4, ZenonT(90)
        <5>5. CASE l # n /\ m # n
          <6>1. OutboxInv(db.outbox)
            BY <1>1, Zenon DEF DeliveryInv
          <6> QED
            BY <4>2, <5>1, <5>3, <5>5, <6>1, Zenon DEF OutboxInv
        <5> QED
          BY <5>4, <5>5, Zenon
      <4> QED
        BY <4>1, <4>2, Zenon DEF OutboxInv
  <2>13. OutboxPrefix(db.outbox, db'.outbox)
    <3>1. \A m \in DOMAIN db.outbox : Len(db.outbox[m].events) \in Nat
      BY <2>2, TableTypes, RecordTypes, Zenon
    <3>2. Len(db'.outbox) = Len(db.outbox) + 1 /\ \A m \in DOMAIN db.outbox : db'.outbox[m] = db.outbox[m]
      BY <2>5, <2>6, <2>8, ZenonT(90) DEF n
    <3> QED
      BY <2>2, <3>1, <3>2, AppendedPrefix, ZenonT(90)
  <2>14. \A m \in DOMAIN db'.outbox : Honest(db'.outbox[m])
    <3>1. Honest(row)
      <4>1. Len(row.events) = 0
        BY <2>3
      <4> QED
        BY <4>1, FreshHonest, ZenonT(90)
    <3> QED
      BY <1>1, <2>5, <2>6, <2>8, <3>1, ZenonT(90) DEF DeliveryInv
  <2>15. \A d \in Couriers \ {c} : courier[d].pc \in Working => courier[d].row \in DOMAIN db.outbox
    BY <1>1, ZenonT(90) DEF DeliveryInv, CourierInv, Working
  <2>16. CourierInv(c)'
    <3>1. \A d \in Couriers : courier'[d].pc \in Working /\ courier'[d].row = n => d = c
      <4> SUFFICES ASSUME NEW d \in Couriers \ {c}, courier'[d].pc \in Working, courier'[d].row = n
                   PROVE  FALSE
        BY Zenon
      <4>1. courier'[d] = courier[d]
        BY <2>9, Zenon
      <4> QED
        BY <2>5, <2>15, <4>1, ZenonT(90)
    <3>2. n \in DOMAIN db'.outbox /\ db'.outbox[n] = row
      BY <2>5, <2>6, <2>8, ZenonT(90)
    <3> QED
      BY <1>1, <2>3, <2>4, <2>9, <2>11, <3>1, <3>2, ZenonT(90) DEF CourierInv, Working
  <2>17. ASSUME NEW d \in Couriers \ {c} PROVE CourierInv(d)'
    <3>1. ASSUME courier[d].pc \in Working
          PROVE  \A e \in Couriers : courier[e].pc \in Working /\ courier[e].row = courier[d].row => e = d
      BY <1>1, <3>1, ZenonT(90) DEF DeliveryInv, CourierInv, Working
    <3>2. ASSUME courier[d].pc \in Working, NEW e \in Couriers, courier'[e].pc \in Working,
                 courier'[e].row = courier[d].row
          PROVE  e = d
      <4>1. CASE e = c
        <5>1. courier'[e].row = n
          BY <2>4, <2>9, <4>1, ZenonT(90)
        <5> QED
          BY <2>5, <2>15, <3>2, <5>1, ZenonT(90)
      <4>2. CASE e # c
        <5>1. courier'[e] = courier[e]
          BY <2>9, <4>2, Zenon
        <5> QED
          BY <3>1, <3>2, <5>1, ZenonT(90)
      <4> QED
        BY <4>1, <4>2, Zenon
    <3>3. courier[d].pc \in Working =>
            /\ courier[d].row \in DOMAIN db'.outbox
            /\ db'.outbox[courier[d].row] = db.outbox[courier[d].row]
            /\ courier[d].row \in DOMAIN disk'.outbox
      BY <2>5, <2>6, <2>8, <2>15, ZenonT(90)
    <3> QED
      BY <1>1, <2>9, <3>2, <3>3, CourierOther, Zenon
  <2>18. DeliveryInv'
    BY <1>1, <2>6, <2>8, <2>12, <2>13, <2>14, <2>16, <2>17, DeliveryCommit, ZenonT(90)
  <2>19. Apart
    BY <1>1, <2>2, <2>6, <2>8, <2>9, ZenonT(90) DEF Apart, TypeOK
  <2> QED
    BY <2>18, <2>19, CourierStep, ZenonT(90)
<1> QED
  BY <1>2, <1>3, Zenon DEF RetainDelivery

-----------------------------------------------------------------------------
(* Steps of a saved check. *)

Reading == {"read", "finish"}

\* The fields an evaluating process has while it evaluates.
LEMMA CheckerTypes ==
    ASSUME TypeOK, NEW c \in Checkers, checker[c].pc # "idle"
    PROVE  /\ checker[c] \in [pc : {"lookup", "claim", "read", "finish"}, evaluation : Evaluations,
                              binding : Binding, outcome : Results \cup {"none"}]
           /\ checker[c].pc = "finish" => checker[c].outcome \in Results
           /\ checker[c].pc # "finish" => checker[c].outcome = "none"
<1>1. checker[c] \in CheckerState
  BY Zenon DEF TypeOK
<1> QED
  BY <1>1 DEF CheckerState, Asleep

LEMMA AsleepState == Asleep \in CheckerState /\ Asleep.pc = "idle"
BY Zenon DEF Asleep, CheckerState

\* What a step of a checker leaves to the rest of the store.
Beside == /\ db' \in Tables /\ disk' \in Tables /\ reads' \in [Evaluations -> Nat]
          /\ checker' \in [Checkers -> CheckerState] /\ answers' \subseteq Check
          /\ UNCHANGED <<courier, clock, sent, losses>>
          /\ db'.outbox = db.outbox /\ disk'.outbox \in {disk.outbox, db.outbox}

\* The other half of the invariant follows from that.
LEMMA CheckerStep ==
    ASSUME IInv, CheckInv', Beside
    PROVE  IInv'
<1>1. TypeOK'
  BY Zenon DEF IInv, TypeOK, Beside
<1>2. DeliveryInv'
  BY DeliveryFrame, Zenon DEF IInv, Beside
<1> QED
  BY <1>1, <1>2, Zenon DEF IInv

\* What ChecksInv says of one result: it follows its claim and is the only one.
LEMMA ResultFacts ==
    ASSUME NEW checks, ChecksInv(checks), NEW k \in DOMAIN checks, checks[k].outcome # "claimed"
    PROVE  /\ \E j \in DOMAIN checks : /\ j < k /\ checks[j].outcome = "claimed"
                                       /\ checks[j].evaluation = checks[k].evaluation
                                       /\ checks[j].binding = checks[k].binding
           /\ \A m \in DOMAIN checks :
                checks[m].evaluation = checks[k].evaluation /\ checks[m].outcome # "claimed" => m = k
BY Zenon DEF ChecksInv

\* One event more: the first of its evaluation, a claim.
LEMMA ClaimAdded ==
    ASSUME NEW old, NEW new, NEW n, ChecksInv(old), DOMAIN new = (DOMAIN old) \cup {n},
           \A k \in DOMAIN old : new[k] = old[k] /\ k < n,
           new[n].outcome = "claimed", \A k \in DOMAIN old : old[k].evaluation # new[n].evaluation
    PROVE  ChecksInv(new)
BY DEF ChecksInv

\* One event more: the first result of a claimed evaluation.
ResultAfter(old, new, n) ==
    /\ DOMAIN new = (DOMAIN old) \cup {n}
    /\ \A k \in DOMAIN old : new[k] = old[k] /\ k < n
    /\ new[n].outcome # "claimed" /\ HasClaim(old, new[n].evaluation, new[n].binding)
    /\ \A k \in DOMAIN old : old[k].evaluation = new[n].evaluation => old[k].outcome = "claimed"

\* Such an event keeps the invariant of the events.
LEMMA ResultAdded ==
    ASSUME NEW old, NEW new, NEW n, ChecksInv(old), ResultAfter(old, new, n)
    PROVE  ChecksInv(new)
BY DEF ChecksInv, HasClaim, ResultAfter

\* The claims after one event more.
LEMMA ClaimsAfter ==
    ASSUME NEW old, NEW new, NEW n, DOMAIN new = (DOMAIN old) \cup {n},
           \A k \in DOMAIN old : new[k] = old[k], NEW e, NEW b,
           ~ (new[n].outcome = "claimed" /\ new[n].evaluation = e /\ new[n].binding = b)
    PROVE  HasClaim(new, e, b) <=> HasClaim(old, e, b)
BY Zenon DEF HasClaim

LEMMA ChecksFacts ==
    ASSUME TypeOK, CheckInv
    PROVE  /\ db \in Tables /\ disk \in Tables
           /\ db.checks \in Seq(Check) /\ Len(db.checks) \in Nat /\ Len(disk.checks) \in Nat
           /\ DOMAIN db.checks = 1 .. Len(db.checks) /\ DOMAIN disk.checks = 1 .. Len(disk.checks)
           /\ \A k \in DOMAIN db.checks : db.checks[k] \in Check
           /\ DOMAIN disk.checks \subseteq DOMAIN db.checks
           /\ \A e, b : HasClaim(disk.checks, e, b) => HasClaim(db.checks, e, b)
           /\ \A e, a, b : HasClaim(db.checks, e, a) /\ HasClaim(db.checks, e, b) => a = b
<1>1. /\ db \in Tables /\ disk \in Tables
      /\ db.checks \in Seq(Check) /\ Len(db.checks) \in Nat /\ Len(disk.checks) \in Nat
      /\ DOMAIN db.checks = 1 .. Len(db.checks) /\ DOMAIN disk.checks = 1 .. Len(disk.checks)
      /\ \A k \in DOMAIN db.checks : db.checks[k] \in Check
  BY TableTypes, Zenon DEF TypeOK
<1>2. DOMAIN disk.checks \subseteq DOMAIN db.checks /\ \A k \in DOMAIN disk.checks : disk.checks[k] = db.checks[k]
  BY <1>1 DEF CheckInv, ChecksPrefix
<1>3. \A e, b : HasClaim(disk.checks, e, b) => HasClaim(db.checks, e, b)
  BY <1>2, Zenon DEF HasClaim
<1>4. \A e, a, b : HasClaim(db.checks, e, a) /\ HasClaim(db.checks, e, b) => a = b
  BY DEF CheckInv, ChecksInv, HasClaim
<1> QED
  BY <1>1, <1>2, <1>3, <1>4, Zenon

\* What was answered stays true when no process begins to read.
LEMMA AnsweredFrame ==
    ASSUME AnsweredInv, answers' = answers, db' = db, disk' = disk,
           \A d \in Checkers : checker'[d].pc \in Reading =>
             checker[d].pc \in Reading /\ checker'[d].evaluation = checker[d].evaluation
    PROVE  AnsweredInv'
<1> SUFFICES ASSUME NEW a \in answers, a.outcome # "claimed"
             PROVE  /\ HasClaim(disk'.checks, a.evaluation, a.binding)
                    /\ \A d \in Checkers : checker'[d].pc \in Reading =>
                         checker'[d].evaluation # a.evaluation
                    /\ \A k \in DOMAIN db'.checks :
                         db'.checks[k].evaluation = a.evaluation /\ db'.checks[k].outcome # "claimed" =>
                           db'.checks[k].outcome = a.outcome
  BY Zenon DEF AnsweredInv, Reading
<1>1. /\ HasClaim(disk.checks, a.evaluation, a.binding)
      /\ \A d \in Checkers : checker[d].pc \in Reading => checker[d].evaluation # a.evaluation
      /\ \A k \in DOMAIN db.checks :
           db.checks[k].evaluation = a.evaluation /\ db.checks[k].outcome # "claimed" =>
             db.checks[k].outcome = a.outcome
  BY Zenon DEF AnsweredInv, Reading
<1> QED
  BY <1>1, Zenon

\* A process that leaves the table alone and does not read.
LEMMA CheckerRests ==
    ASSUME IInv, NEW c \in Checkers, NEW new \in CheckerState, new.pc \notin Reading,
           SetChecker(c, new), UNCHANGED <<db, disk, losses, reads, courier, clock, sent>>,
           \/ answers' = answers
           \/ \E a \in Check :
                /\ answers' = answers \cup {a}
                /\ a.outcome # "claimed" =>
                     \E k \in DOMAIN db.checks : /\ db.checks[k].evaluation = a.evaluation
                                                 /\ db.checks[k].binding = a.binding
                                                 /\ db.checks[k].outcome = a.outcome
    PROVE  IInv'
<1>1. TypeOK /\ CheckInv
  BY Zenon DEF IInv
<1>2. /\ checker' \in [Checkers -> CheckerState] /\ checker'[c] = new
      /\ \A d \in Checkers \ {c} : checker'[d] = checker[d]
  BY <1>1, Zenon DEF TypeOK, SetChecker
<1>3. \A d \in Checkers : checker'[d].pc \in Reading => checker'[d] = checker[d]
  BY <1>2, Zenon
<1>4. ASSUME NEW d \in Checkers PROVE CheckerInv(d)'
  <2>1. CheckerInv(d)
    BY <1>1, ZenonT(90) DEF CheckInv
  <2> QED
    BY <1>3, <2>1, ZenonT(90) DEF CheckerInv, Reading
<1>5. ReadsInv'
  BY <1>1, ZenonT(90) DEF CheckInv, ReadsInv
<1>6. AnsweredInv' /\ AnswersAgree' /\ answers' \subseteq Check
  <2>1. CASE answers' = answers
    <3>1. AnsweredInv /\ AnswersAgree /\ answers \subseteq Check
      BY <1>1, Zenon DEF CheckInv, TypeOK
    <3>2. AnsweredInv'
      BY <1>3, <2>1, <3>1, AnsweredFrame, Zenon
    <3> QED
      BY <2>1, <3>1, <3>2, Zenon DEF AnswersAgree
  <2>2. ASSUME NEW a \in Check, answers' = answers \cup {a},
               a.outcome # "claimed" =>
                 \E k \in DOMAIN db.checks : /\ db.checks[k].evaluation = a.evaluation
                                             /\ db.checks[k].binding = a.binding
                                             /\ db.checks[k].outcome = a.outcome
        PROVE  AnsweredInv' /\ AnswersAgree' /\ answers' \subseteq Check
    <3>0. ChecksInv(db.checks)
      BY <1>1, Zenon DEF CheckInv
    <3>1. ASSUME a.outcome # "claimed"
          PROVE  /\ HasClaim(disk.checks, a.evaluation, a.binding)
                 /\ HasClaim(db.checks, a.evaluation, a.binding)
                 /\ \A d \in Checkers : checker[d].pc \in Reading => checker[d].evaluation # a.evaluation
                 /\ \A k \in DOMAIN db.checks :
                      db.checks[k].evaluation = a.evaluation /\ db.checks[k].outcome # "claimed" =>
                        db.checks[k].outcome = a.outcome
                 /\ \A b \in answers : b.evaluation = a.evaluation /\ b.outcome # "claimed" =>
                      b.outcome = a.outcome
      <4>1. PICK k \in DOMAIN db.checks : /\ db.checks[k].evaluation = a.evaluation
                                          /\ db.checks[k].binding = a.binding
                                          /\ db.checks[k].outcome = a.outcome
        BY <2>2, <3>1, SMTT(30)
      <4>2. PICK j \in DOMAIN db.checks : /\ j < k /\ db.checks[j].outcome = "claimed"
                                          /\ db.checks[j].evaluation = a.evaluation
                                          /\ db.checks[j].binding = a.binding
        BY <3>0, <3>1, <4>1, ResultFacts, SMTT(30)
      <4>3. j \in DOMAIN disk.checks
        BY <1>1, <4>2, ChecksFacts DEF CheckInv, ChecksPrefix
      <4>4. disk.checks[j] = db.checks[j]
        BY <1>1, <4>3, Zenon DEF CheckInv, ChecksPrefix
      <4>5. HasClaim(disk.checks, a.evaluation, a.binding) /\ HasClaim(db.checks, a.evaluation, a.binding)
        BY <4>2, <4>3, <4>4, Zenon DEF HasClaim
      <4>6. \A m \in DOMAIN db.checks :
              db.checks[m].evaluation = a.evaluation /\ db.checks[m].outcome # "claimed" => m = k
        BY <3>0, <3>1, <4>1, ResultFacts
      <4>7. \A d \in Checkers : checker[d].pc \in Reading => checker[d].evaluation # a.evaluation
        BY <1>1, <3>1, <4>1, ZenonT(90) DEF CheckInv, CheckerInv, Reading
      <4>8. \A b \in answers : b.evaluation = a.evaluation /\ b.outcome # "claimed" => b.outcome = a.outcome
        BY <1>1, <3>1, <4>1 DEF CheckInv, AnsweredInv
      <4> QED
        BY <4>1, <4>5, <4>6, <4>7, <4>8, ZenonT(90)
    <3>2. AnsweredInv'
      <4> SUFFICES ASSUME NEW b \in answers', b.outcome # "claimed"
                   PROVE  /\ HasClaim(disk.checks, b.evaluation, b.binding)
                          /\ \A d \in Checkers : checker'[d].pc \in Reading => checker'[d].evaluation # b.evaluation
                          /\ \A k \in DOMAIN db.checks :
                               db.checks[k].evaluation = b.evaluation /\ db.checks[k].outcome # "claimed" =>
                                 db.checks[k].outcome = b.outcome
        BY Zenon DEF AnsweredInv, Reading
      <4>1. CASE b \in answers
        BY <1>1, <1>3, <4>1 DEF CheckInv, AnsweredInv, Reading
      <4>2. CASE b = a
        BY <1>3, <3>1, <4>2, Zenon
      <4> QED
        BY <2>2, <4>1, <4>2, ZenonT(90)
    <3>3. ASSUME NEW b \in answers, b.outcome # "claimed", a.outcome # "claimed", b.evaluation = a.evaluation
          PROVE  b = a
      <4>1. b \in Check
        BY <1>1, Zenon DEF TypeOK
      <4>2. HasClaim(db.checks, a.evaluation, b.binding)
        BY <1>1, <3>3, ChecksFacts, ZenonT(90) DEF CheckInv, AnsweredInv
      <4>3. b.binding = a.binding /\ b.outcome = a.outcome
        BY <1>1, <3>1, <3>3, <4>2, ChecksFacts, ZenonT(90)
      <4> QED
        BY <3>3, <4>1, <4>3 DEF Check
    <3>4. AnswersAgree'
      BY <1>1, <2>2, <3>3, ZenonT(60) DEF CheckInv, AnswersAgree
    <3> QED
      BY <1>1, <2>2, <3>2, <3>4, Zenon DEF TypeOK
  <2> QED
    BY <2>1, <2>2, ZenonT(90)
<1>7. CheckInv'
  BY <1>1, <1>4, <1>5, <1>6, Zenon DEF CheckInv
<1>8. Beside
  BY <1>1, <1>2, <1>6, Zenon DEF Beside, TypeOK
<1> QED
  BY <1>7, <1>8, CheckerStep, Zenon

LEMMA InstallInv ==
    ASSUME IInv, Install, UNCHANGED notificationVars
    PROVE  IInv'
<1>1. PICK r \in References, m \in Materials : Commit([db EXCEPT !.definitions[r] = m])
  BY Zenon DEF Install
<1> DEFINE new == [db EXCEPT !.definitions[r] = m]
<1>2. db \in Tables /\ TypeOK /\ CheckInv
  BY Zenon DEF IInv, TypeOK
<1>3. new \in Tables /\ new.outbox = db.outbox /\ new.checks = db.checks
  BY <1>2, TableTypes, ZenonT(90) DEF Tables
<1>4. Commit(new)
  BY <1>1, Zenon
<1> HIDE DEF new
<1>5. db' = new /\ disk' \in {db, new} /\ losses' = losses
  BY <1>4, CommitFacts, Zenon
<1>6. UNCHANGED <<checker, reads, answers, courier, clock, sent>>
  BY Zenon DEF Install, savedCheckVars, notificationVars
<1>7. CheckInv'
  BY <1>2, <1>3, <1>5, <1>6, CheckFrame, ZenonT(90)
<1>8. Beside
  BY <1>2, <1>3, <1>5, <1>6, Zenon DEF Beside, TypeOK
<1> QED
  BY <1>7, <1>8, CheckerStep, Zenon

LEMMA EvaluateInv ==
    ASSUME IInv, NEW c \in Checkers, Evaluate(c), UNCHANGED notificationVars
    PROVE  IInv'
<1>1. PICK r \in References, t \in Targets, e \in Evaluations :
        /\ db.definitions[r] # NoMaterial
        /\ SetChecker(c, [pc |-> "lookup", evaluation |-> e, binding |-> <<r, db.definitions[r], t>>,
                          outcome |-> "none"])
  BY Zenon DEF Evaluate, Definitions
<1> DEFINE new == [pc |-> "lookup", evaluation |-> e, binding |-> <<r, db.definitions[r], t>>,
                   outcome |-> "none"]
<1>2. db.definitions[r] \in Materials
  BY <1>1, TableTypes, ZenonT(60) DEF IInv, TypeOK
<1>3. <<r, db.definitions[r], t>> \in Binding
  BY <1>2, Zenon DEF Binding
<1>4. new \in CheckerState /\ new.pc \notin Reading
  BY <1>3, SMTT(30) DEF CheckerState, Reading
<1>5. UNCHANGED <<db, disk, losses, reads, answers, courier, clock, sent>>
  BY SMTT(30) DEF Evaluate, storeVars, notificationVars
<1> QED
  BY <1>1, <1>4, <1>5, CheckerRests, Zenon

LEMMA DropInv ==
    ASSUME IInv, NEW c \in Checkers, Drop(c), UNCHANGED notificationVars
    PROVE  IInv'
<1>1. UNCHANGED <<db, disk, losses, reads, answers, courier, clock, sent>> /\ SetChecker(c, Asleep)
  BY Zenon DEF Drop, storeVars, notificationVars
<1> QED
  BY <1>1, AsleepState, CheckerRests, Zenon DEF Reading

\* A known evaluation is answered from its newest event.
LEMMA ReplayEvaluationInv ==
    ASSUME IInv, NEW c \in Checkers, ReplayEvaluation(c), UNCHANGED notificationVars
    PROVE  IInv'
<1> DEFINE me == checker[c]
<1>1. UNCHANGED <<db, disk, losses, reads, courier, clock, sent>> /\ me.pc = "lookup" /\ TypeOK
  BY Zenon DEF ReplayEvaluation, storeVars, notificationVars, IInv
<1>2. me \in [pc : {"lookup", "claim", "read", "finish"}, evaluation : Evaluations,
              binding : Binding, outcome : Results \cup {"none"}] /\ me.outcome = "none"
  BY <1>1, CheckerTypes, Zenon
<1>3. CASE SetChecker(c, [me EXCEPT !.pc = "claim"]) /\ answers' = answers
  <2>1. [me EXCEPT !.pc = "claim"] \in CheckerState /\ [me EXCEPT !.pc = "claim"].pc \notin Reading
    BY <1>2, Zenon DEF CheckerState, Reading
  <2> QED
    BY <1>1, <1>3, <2>1, CheckerRests, ZenonT(90)
<1>4. CASE SetChecker(c, Asleep) /\ answers' = answers
  BY <1>1, <1>4, AsleepState, CheckerRests, ZenonT(90) DEF Reading
<1>5. ASSUME SetChecker(c, Asleep), NEW k \in DOMAIN db.checks, db.checks[k].evaluation = me.evaluation,
             db.checks[k].binding = me.binding,
             Answer(me.evaluation, me.binding, db.checks[k].outcome)
      PROVE  IInv'
  <2> DEFINE a == [evaluation |-> me.evaluation, binding |-> me.binding, outcome |-> db.checks[k].outcome]
  <2>1. db.checks[k] \in Check
    BY <1>1, TableTypes, SMTT(30) DEF TypeOK
  <2>2. /\ a \in Check /\ a.evaluation = me.evaluation /\ a.binding = me.binding
        /\ a.outcome = db.checks[k].outcome
    BY <1>2, <2>1, Zenon DEF Check
  <2>3. answers' = answers \cup {a}
    BY <1>5, Zenon DEF Answer
  <2> HIDE DEF a
  <2> QED
    BY <1>1, <1>5, <2>2, <2>3, AsleepState, CheckerRests, ZenonT(90) DEF Reading
<1>6. \/ SetChecker(c, [me EXCEPT !.pc = "claim"]) /\ answers' = answers
      \/ SetChecker(c, Asleep) /\ answers' = answers
      \/ /\ SetChecker(c, Asleep)
         /\ \E k \in DOMAIN db.checks :
              /\ db.checks[k].evaluation = me.evaluation /\ db.checks[k].binding = me.binding
              /\ Answer(me.evaluation, me.binding, db.checks[k].outcome)
  BY Zenon DEF ReplayEvaluation, Of, CheckEvents
<1> QED
  BY <1>3, <1>4, <1>5, <1>6, Zenon

\* The events on disk are all the events, or all but the one just appended.
LEMMA AppendedChecks ==
    ASSUME NEW old, NEW new, Len(old) \in Nat, Len(new) = Len(old) + 1, \A k \in DOMAIN old : new[k] = old[k]
    PROVE  ChecksPrefix(old, new) /\ ChecksPrefix(new, new)
BY DEF ChecksPrefix

\* An event of one evaluation is appended and nothing else changes.
LEMMA CheckCommit ==
    ASSUME IInv, NEW event \in Check, Commit([db EXCEPT !.checks = Append(@, event)])
    PROVE  /\ db' \in Tables /\ disk' \in Tables /\ losses' = losses /\ disk'.checks \in {db.checks, db'.checks}
           /\ db'.outbox = db.outbox /\ disk'.outbox = db.outbox
           /\ DOMAIN db'.checks = (DOMAIN db.checks) \cup {Len(db.checks) + 1}
           /\ Len(db.checks) \in Nat /\ Len(db'.checks) = Len(db.checks) + 1
           /\ Len(db.checks) + 1 \notin DOMAIN db.checks
           /\ \A k \in DOMAIN db.checks : db'.checks[k] = db.checks[k] /\ k < Len(db.checks) + 1
           /\ db'.checks[Len(db.checks) + 1] = event
           /\ ChecksPrefix(disk'.checks, db'.checks)
           /\ \A e, b : HasClaim(db.checks, e, b) => HasClaim(db'.checks, e, b) /\ HasClaim(disk'.checks, e, b)
           /\ \A e, b : HasClaim(disk.checks, e, b) => HasClaim(disk'.checks, e, b)
<1> DEFINE new == [db EXCEPT !.checks = Append(@, event)]
<1>1. db \in Tables /\ db.checks \in Seq(Check) /\ TypeOK /\ CheckInv
  BY TableTypes, Zenon DEF IInv, TypeOK
<1>2. /\ Append(db.checks, event) \in Seq(Check) /\ Len(Append(db.checks, event)) = Len(db.checks) + 1
      /\ Len(db.checks) \in Nat /\ DOMAIN db.checks = 1 .. Len(db.checks)
      /\ DOMAIN Append(db.checks, event) = (DOMAIN db.checks) \cup {Len(db.checks) + 1}
      /\ Len(db.checks) + 1 \notin DOMAIN db.checks
      /\ \A k \in DOMAIN db.checks : Append(db.checks, event)[k] = db.checks[k]
      /\ Append(db.checks, event)[Len(db.checks) + 1] = event
  BY <1>1, AppendElements
<1>3. new \in Tables /\ new.outbox = db.outbox /\ new.checks = Append(db.checks, event)
  BY <1>1, <1>2, TableTypes, Zenon DEF Tables
<1>4. Commit(new)
  BY Zenon
<1> HIDE DEF new
<1>5. db' = new /\ disk' \in {db, new} /\ losses' = losses
  BY <1>4, CommitFacts, Zenon
<1>6. ChecksPrefix(disk'.checks, db'.checks)
  BY <1>2, <1>3, <1>5, AppendedChecks, ZenonT(90)
<1>7. \A e, b : HasClaim(db.checks, e, b) => HasClaim(db'.checks, e, b) /\ HasClaim(disk'.checks, e, b)
  BY <1>2, <1>3, <1>5 DEF HasClaim
<1>8. \A e, b : HasClaim(disk.checks, e, b) => HasClaim(disk'.checks, e, b)
  BY <1>1, <1>7, ChecksFacts, Zenon
<1> QED
  BY <1>1, <1>2, <1>3, <1>5, <1>6, <1>7, <1>8, SMTT(30)

\* A claim is made once: its transaction finds no other.
LEMMA ClaimEvaluationInv ==
    ASSUME IInv, NEW c \in Checkers, ClaimEvaluation(c), UNCHANGED notificationVars
    PROVE  IInv'
<1> DEFINE me == checker[c]
           e == me.evaluation
<1>1. reads' = reads /\ UNCHANGED <<courier, clock, sent>> /\ me.pc = "claim" /\ TypeOK /\ CheckInv
  BY Zenon DEF ClaimEvaluation, notificationVars, IInv
<1>2. /\ me \in [pc : {"lookup", "claim", "read", "finish"}, evaluation : Evaluations,
                 binding : Binding, outcome : Results \cup {"none"}]
      /\ me.outcome = "none" /\ e \in Evaluations
  BY <1>1, CheckerTypes, Zenon
<1>3. CASE SetChecker(c, Asleep) /\ UNCHANGED storeVars
           /\ (answers' = answers \/ Answer(e, me.binding, "claimed"))
  <2> DEFINE a == [evaluation |-> e, binding |-> me.binding, outcome |-> "claimed"]
  <2>1. a \in Check /\ a.outcome = "claimed"
    BY <1>2, Zenon DEF Check
  <2>2. answers' = answers \/ answers' = answers \cup {a}
    BY <1>3, Zenon DEF Answer
  <2>3. UNCHANGED <<db, disk, losses>>
    BY <1>3, Zenon DEF storeVars
  <2> HIDE DEF a
  <2> QED
    BY <1>1, <1>3, <2>1, <2>2, <2>3, AsleepState, CheckerRests, ZenonT(90) DEF Reading
<1>4. CASE /\ Of(e, {"claimed"}) = {} /\ answers' = answers
           /\ Commit([db EXCEPT !.checks = Append(@, CheckEvent(me, "claimed"))])
           /\ SetChecker(c, [me EXCEPT !.pc = "read"])
  <2> DEFINE event == CheckEvent(me, "claimed")
             new == [me EXCEPT !.pc = "read"]
             n == Len(db.checks) + 1
  <2>1. /\ event \in Check /\ event.evaluation = e /\ event.binding = me.binding
        /\ event.outcome = "claimed"
    BY <1>2, Zenon DEF CheckEvent, Check
  <2>2. new \in CheckerState /\ new.pc = "read" /\ new.evaluation = e /\ new.binding = me.binding
    BY <1>2, Zenon DEF CheckerState
  <2> HIDE DEF event, new
  <2>3. /\ db' \in Tables /\ disk' \in Tables /\ losses' = losses
        /\ disk'.checks \in {db.checks, db'.checks}
        /\ db'.outbox = db.outbox /\ disk'.outbox = db.outbox
        /\ DOMAIN db'.checks = (DOMAIN db.checks) \cup {n} /\ n \notin DOMAIN db.checks
        /\ \A k \in DOMAIN db.checks : db'.checks[k] = db.checks[k] /\ k < n
        /\ db'.checks[n] = event
        /\ ChecksPrefix(disk'.checks, db'.checks)
        /\ \A f, b : HasClaim(db.checks, f, b) => HasClaim(db'.checks, f, b) /\ HasClaim(disk'.checks, f, b)
        /\ \A f, b : HasClaim(disk.checks, f, b) => HasClaim(disk'.checks, f, b)
    BY <1>4, <2>1, CheckCommit, Zenon DEF event
  <2> HIDE DEF n
  <2>4. /\ checker' \in [Checkers -> CheckerState] /\ checker'[c] = new
        /\ \A d \in Checkers \ {c} : checker'[d] = checker[d]
    BY <1>1, <1>4, <2>2, ZenonT(90) DEF TypeOK, SetChecker, new
  <2>5. \A k \in DOMAIN db.checks : db.checks[k].evaluation # e
    <3>1. Of(e, {"claimed"}) = {}
      BY <1>4, Zenon
    <3>2. \A k \in DOMAIN db.checks : db.checks[k].evaluation = e => db.checks[k].outcome # "claimed"
      BY <3>1, SMTT(30) DEF Of, CheckEvents
    <3> QED
      BY <1>1, <3>2 DEF CheckInv, ChecksInv
  <2> HIDE DEF e, me
  <2>6. \A b : ~ HasClaim(db.checks, e, b)
    BY <2>5, Zenon DEF HasClaim
  <2>7. ChecksInv(db'.checks)
    <3>1. ChecksInv(db.checks)
      BY <1>1, Zenon DEF CheckInv
    <3>2. /\ DOMAIN db'.checks = (DOMAIN db.checks) \cup {n}
          /\ \A k \in DOMAIN db.checks : db'.checks[k] = db.checks[k] /\ k < n
          /\ db'.checks[n].outcome = "claimed"
          /\ \A k \in DOMAIN db.checks : db.checks[k].evaluation # db'.checks[n].evaluation
      BY <2>1, <2>3, <2>5, ZenonT(90)
    <3> QED
      BY <3>1, <3>2, ClaimAdded, Zenon
  <2>8. ChecksInv(disk'.checks)
    BY <1>1, <2>3, <2>7, ZenonT(90) DEF CheckInv
  <2>9. HasClaim(db'.checks, e, me.binding)
    BY <2>1, <2>3, ZenonT(90) DEF HasClaim
  <2>10. \A f \in Evaluations : \A b : f # e => (HasClaim(db'.checks, f, b) <=> HasClaim(db.checks, f, b))
    <3>1. /\ DOMAIN db'.checks = (DOMAIN db.checks) \cup {n}
          /\ \A k \in DOMAIN db.checks : db'.checks[k] = db.checks[k]
          /\ db'.checks[n].evaluation = e
      BY <2>1, <2>3, ZenonT(90)
    <3> QED
      BY <3>1, ClaimsAfter, Zenon
  <2>11. ASSUME NEW d \in Checkers \ {c}, checker[d].pc \in Reading
         PROVE  checker[d].evaluation # e
    BY <1>1, <2>6, <2>11, ZenonT(90) DEF CheckInv, CheckerInv, Reading
  <2>12. CheckerInv(c)'
    <3>1. \A k \in DOMAIN db'.checks : db'.checks[k].evaluation = e => db'.checks[k].outcome = "claimed"
      BY <2>1, <2>3, <2>5, ZenonT(90)
    <3>2. reads[e] <= losses
      BY <1>1, <1>2, <2>6 DEF CheckInv, ReadsInv, TypeOK
    <3>3. \A d \in Checkers : checker'[d].pc \in Reading /\ checker'[d].evaluation = e => d = c
      BY <2>4, <2>11, Zenon
    <3> QED
      BY <1>1, <2>2, <2>3, <2>4, <2>9, <3>1, <3>2, <3>3, ZenonT(90) DEF CheckerInv, Reading
  <2>13. ASSUME NEW d \in Checkers \ {c} PROVE CheckerInv(d)'
    <3>1. CheckerInv(d) /\ checker'[d] = checker[d]
      BY <1>1, <2>4, ZenonT(90) DEF CheckInv
    <3> SUFFICES ASSUME checker[d].pc \in Reading PROVE CheckerInv(d)'
      BY <3>1, Zenon DEF CheckerInv, Reading
    <3>2. checker[d].evaluation # e
      BY <2>11, Zenon
    <3>3. \A k \in DOMAIN db'.checks :
            db'.checks[k].evaluation = checker[d].evaluation => db'.checks[k].outcome = "claimed"
      BY <2>1, <2>3, <3>1, <3>2, ZenonT(90) DEF CheckerInv, Reading
    <3>4. \A f \in Checkers :
            checker'[f].pc \in Reading /\ checker'[f].evaluation = checker[d].evaluation => f = d
      BY <2>2, <2>4, <3>1, <3>2, ZenonT(90) DEF CheckerInv, Reading
    <3>5. HasClaim(db'.checks, checker[d].evaluation, checker[d].binding)
      BY <2>3, <3>1, ZenonT(90) DEF CheckerInv, Reading
    <3> QED
      BY <1>1, <2>3, <3>1, <3>3, <3>4, <3>5, ZenonT(90) DEF CheckerInv, Reading
  <2>14. ReadsInv'
    <3> SUFFICES ASSUME NEW f \in Evaluations
                 PROVE  reads[f] <= losses + (IF \E b \in Binding : HasClaim(db'.checks, f, b) THEN 1 ELSE 0)
      BY <1>1, <2>3, Zenon DEF ReadsInv
    <3>1. losses \in Nat /\ reads[f] \in Nat /\ losses \in 0 .. MaxLosses
      BY <1>1, LossesAssumption DEF TypeOK
    <3>2. CASE f = e
      <4>1. reads[f] <= losses
        BY <1>1, <2>6, <3>1, <3>2, SMTT(30) DEF CheckInv, ReadsInv
      <4> QED
        BY <3>1, <4>1, SMTT(30)
    <3>3. CASE f # e
      BY <1>1, <2>10, <3>3, Zenon DEF CheckInv, ReadsInv
    <3> QED
      BY <3>2, <3>3, Zenon
  <2>15. AnsweredInv' /\ AnswersAgree'
    <3> SUFFICES ASSUME NEW a \in answers, a.outcome # "claimed"
                 PROVE  /\ HasClaim(disk'.checks, a.evaluation, a.binding)
                        /\ \A d \in Checkers : checker'[d].pc \in Reading => checker'[d].evaluation # a.evaluation
                        /\ \A k \in DOMAIN db'.checks :
                             db'.checks[k].evaluation = a.evaluation /\ db'.checks[k].outcome # "claimed" =>
                               db'.checks[k].outcome = a.outcome
      BY <1>1, <1>4, Zenon DEF AnsweredInv, CheckInv, AnswersAgree, Reading
    <3>1. HasClaim(disk.checks, a.evaluation, a.binding)
      BY <1>1, ZenonT(90) DEF CheckInv, AnsweredInv
    <3>2. a.evaluation # e
      BY <1>1, <2>6, <3>1, ChecksFacts
    <3>3. \A d \in Checkers : checker[d].pc \in Reading => checker[d].evaluation # a.evaluation
      BY <1>1, ZenonT(90) DEF CheckInv, AnsweredInv, Reading
    <3>4. \A k \in DOMAIN db.checks :
            db.checks[k].evaluation = a.evaluation /\ db.checks[k].outcome # "claimed" =>
              db.checks[k].outcome = a.outcome
      BY <1>1, ZenonT(90) DEF CheckInv, AnsweredInv
    <3> QED
      BY <2>1, <2>2, <2>3, <2>4, <3>1, <3>2, <3>3, <3>4, ZenonT(90)
  <2>16. CheckInv'
    BY <2>3, <2>7, <2>8, <2>12, <2>13, <2>14, <2>15, ZenonT(90) DEF CheckInv
  <2>17. Beside
    BY <1>1, <1>4, <2>3, <2>4, ZenonT(90) DEF Beside, TypeOK
  <2> QED
    BY <2>16, <2>17, CheckerStep, SMTT(30)
<1> QED
  BY <1>3, <1>4, Zenon DEF ClaimEvaluation

\* The holder of the claim reads, and no one else does.
LEMMA ReadTargetInv ==
    ASSUME IInv, NEW c \in Checkers, ReadTarget(c), UNCHANGED notificationVars
    PROVE  IInv'
<1> DEFINE me == checker[c]
           e == me.evaluation
<1>1. /\ UNCHANGED <<db, disk, losses, answers, courier, clock, sent>> /\ me.pc = "read"
      /\ reads' = [reads EXCEPT ![e] = @ + 1] /\ TypeOK /\ CheckInv
  BY Zenon DEF ReadTarget, storeVars, notificationVars, IInv
<1>2. PICK outcome \in Results : SetChecker(c, [me EXCEPT !.pc = "finish", !.outcome = outcome])
  BY ZenonT(90) DEF ReadTarget
<1> DEFINE new == [me EXCEPT !.pc = "finish", !.outcome = outcome]
<1>3. /\ me \in [pc : {"lookup", "claim", "read", "finish"}, evaluation : Evaluations,
                 binding : Binding, outcome : Results \cup {"none"}]
      /\ e \in Evaluations /\ me.binding \in Binding
  BY <1>1, CheckerTypes, Zenon
<1>4. new \in CheckerState /\ new.pc = "finish" /\ new.evaluation = e /\ new.binding = me.binding
  BY <1>3, ZenonT(90) DEF CheckerState
<1>5. SetChecker(c, new)
  BY <1>2, Zenon
<1> HIDE DEF new
<1>6. /\ checker' \in [Checkers -> CheckerState] /\ checker'[c] = new
      /\ \A d \in Checkers \ {c} : checker'[d] = checker[d]
  BY <1>1, <1>4, <1>5, Zenon DEF TypeOK, SetChecker
<1>7. /\ HasClaim(db.checks, e, me.binding) /\ reads[e] <= losses
      /\ \A k \in DOMAIN db.checks : db.checks[k].evaluation = e => db.checks[k].outcome = "claimed"
      /\ \A d \in Checkers : checker[d].pc \in Reading /\ checker[d].evaluation = e => d = c
  BY <1>1, ZenonT(90) DEF CheckInv, CheckerInv, Reading
<1> HIDE DEF e, me
<1>8. /\ reads' \in [Evaluations -> Nat] /\ reads'[e] = reads[e] + 1
      /\ \A f \in Evaluations : f # e => reads'[f] = reads[f]
  BY <1>1, <1>3 DEF TypeOK
<1>9. CheckerInv(c)'
  <2>1. \A d \in Checkers : checker'[d].pc \in Reading /\ checker'[d].evaluation = e => d = c
    BY <1>6, <1>7, ZenonT(90)
  <2> QED
    BY <1>1, <1>4, <1>6, <1>7, <2>1, ZenonT(90) DEF CheckerInv, Reading
<1>10. ASSUME NEW d \in Checkers \ {c} PROVE CheckerInv(d)'
  <2>1. CheckerInv(d) /\ checker'[d] = checker[d]
    BY <1>1, <1>6, ZenonT(90) DEF CheckInv
  <2> SUFFICES ASSUME checker[d].pc \in Reading PROVE CheckerInv(d)'
    BY <2>1, ZenonT(90) DEF CheckerInv, Reading
  <2>2. checker[d].evaluation # e /\ checker[d].evaluation \in Evaluations
    BY <1>1, <1>7, CheckerTypes, ZenonT(90) DEF Reading
  <2>3. \A f \in Checkers :
          checker'[f].pc \in Reading /\ checker'[f].evaluation = checker[d].evaluation => f = d
    BY <1>4, <1>6, <2>1, <2>2, ZenonT(90) DEF CheckerInv, Reading
  <2> QED
    BY <1>1, <1>8, <2>1, <2>2, <2>3, ZenonT(90) DEF CheckerInv, Reading
<1>11. ReadsInv'
  <2> SUFFICES ASSUME NEW f \in Evaluations
               PROVE  reads'[f] <= losses + (IF \E b \in Binding : HasClaim(db.checks, f, b) THEN 1 ELSE 0)
    BY <1>1, ZenonT(90) DEF ReadsInv
  <2>1. CASE f = e
    <3>1. losses \in Nat /\ reads[e] \in Nat
      BY <1>1, <1>3, LossesAssumption DEF TypeOK
    <3> QED
      BY <1>3, <1>7, <1>8, <2>1, <3>1, SMTT(30)
  <2>2. CASE f # e
    BY <1>1, <1>8, <2>2, ZenonT(90) DEF CheckInv, ReadsInv
  <2> QED
    BY <2>1, <2>2, Zenon
<1>12. AnsweredInv' /\ AnswersAgree'
  <2>1. \A d \in Checkers : checker'[d].pc \in Reading =>
          checker[d].pc \in Reading /\ checker'[d].evaluation = checker[d].evaluation
    BY <1>1, <1>4, <1>6, ZenonT(90) DEF Reading, e, me
  <2>2. AnsweredInv /\ AnswersAgree
    BY <1>1, Zenon DEF CheckInv
  <2>3. AnsweredInv'
    BY <1>1, <2>1, <2>2, AnsweredFrame, ZenonT(90)
  <2> QED
    BY <1>1, <2>2, <2>3, ZenonT(90) DEF AnswersAgree
<1>13. CheckInv'
  BY <1>1, <1>9, <1>10, <1>11, <1>12, ZenonT(90) DEF CheckInv
<1>14. Beside
  BY <1>1, <1>6, <1>8, ZenonT(90) DEF Beside, TypeOK
<1> QED
  BY <1>13, <1>14, CheckerStep, Zenon

\* The one result of an evaluation; its commit puts the claim on stable
\* storage before anyone is told.
LEMMA AppendResultInv ==
    ASSUME IInv, NEW c \in Checkers, AppendResult(c), UNCHANGED notificationVars
    PROVE  IInv'
<1> DEFINE me == checker[c]
           e == me.evaluation
<1>1. /\ reads' = reads /\ UNCHANGED <<courier, clock, sent>> /\ me.pc = "finish" /\ TypeOK /\ CheckInv
      /\ SetChecker(c, Asleep)
  BY Zenon DEF AppendResult, notificationVars, IInv
<1>2. CASE UNCHANGED <<storeVars, answers>>
  BY <1>1, <1>2, AsleepState, CheckerRests, ZenonT(90) DEF Reading, storeVars
<1>3. CASE /\ Commit([db EXCEPT !.checks = Append(@, CheckEvent(me, me.outcome))])
           /\ Answer(e, me.binding, me.outcome)
  <2> DEFINE event == CheckEvent(me, me.outcome)
             n == Len(db.checks) + 1
  <2>1. /\ event \in Check /\ event.evaluation = e /\ event.binding = me.binding
        /\ event.outcome = me.outcome /\ me.outcome # "claimed" /\ e \in Evaluations
    BY <1>1, CheckerTypes, Zenon DEF CheckEvent, Check, Results
  <2>2. answers' = answers \cup {event}
    BY <1>3, ZenonT(90) DEF Answer, CheckEvent
  <2> HIDE DEF event
  <2>3. /\ db' \in Tables /\ disk' \in Tables /\ losses' = losses
        /\ disk'.checks \in {db.checks, db'.checks}
        /\ db'.outbox = db.outbox /\ disk'.outbox = db.outbox
        /\ DOMAIN db'.checks = (DOMAIN db.checks) \cup {n} /\ n \notin DOMAIN db.checks
        /\ \A k \in DOMAIN db.checks : db'.checks[k] = db.checks[k] /\ k < n
        /\ db'.checks[n] = event
        /\ ChecksPrefix(disk'.checks, db'.checks)
        /\ \A f, b : HasClaim(db.checks, f, b) => HasClaim(db'.checks, f, b) /\ HasClaim(disk'.checks, f, b)
        /\ \A f, b : HasClaim(disk.checks, f, b) => HasClaim(disk'.checks, f, b)
    BY <1>3, <2>1, CheckCommit, ZenonT(90) DEF event
  <2> HIDE DEF n
  <2>4. /\ checker' \in [Checkers -> CheckerState] /\ checker'[c] = Asleep
        /\ \A d \in Checkers \ {c} : checker'[d] = checker[d]
    BY <1>1, AsleepState, ZenonT(90) DEF TypeOK, SetChecker
  <2>5. /\ HasClaim(db.checks, e, me.binding)
        /\ \A k \in DOMAIN db.checks : db.checks[k].evaluation = e => db.checks[k].outcome = "claimed"
        /\ \A d \in Checkers : checker[d].pc \in Reading /\ checker[d].evaluation = e => d = c
    BY <1>1, ZenonT(90) DEF CheckInv, CheckerInv, Reading
  <2>6. \A a \in answers : a.outcome # "claimed" => a.evaluation # e
    BY <1>1, ZenonT(90) DEF CheckInv, AnsweredInv
  <2> HIDE DEF e, me
  <2>7. ChecksInv(db'.checks)
    <3>1. ChecksInv(db.checks)
      BY <1>1, Zenon DEF CheckInv
    <3>2. ResultAfter(db.checks, db'.checks, n)
      BY <2>1, <2>3, <2>5, ZenonT(90) DEF ResultAfter
    <3> QED
      BY <3>1, <3>2, ResultAdded, ZenonT(90)
  <2>8. ChecksInv(disk'.checks)
    BY <1>1, <2>3, <2>7, Zenon DEF CheckInv
  <2>9. ASSUME NEW d \in Checkers PROVE CheckerInv(d)'
    <3> SUFFICES ASSUME checker'[d].pc \in Reading PROVE CheckerInv(d)'
      BY ZenonT(90) DEF CheckerInv, Reading
    <3>1. CheckerInv(d) /\ checker'[d] = checker[d] /\ d # c
      BY <1>1, <2>4, AsleepState, ZenonT(90) DEF CheckInv, Reading
    <3>2. checker[d].evaluation # e
      BY <2>5, <3>1, Zenon
    <3>3. \A k \in DOMAIN db'.checks :
            db'.checks[k].evaluation = checker[d].evaluation => db'.checks[k].outcome = "claimed"
      BY <2>1, <2>3, <3>1, <3>2, ZenonT(90) DEF CheckerInv, Reading
    <3>4. \A f \in Checkers :
            checker'[f].pc \in Reading /\ checker'[f].evaluation = checker[d].evaluation => f = d
      BY <2>4, <3>1, AsleepState, ZenonT(90) DEF CheckerInv, Reading
    <3>5. HasClaim(db'.checks, checker[d].evaluation, checker[d].binding)
      BY <2>3, <3>1, ZenonT(90) DEF CheckerInv, Reading
    <3> QED
      BY <1>1, <2>3, <3>1, <3>3, <3>4, <3>5, ZenonT(90) DEF CheckerInv, Reading
  <2>10. ReadsInv'
    <3>1. \A f, b : HasClaim(db'.checks, f, b) <=> HasClaim(db.checks, f, b)
      <4>1. /\ DOMAIN db'.checks = (DOMAIN db.checks) \cup {n}
            /\ \A k \in DOMAIN db.checks : db'.checks[k] = db.checks[k]
            /\ db'.checks[n].outcome # "claimed"
        BY <2>1, <2>3, ZenonT(90)
      <4> QED
        BY <4>1, ClaimsAfter, ZenonT(90)
    <3> QED
      BY <1>1, <2>3, <3>1, ZenonT(90) DEF CheckInv, ReadsInv
  <2>11. AnsweredInv'
    <3> SUFFICES ASSUME NEW a \in answers', a.outcome # "claimed"
                 PROVE  /\ HasClaim(disk'.checks, a.evaluation, a.binding)
                        /\ \A d \in Checkers : checker'[d].pc \in Reading => checker'[d].evaluation # a.evaluation
                        /\ \A k \in DOMAIN db'.checks :
                             db'.checks[k].evaluation = a.evaluation /\ db'.checks[k].outcome # "claimed" =>
                               db'.checks[k].outcome = a.outcome
      BY Zenon DEF AnsweredInv, Reading
    <3>1. \A d \in Checkers : checker'[d].pc \in Reading => checker'[d] = checker[d] /\ d # c
      BY <2>4, AsleepState, Zenon DEF Reading
    <3>2. CASE a = event
      BY <2>1, <2>3, <2>5, <3>1, <3>2, ZenonT(90)
    <3>3. CASE a \in answers
      <4>1. HasClaim(disk'.checks, a.evaluation, a.binding)
        BY <1>1, <2>3, <3>3, ZenonT(90) DEF CheckInv, AnsweredInv
      <4>2. \A d \in Checkers : checker'[d].pc \in Reading => checker'[d].evaluation # a.evaluation
        <5>1. \A d \in Checkers : checker[d].pc \in Reading => checker[d].evaluation # a.evaluation
          BY <1>1, <3>3, ZenonT(90) DEF CheckInv, AnsweredInv, Reading
        <5> QED
          BY <3>1, <5>1, ZenonT(90)
      <4>3. \A k \in DOMAIN db.checks :
              db.checks[k].evaluation = a.evaluation /\ db.checks[k].outcome # "claimed" =>
                db.checks[k].outcome = a.outcome
        BY <1>1, <3>3, ZenonT(90) DEF CheckInv, AnsweredInv
      <4> QED
        BY <2>1, <2>3, <2>6, <3>3, <4>1, <4>2, <4>3, ZenonT(90)
    <3> QED
      BY <2>2, <3>2, <3>3, Zenon
  <2>12. AnswersAgree'
    BY <1>1, <2>1, <2>2, <2>6, ZenonT(90) DEF CheckInv, AnswersAgree
  <2>13. CheckInv'
    BY <2>3, <2>7, <2>8, <2>9, <2>10, <2>11, <2>12, ZenonT(90) DEF CheckInv
  <2>14. Beside
    BY <1>1, <2>1, <2>2, <2>3, <2>4, ZenonT(90) DEF Beside, TypeOK
  <2> QED
    BY <2>13, <2>14, CheckerStep, Zenon
<1> QED
  BY <1>2, <1>3, ZenonT(90) DEF AppendResult


\* A refusal settles a record for which nothing was sent.
LEMMA RefuseInv ==
    ASSUME IInv, NEW c \in Couriers, Refuse(c), UNCHANGED savedCheckVars
    PROVE  IInv'
<1>1. /\ courier[c].pc = "decide" /\ UNCHANGED <<clock, sent>> /\ clock' \in Nat /\ Move(c, Idle)
      /\ TypeOK /\ DeliveryInv /\ UNCHANGED <<checker, reads, answers>>
  BY Zenon DEF Refuse, IInv, TypeOK, savedCheckVars
<1>2. PICK deliberate \in BOOLEAN :
        AppendEvent(courier[c].row, 1,
                    [outcome |-> "refused", deliberate |-> deliberate, at |-> courier[c].at])
  BY Zenon DEF Refuse
<1> DEFINE event == [outcome |-> "refused", deliberate |-> deliberate, at |-> courier[c].at]
           n == courier[c].row
<1>3. event \in Event /\ event.outcome = "refused"
  BY <1>1, CourierTypes, Zenon DEF Event, Working, Terminal
<1> HIDE DEF event
<1>4. /\ n \in DOMAIN db.outbox /\ db.outbox[n].intent = courier[c].intent
      /\ db.outbox[n].events = <<>> /\ sent[Identity(courier[c].intent)] = 0
  BY <1>1, ZenonT(90) DEF DeliveryInv, CourierInv
<1>5. db'.outbox[n].intent = db.outbox[n].intent /\ db'.outbox[n].events = Append(<<>>, event)
  BY <1>1, <1>2, <1>3, <1>4, AppendEventFacts, ZenonT(90) DEF event
<1>6. Len(db'.outbox[n].events) = 1
  BY <1>5, SMTT(30)
<1>7. Honest(db'.outbox[n])
  BY <1>4, <1>5, <1>6 DEF Honest
<1>8. CourierInv(c)'
  BY <1>1, Zenon DEF CourierInv, Move, TypeOK, Idle
<1>9. /\ DeliveryInv' /\ db' \in Tables /\ disk' \in {db, db'} /\ losses' = losses
      /\ db'.checks = db.checks /\ courier' \in [Couriers -> CourierState]
  <2>1. AppendEvent(n, 1, event) /\ courier[c].pc \in Working /\ (Idle.pc \in Working => Idle.row = n)
    BY <1>1, <1>2, IdleState, ZenonT(90) DEF event, Working
  <2> QED
    BY <1>1, <1>3, <1>7, <1>8, <2>1, IdleState, EventStep, ZenonT(90)
<1>10. Apart
  BY <1>1, <1>9, Zenon DEF Apart, TypeOK
<1> QED
  BY <1>9, <1>10, CourierStep, Zenon

\* The claim of a record is committed before its send, and its own commit puts
\* the record on stable storage.
LEMMA ClaimInv ==
    ASSUME IInv, NEW c \in Couriers, Claim(c), UNCHANGED savedCheckVars
    PROVE  IInv'
<1> DEFINE me == courier[c]
           event == [outcome |-> "claimed", deliberate |-> FALSE, at |-> me.at]
           n == me.row
           state == [me EXCEPT !.pc = "send"]
<1>1. /\ me.pc = "decide" /\ UNCHANGED <<clock, sent>> /\ clock' \in Nat /\ Move(c, state)
      /\ TypeOK /\ DeliveryInv /\ UNCHANGED <<checker, reads, answers>> /\ AppendEvent(n, 1, event)
  BY Zenon DEF Claim, Goto, IInv, TypeOK, savedCheckVars
<1>2. me \in [pc : {"retain", "decide", "send", "record"}, intent : Intent, row : Nat,
              source : Nat, asof : Nat, at : Nat,
              outcome : {"none", "accepted", "failed", "unknown"}]
  BY <1>1, CourierTypes, Zenon DEF Working
<1>3. event \in Event /\ event.outcome = "claimed"
  BY <1>2, Zenon DEF Event, Terminal
<1>4. /\ state \in CourierState /\ state.pc = "send" /\ state.row = n /\ state.intent = me.intent
  BY <1>2, ZenonT(90) DEF CourierState
<1>5. /\ n \in DOMAIN db.outbox /\ db.outbox[n].intent = me.intent
      /\ db.outbox[n].events = <<>> /\ sent[Identity(me.intent)] = 0
      /\ \A d \in Couriers : courier[d].pc \in Working /\ courier[d].row = n => d = c
  BY <1>1, ZenonT(90) DEF DeliveryInv, CourierInv, Working
<1> HIDE DEF event, state
<1>6. /\ db'.outbox[n].intent = db.outbox[n].intent /\ db'.outbox[n].events = Append(<<>>, event)
      /\ DOMAIN db'.outbox = DOMAIN db.outbox /\ disk' \in {db, db'}
  BY <1>1, <1>3, <1>5, AppendEventFacts, ZenonT(90)
<1>7. Len(db'.outbox[n].events) = 1 /\ db'.outbox[n].events[1] = event
  BY <1>6, SMTT(30)
<1>8. Honest(db'.outbox[n])
  BY <1>3, <1>7, Zenon DEF Honest
<1>9. courier'[c] = state /\ \A d \in Couriers \ {c} : courier'[d] = courier[d]
  BY <1>1, Zenon DEF TypeOK, Move
<1>10. CourierInv(c)'
  <2>1. \A d \in Couriers : courier'[d].pc \in Working /\ courier'[d].row = n => d = c
    BY <1>5, <1>9, ZenonT(90)
  <2>2. n \in DOMAIN disk'.outbox
    BY <1>5, <1>6, ZenonT(90)
  <2> HIDE DEF me, n
  <2> QED
    BY <1>1, <1>3, <1>4, <1>5, <1>6, <1>7, <1>9, <2>1, <2>2, ZenonT(90) DEF CourierInv, Working
<1>11. /\ DeliveryInv' /\ db' \in Tables /\ disk' \in {db, db'} /\ losses' = losses
       /\ db'.checks = db.checks /\ courier' \in [Couriers -> CourierState]
  BY <1>1, <1>3, <1>4, <1>8, <1>10, EventStep, ZenonT(90) DEF Working
<1>12. Apart
  BY <1>1, <1>11, ZenonT(60) DEF Apart, TypeOK
<1> QED
  BY <1>11, <1>12, CourierStep, ZenonT(60)

\* The outcome is that of the one send.
LEMMA RecordOutcomeInv ==
    ASSUME IInv, NEW c \in Couriers, RecordOutcome(c), UNCHANGED savedCheckVars
    PROVE  IInv'
<1> DEFINE me == courier[c]
           event == [outcome |-> me.outcome, deliberate |-> FALSE, at |-> clock']
           n == me.row
<1>1. /\ me.pc = "record" /\ sent' = sent /\ clock' \in Nat /\ Move(c, Idle)
      /\ TypeOK /\ DeliveryInv /\ UNCHANGED <<checker, reads, answers>> /\ AppendEvent(n, 2, event)
  BY DEF RecordOutcome, IInv, TypeOK, savedCheckVars
<1>2. me \in [pc : {"retain", "decide", "send", "record"}, intent : Intent, row : Nat,
              source : Nat, asof : Nat, at : Nat,
              outcome : {"none", "accepted", "failed", "unknown"}]
  BY <1>1, CourierTypes, Zenon DEF Working
<1>3. /\ n \in DOMAIN db.outbox /\ db.outbox[n].intent = me.intent
      /\ Len(db.outbox[n].events) = 1
      /\ me.outcome # "none" /\ (me.outcome = "accepted" => sent[Identity(me.intent)] = 1)
      /\ (me.outcome = "failed" /\ Transport[me.intent.route] = "local_file"
            => sent[Identity(me.intent)] = 0)
  BY <1>1, ZenonT(90) DEF DeliveryInv, CourierInv
<1>4. event \in Event /\ event.outcome = me.outcome
  BY <1>1, <1>2, <1>3, ZenonT(90) DEF Event, Terminal
<1> HIDE DEF event
<1>5. /\ db'.outbox[n].intent = db.outbox[n].intent
      /\ db'.outbox[n].events = Append(db.outbox[n].events, event)
  BY <1>1, <1>3, <1>4, AppendEventFacts, Zenon
<1>6. db.outbox[n].events \in Seq(Event)
  BY <1>1, <1>3, TableTypes, RecordTypes, ZenonT(90) DEF TypeOK
<1>7. Len(db'.outbox[n].events) = 2 /\ db'.outbox[n].events[2] = event
  <2> DEFINE events == db.outbox[n].events
  <2>1. events \in Seq(Event) /\ Len(events) = 1 /\ db'.outbox[n].events = Append(events, event)
    BY <1>3, <1>5, <1>6, ZenonT(90)
  <2> HIDE DEF events
  <2>2. Len(Append(events, event)) = 2 /\ Append(events, event)[2] = event
    BY <1>4, <2>1, SecondElement, Zenon
  <2> QED
    BY <2>1, <2>2, Zenon
<1>8. Honest(db'.outbox[n])
  <2>1. db'.outbox[n].intent = me.intent /\ db'.outbox[n].events[2].outcome = me.outcome
    BY <1>3, <1>4, <1>5, <1>7, ZenonT(90)
  <2> HIDE DEF me, n
  <2> QED
    BY <1>3, <1>7, <2>1 DEF Honest
<1>9. CourierInv(c)'
  BY <1>1, ZenonT(90) DEF CourierInv, Move, TypeOK, Idle
<1>10. /\ DeliveryInv' /\ db' \in Tables /\ disk' \in {db, db'} /\ losses' = losses
       /\ db'.checks = db.checks /\ courier' \in [Couriers -> CourierState]
  <2>1. courier[c].pc \in Working /\ (Idle.pc \in Working => Idle.row = n)
    BY <1>1, IdleState, Zenon DEF Working
  <2> QED
    BY <1>1, <1>4, <1>8, <1>9, <2>1, IdleState, EventStep, ZenonT(60)
<1>11. Apart
  BY <1>1, <1>10, Zenon DEF Apart, TypeOK
<1> QED
  BY <1>10, <1>11, CourierStep, Zenon

\* The one send of a record: no other process may send for its identity, and
\* what the records say settled is of other identities.
LEMMA SendInv ==
    ASSUME IInv, NEW c \in Couriers, Send(c), UNCHANGED savedCheckVars
    PROVE  IInv'
<1> DEFINE me == courier[c]
           n == me.row
           i == Identity(me.intent)
<1>1. /\ me.pc = "send" /\ clock' \in Nat /\ TypeOK /\ DeliveryInv
      /\ UNCHANGED <<db, disk, losses, checker, reads, answers>>
  BY Zenon DEF Send, IInv, TypeOK, savedCheckVars, storeVars
<1>2. PICK outcome \in {"accepted", "failed", "unknown"} :
        /\ sent' = [sent EXCEPT ![i] = IF Transport[me.intent.route] = "local_file" /\ outcome = "failed"
                                       THEN @ ELSE @ + 1]
        /\ Move(c, [me EXCEPT !.pc = "record", !.outcome = outcome])
  BY Zenon DEF Send
<1> DEFINE state == [me EXCEPT !.pc = "record", !.outcome = outcome]
<1>3. /\ me \in [pc : {"retain", "decide", "send", "record"}, intent : Intent, row : Nat,
                 source : Nat, asof : Nat, at : Nat,
                 outcome : {"none", "accepted", "failed", "unknown"}]
      /\ i \in Identities
  BY <1>1, CourierTypes, Zenon DEF Working
<1>4. /\ state \in CourierState /\ state.pc = "record" /\ state.row = n /\ state.intent = me.intent
      /\ state.outcome = outcome
  BY <1>3, Zenon DEF CourierState
<1>5. /\ n \in DOMAIN db.outbox /\ db.outbox[n].intent = me.intent /\ sent[i] = 0
      /\ Len(db.outbox[n].events) = 1 /\ db.outbox[n].events[1].outcome = "claimed"
      /\ n \in DOMAIN disk.outbox
      /\ \A d \in Couriers : courier[d].pc \in Working /\ courier[d].row = n => d = c
  BY <1>1, Zenon DEF DeliveryInv, CourierInv, Working
<1>6. Move(c, state)
  BY <1>2, Zenon
<1> HIDE DEF state
<1>7. /\ courier' \in [Couriers -> CourierState] /\ courier'[c] = state
      /\ \A d \in Couriers \ {c} : courier'[d] = courier[d]
  BY <1>1, <1>4, <1>6, Zenon DEF TypeOK, Move
<1> HIDE DEF n, i, me
<1>8. /\ sent' \in [Identities -> Nat] /\ sent'[i] \in {0, 1}
      /\ (outcome = "accepted" => sent'[i] = 1)
      /\ (outcome = "failed" /\ Transport[me.intent.route] = "local_file" => sent'[i] = 0)
      /\ \A k \in Identities : k # i => sent'[k] = sent[k]
  <2>1. sent \in [Identities -> Nat]
    BY <1>1, Zenon DEF TypeOK
  <2> QED
    BY <1>2, <1>3, <1>5, <2>1
<1>9. /\ \A m \in DOMAIN disk.outbox : m \in DOMAIN db.outbox /\ disk.outbox[m].intent = db.outbox[m].intent
      /\ \A m \in DOMAIN db.outbox : Identity(db.outbox[m].intent) \in Identities
      /\ \A m \in DOMAIN db.outbox : Identity(db.outbox[m].intent) = i => m = n
  <2>1. db \in Tables /\ disk \in Tables /\ Identity(db.outbox[n].intent) = i
    BY <1>1, <1>5, ZenonT(90) DEF TypeOK, i
  <2>2. \A m \in DOMAIN disk.outbox : m \in DOMAIN db.outbox /\ disk.outbox[m].intent = db.outbox[m].intent
    BY <1>1, <2>1, TableTypes DEF DeliveryInv, OutboxPrefix
  <2>3. \A m \in DOMAIN db.outbox : Identity(db.outbox[m].intent) \in Identities
    BY <2>1, TableTypes, RecordTypes, Zenon
  <2> QED
    BY <1>1, <1>5, <2>1, <2>2, <2>3, ZenonT(60) DEF DeliveryInv, OutboxInv
<1>10. ASSUME NEW m \in DOMAIN db'.outbox PROVE Honest(db.outbox[m])'
  <2>1. CASE m = n
    BY <1>1, <1>5, <2>1, ZenonT(90) DEF Honest
  <2>2. CASE m # n
    <3>1. Honest(db.outbox[m]) /\ sent'[Identity(db.outbox[m].intent)] = sent[Identity(db.outbox[m].intent)]
      BY <1>1, <1>8, <1>9, <2>2, ZenonT(90) DEF DeliveryInv
    <3> QED
      BY <1>1, <3>1, ZenonT(60) DEF Honest
  <2> QED
    BY <2>1, <2>2, Zenon
<1>11. ASSUME NEW m \in DOMAIN disk'.outbox PROVE Honest(disk.outbox[m])'
  <2>1. CASE m = n
    <3>1. disk.outbox[n] \in Record
      BY <1>1, <1>5, TableTypes, ZenonT(60) DEF TypeOK
    <3>2. Len(disk.outbox[n].events) \in Nat /\ DOMAIN disk.outbox[n].events = 1 .. Len(disk.outbox[n].events)
      BY <3>1, RecordTypes, ZenonT(60)
    <3>3. Len(disk.outbox[n].events) <= 1
      BY <1>1, <1>5, ZenonT(90) DEF DeliveryInv, OutboxPrefix
    <3>4. \A k \in DOMAIN disk.outbox[n].events : disk.outbox[n].events[k] = db.outbox[n].events[k]
      BY <1>1, <1>5, ZenonT(90) DEF DeliveryInv, OutboxPrefix
    <3>5. Len(disk.outbox[n].events) = 1 => disk.outbox[n].events[1] = db.outbox[n].events[1]
      BY <3>2, <3>4
    <3>6. Len(disk.outbox[n].events) = 1 => disk.outbox[n].events[1].outcome = "claimed"
      BY <1>5, <3>5, ZenonT(60)
    <3> QED
      BY <1>1, <2>1, <3>2, <3>3, <3>6 DEF Honest
  <2>2. CASE m # n
    <3>1. Honest(disk.outbox[m]) /\ m \in DOMAIN db.outbox
          /\ sent'[Identity(disk.outbox[m].intent)] = sent[Identity(disk.outbox[m].intent)]
      BY <1>1, <1>8, <1>9, <2>2, ZenonT(90) DEF DeliveryInv
    <3> QED
      BY <1>1, <3>1, ZenonT(90) DEF Honest
  <2> QED
    BY <2>1, <2>2, Zenon
<1>12. CourierInv(c)'
  <2>1. \A d \in Couriers : courier'[d].pc \in Working /\ courier'[d].row = n => d = c
    BY <1>5, <1>7, ZenonT(60)
  <2>2. state.outcome # "none" /\ Identity(state.intent) = i
    BY <1>4, Zenon DEF i
  <2> QED
    BY <1>1, <1>4, <1>5, <1>7, <1>8, <2>1, <2>2, ZenonT(90) DEF CourierInv, Working
<1>13. ASSUME NEW d \in Couriers \ {c} PROVE CourierInv(d)'
  <2>1. ASSUME courier[d].pc \in Working
        PROVE  /\ courier[d].row \in DOMAIN db.outbox /\ courier[d].row # n
               /\ db.outbox[courier[d].row].intent = courier[d].intent
               /\ \A e \in Couriers : courier[e].pc \in Working /\ courier[e].row = courier[d].row => e = d
    BY <1>1, <1>5, <2>1, ZenonT(90) DEF DeliveryInv, CourierInv, Working
  <2>2. ASSUME courier[d].pc \in Working
        PROVE  sent'[Identity(courier[d].intent)] = sent[Identity(courier[d].intent)]
    BY <1>8, <1>9, <2>1, <2>2, ZenonT(60)
  <2>3. ASSUME courier[d].pc \in Working, NEW e \in Couriers, courier'[e].pc \in Working,
               courier'[e].row = courier[d].row
        PROVE  e = d
    BY <1>4, <1>7, <2>1, <2>3, ZenonT(60)
  <2> QED
    BY <1>1, <1>7, <2>1, <2>2, <2>3, CourierOther, ZenonT(90)
<1>14. SentInv'
  <2> SUFFICES ASSUME NEW k \in Identities
               PROVE  /\ sent'[k] \in {0, 1}
                      /\ sent'[k] = 1 =>
                           /\ \E m \in DOMAIN disk.outbox : Identity(disk.outbox[m].intent) = k
                           /\ losses = 0 => \E m \in DOMAIN db.outbox :
                                Identity(db.outbox[m].intent) = k /\ db.outbox[m].events # <<>>
    BY <1>1, Zenon DEF SentInv
  <2>1. CASE k = i
    <3>1. Identity(disk.outbox[n].intent) = i /\ Identity(db.outbox[n].intent) = i
      BY <1>5, <1>9, Zenon DEF i
    <3>2. db.outbox[n].events # <<>>
      BY <1>5
    <3> QED
      BY <1>5, <1>8, <2>1, <3>1, <3>2, ZenonT(90)
  <2>2. CASE k # i
    BY <1>1, <1>8, <2>2, ZenonT(90) DEF DeliveryInv, SentInv
  <2> QED
    BY <2>1, <2>2, Zenon
<1>15. DeliveryInv'
  BY <1>1, <1>10, <1>11, <1>12, <1>13, <1>14, ZenonT(90) DEF DeliveryInv
<1>16. Apart
  BY <1>1, <1>7, <1>8, ZenonT(60) DEF Apart, TypeOK
<1> QED
  BY <1>15, <1>16, CourierStep, Zenon

-----------------------------------------------------------------------------
(* Power loss and the initial state. *)

\* A power loss falls back to tables of which the invariant holds too, and no
\* process is left to act on what they no longer say.
LEMMA PowerLossInv ==
    ASSUME IInv, PowerLoss
    PROVE  IInv'
<1>1. PICK kept \in {db, disk} : db' = kept /\ disk' = kept
  BY Zenon DEF PowerLoss, LoseNewestCommit
<1>2. /\ losses < MaxLosses /\ losses' = losses + 1 /\ losses \in Nat /\ MaxLosses \in Nat
      /\ UNCHANGED <<clock, sent, reads, answers>> /\ TypeOK /\ DeliveryInv /\ CheckInv
      /\ kept \in Tables
  BY LossesAssumption DEF PowerLoss, LoseNewestCommit, IInv, TypeOK
<1>3. /\ \A c \in Couriers : courier'[c].pc \notin Working
      /\ \A c \in Checkers : checker'[c].pc \notin Reading
      /\ courier' \in [Couriers -> CourierState] /\ checker' \in [Checkers -> CheckerState]
  BY IdleState, AsleepState, Zenon DEF PowerLoss, Reading
<1>4. TypeOK'
  BY <1>1, <1>2, <1>3 DEF TypeOK
<1>5. /\ DOMAIN kept.outbox = 1 .. Len(kept.outbox) /\ Len(kept.outbox) \in Nat
      /\ DOMAIN kept.checks = 1 .. Len(kept.checks) /\ Len(kept.checks) \in Nat
      /\ \A n \in DOMAIN kept.outbox : kept.outbox[n] \in Record
  BY <1>2, TableTypes, Zenon
<1>6. \A n \in DOMAIN kept.outbox : Len(kept.outbox[n].events) \in Nat
  BY <1>5, RecordTypes, Zenon
<1>7. DeliveryInv'
  <2>1. OutboxInv(kept.outbox) /\ OutboxPrefix(kept.outbox, kept.outbox)
    BY <1>2, <1>5, <1>6 DEF DeliveryInv, OutboxPrefix
  <2>2. \A n \in DOMAIN kept.outbox : Honest(kept.outbox[n])
    BY <1>2, Zenon DEF DeliveryInv
  <2>3. /\ \A n \in DOMAIN db'.outbox : Honest(db.outbox[n])'
        /\ \A n \in DOMAIN disk'.outbox : Honest(disk.outbox[n])'
    BY <1>1, <1>2, <2>2, ZenonT(90) DEF Honest
  <2>4. \A c \in Couriers : CourierInv(c)'
    BY <1>3, Zenon DEF CourierInv, Working
  <2>5. ASSUME NEW k \in Identities, sent[k] = 1
        PROVE  \E n \in DOMAIN kept.outbox : Identity(kept.outbox[n].intent) = k
    <3>1. PICK n \in DOMAIN disk.outbox : Identity(disk.outbox[n].intent) = k
      BY <1>2, <2>5, Zenon DEF DeliveryInv, SentInv
    <3>2. db \in Tables /\ disk \in Tables
      BY <1>2, Zenon DEF TypeOK
    <3>3. n \in DOMAIN db.outbox /\ disk.outbox[n].intent = db.outbox[n].intent
      BY <1>2, <3>2, TableTypes DEF DeliveryInv, OutboxPrefix
    <3> QED
      BY <3>1, <3>3, Zenon
  <2>6. losses' # 0
    BY <1>2
  <2>7. SentInv'
    BY <1>1, <1>2, <2>5, <2>6, ZenonT(90) DEF DeliveryInv, SentInv
  <2> QED
    BY <1>1, <2>1, <2>3, <2>4, <2>7, ZenonT(90) DEF DeliveryInv
<1>8. CheckInv'
  <2>1. ChecksInv(kept.checks) /\ ChecksPrefix(kept.checks, kept.checks)
    BY <1>2, <1>5 DEF CheckInv, ChecksPrefix
  <2>2. \A c \in Checkers : CheckerInv(c)'
    BY <1>3, ZenonT(90) DEF CheckerInv, Reading
  <2>3. ReadsInv'
    <3> SUFFICES ASSUME NEW e \in Evaluations
                 PROVE  reads[e] <= losses + 1 + (IF \E b \in Binding : HasClaim(db'.checks, e, b) THEN 1 ELSE 0)
      BY <1>2, Zenon DEF ReadsInv
    <3>1. reads[e] <= losses + 1 /\ reads[e] \in Nat
      BY <1>2 DEF CheckInv, ReadsInv, TypeOK
    <3> QED
      BY <1>2, <3>1
  <2>4. AnsweredInv'
    <3> SUFFICES ASSUME NEW a \in answers, a.outcome # "claimed"
                 PROVE  /\ HasClaim(kept.checks, a.evaluation, a.binding)
                        /\ \A k \in DOMAIN kept.checks :
                             kept.checks[k].evaluation = a.evaluation /\ kept.checks[k].outcome # "claimed" =>
                               kept.checks[k].outcome = a.outcome
      BY <1>1, <1>2, <1>3, Zenon DEF AnsweredInv, Reading
    <3>1. HasClaim(disk.checks, a.evaluation, a.binding) /\ HasClaim(db.checks, a.evaluation, a.binding)
      BY <1>2, ChecksFacts, ZenonT(90) DEF CheckInv, AnsweredInv
    <3>2. \A k \in DOMAIN kept.checks : k \in DOMAIN db.checks /\ kept.checks[k] = db.checks[k]
      BY <1>2, ChecksFacts, Zenon DEF CheckInv, ChecksPrefix
    <3>3. \A k \in DOMAIN db.checks :
            db.checks[k].evaluation = a.evaluation /\ db.checks[k].outcome # "claimed" =>
              db.checks[k].outcome = a.outcome
      BY <1>2, ZenonT(90) DEF CheckInv, AnsweredInv
    <3> QED
      BY <1>2, <3>1, <3>2, <3>3, ZenonT(90)
  <2>5. AnswersAgree'
    BY <1>2, Zenon DEF CheckInv, AnswersAgree
  <2> QED
    BY <1>1, <2>1, <2>2, <2>3, <2>4, <2>5, ZenonT(90) DEF CheckInv
<1> QED
  BY <1>4, <1>7, <1>8, ZenonT(60) DEF IInv

\* A store with an earlier history, and no command running.
LEMMA InitInv == Init => IInv
<1> SUFFICES ASSUME Init PROVE IInv
  BY Zenon
<1>1. PICK h \in Histories :
        /\ db = [outbox |-> h.outbox, definitions |-> [r \in References |-> NoMaterial], checks |-> <<>>]
        /\ NotificationInit(h.outbox, h.now)
  BY ZenonT(90) DEF Init
<1>2. /\ h.outbox \in Seq(Record) /\ h.now \in Nat
      /\ \A n \in DOMAIN h.outbox : Written(h.outbox[n])
      /\ \A m, n \in DOMAIN h.outbox :
           Identity(h.outbox[m].intent) = Identity(h.outbox[n].intent) => m = n
  BY CustodyAssumption, Zenon
<1>3. disk = db /\ losses = 0 /\ SavedCheckInit /\ db.outbox = h.outbox /\ db.checks = <<>>
  BY <1>1, Zenon DEF Init
<1>4. db \in Tables /\ DOMAIN db.checks = {} /\ Len(db.checks) = 0
  BY <1>1, <1>2 DEF Tables
<1> DEFINE had(k) == \E n \in DOMAIN h.outbox : Identity(h.outbox[n].intent) = k /\ Left(h.outbox[n])
<1>5. /\ courier = [c \in Couriers |-> Idle] /\ clock = h.now
      /\ sent = [k \in Identities |-> IF had(k) THEN 1 ELSE 0]
  BY <1>1, Zenon DEF NotificationInit
<1>6. \A c \in Couriers : courier[c].pc \notin Working
  BY <1>5, IdleState, Zenon
<1>7. checker = [c \in Checkers |-> Asleep] /\ reads = [e \in Evaluations |-> 0] /\ answers = {}
  BY <1>3, Zenon DEF SavedCheckInit
<1>8. \A c \in Checkers : checker[c].pc \notin Reading
  BY <1>7, AsleepState, ZenonT(90) DEF Reading
<1>9. TypeOK
  <2>1. sent \in [Identities -> Nat]
    BY <1>5, Zenon
  <2>2. courier \in [Couriers -> CourierState] /\ checker \in [Checkers -> CheckerState]
    BY <1>5, <1>7, IdleState, AsleepState, ZenonT(60)
  <2>3. reads \in [Evaluations -> Nat] /\ answers \subseteq Check
    BY <1>7, Zenon
  <2>4. losses \in 0 .. MaxLosses /\ clock \in Nat /\ {db, disk} \subseteq Tables
    BY <1>2, <1>3, <1>4, <1>5, LossesAssumption
  <2> QED
    BY <2>1, <2>2, <2>3, <2>4, ZenonT(60) DEF TypeOK
<1>10. CheckInv
  <2>1. ChecksInv(db.checks) /\ ChecksPrefix(db.checks, db.checks)
    BY <1>4 DEF ChecksInv, ChecksPrefix
  <2>2. \A c \in Checkers : CheckerInv(c)
    BY <1>8, Zenon DEF CheckerInv, Reading
  <2>3. ReadsInv
    BY <1>3, <1>7 DEF ReadsInv
  <2>4. AnsweredInv /\ AnswersAgree
    BY <1>7, Zenon DEF AnsweredInv, AnswersAgree
  <2> QED
    BY <1>3, <2>1, <2>2, <2>3, <2>4, Zenon DEF CheckInv
<1>11. ASSUME NEW n \in DOMAIN h.outbox
       PROVE  /\ Honest(h.outbox[n]) /\ Len(h.outbox[n].events) \in Nat
              /\ Left(h.outbox[n]) => h.outbox[n].events # <<>>
  <2> DEFINE row == h.outbox[n]
  <2>1. row \in Record /\ Written(row)
    BY <1>2, <1>3, <1>4, TableTypes, Zenon
  <2>2. /\ Identity(row.intent) \in Identities /\ Len(row.events) \in Nat
        /\ DOMAIN row.events = 1 .. Len(row.events)
    BY <2>1, RecordTypes, Zenon
  <2>3. had(Identity(row.intent)) <=> Left(row)
    BY <1>2, Zenon
  <2>4. sent[Identity(row.intent)] = IF Left(row) THEN 1 ELSE 0
    BY <1>5, <2>2, <2>3, Zenon
  <2> HIDE DEF row
  <2>5. ASSUME Len(row.events) = 1, row.events[1].outcome = "refused" PROVE ~ Left(row)
    BY <2>2, <2>5 DEF Left, Outcomes
  <2>6. ASSUME Len(row.events) = 2, row.events[2].outcome = "accepted" PROVE Left(row)
    <3>1. row.events[1].outcome = "claimed"
      BY <2>1, <2>6 DEF Written
    <3>2. Outcomes(row) = {"claimed", "accepted"}
      BY <2>2, <2>6, <3>1 DEF Outcomes
    <3> QED
      BY <3>2, Zenon DEF Left
  <2>7. ASSUME Len(row.events) = 2, row.events[2].outcome = "failed", Transport[row.intent.route] = "local_file"
        PROVE  ~ Left(row)
    BY <2>2, <2>7 DEF Left, Outcomes
  <2>8. Honest(row)
    BY <2>4, <2>5, <2>6, <2>7, ZenonT(60) DEF Honest
  <2>9. Left(row) => row.events # <<>>
    BY DEF Left, Outcomes
  <2> QED
    BY <2>2, <2>8, <2>9, Zenon DEF row
<1>12. OutboxInv(h.outbox) /\ OutboxPrefix(h.outbox, h.outbox)
  <2>1. OutboxInv(h.outbox)
    BY <1>2, ZenonT(60) DEF OutboxInv
  <2>2. Len(h.outbox) \in Nat /\ \A n \in DOMAIN h.outbox : Len(h.outbox[n].events) \in Nat
    BY <1>2, <1>11
  <2>3. Len(h.outbox) <= Len(h.outbox)
        /\ \A n \in DOMAIN h.outbox : Len(h.outbox[n].events) <= Len(h.outbox[n].events)
    BY <2>2
  <2> QED
    BY <2>1, <2>3, ZenonT(60) DEF OutboxPrefix
<1>13. SentInv
  <2> SUFFICES ASSUME NEW k \in Identities
               PROVE  /\ sent[k] \in {0, 1}
                      /\ sent[k] = 1 => \E n \in DOMAIN h.outbox :
                           Identity(h.outbox[n].intent) = k /\ h.outbox[n].events # <<>>
    BY <1>3, Zenon DEF SentInv
  <2> QED
    BY <1>5, <1>11
<1>14. \A c \in Couriers : CourierInv(c)
  BY <1>6, ZenonT(90) DEF CourierInv, Working
<1>15. DeliveryInv
  BY <1>3, <1>11, <1>12, <1>13, <1>14, Zenon DEF DeliveryInv
<1> QED
  BY <1>9, <1>10, <1>15, ZenonT(60) DEF IInv

\* Stuttering changes nothing the invariant speaks of.
LEMMA StutterInv ==
    ASSUME IInv, UNCHANGED vars
    PROVE  IInv'
<1>1. UNCHANGED <<db, disk, losses, courier, clock, sent, checker, reads, answers>>
  BY Zenon DEF vars, storeVars, notificationVars, savedCheckVars
<1>2. CheckInv'
  BY <1>1, CheckFrame, Zenon DEF IInv
<1>3. Beside
  BY <1>1, Zenon DEF Beside, IInv, TypeOK
<1> QED
  BY <1>2, <1>3, CheckerStep, Zenon

LEMMA Inductive == Spec => []IInv
<1>1. ASSUME IInv, NEW c \in Couriers, Deliver(c), UNCHANGED savedCheckVars PROVE IInv'
  BY <1>1, SubmitInv, ResubmitInv, CheckNewestInv, SubmitAgainInv, RetainDeliveryInv, RefuseInv,
     ClaimInv, SendInv, RecordOutcomeInv, AbortInv, ZenonT(60) DEF Deliver
<1>2. ASSUME IInv, NEW c \in Checkers, RunCheck(c), UNCHANGED notificationVars PROVE IInv'
  BY <1>2, EvaluateInv, ReplayEvaluationInv, ClaimEvaluationInv, ReadTargetInv, AppendResultInv,
     DropInv, ZenonT(60) DEF RunCheck
<1>3. ASSUME IInv, Next PROVE IInv'
  BY <1>1, <1>2, <1>3, InstallInv, PowerLossInv, ZenonT(60) DEF Next
<1>4. IInv /\ [Next]_vars => IInv'
  BY <1>3, StutterInv, Zenon
<1> QED
  BY <1>4, InitInv, PTL DEF Spec

-----------------------------------------------------------------------------
(* The results. *)

\* The state delivery status shows of a record the commands can have written is
\* the one the rollover inspection reads.
LEMMA StateOfWritten ==
    ASSUME NEW row \in Record, Written(row)
    PROVE  /\ DeliveryState(row) = NotificationState(row)
           /\ row.events = <<>> => NotificationState(row) = "pending"
           /\ Len(row.events) = 1 => NotificationState(row) =
                IF row.events[1].outcome = "claimed" THEN "unknown" ELSE "refused"
           /\ Len(row.events) = 2 => NotificationState(row) = row.events[2].outcome
           /\ NotificationState(row) \in Terminal \cup {"pending"}
<1>1. Len(row.events) \in Nat /\ DOMAIN row.events = 1 .. Len(row.events) /\ row.events \in Seq(Event)
  BY RecordTypes, Zenon
<1>2. CASE row.events = <<>>
  <2>1. Len(row.events) = 0
    BY <1>2
  <2> QED
    BY <1>2, <2>1 DEF DeliveryState, NotificationState
<1>3. CASE Len(row.events) = 1 /\ row.events[1].outcome = "claimed"
  <2>1. Outcomes(row) = {"claimed"} /\ row.events # <<>>
    BY <1>1, <1>3 DEF Outcomes
  <2>2. Outcomes(row) \cap Terminal = {}
    BY <2>1, Zenon DEF Terminal
  <2>3. DeliveryState(row) = "unknown"
    BY <2>1, <2>2, Zenon DEF DeliveryState
  <2>4. NotificationState(row) = "unknown"
    BY <1>3, <2>1, ZenonT(60) DEF NotificationState
  <2> QED
    BY <1>3, <2>1, <2>3, <2>4 DEF Terminal
<1>4. CASE Len(row.events) = 1 /\ row.events[1].outcome = "refused"
  <2>1. Outcomes(row) = {"refused"} /\ row.events # <<>>
    BY <1>1, <1>4 DEF Outcomes
  <2>2. Outcomes(row) \cap Terminal = {"refused"}
    BY <2>1, Zenon DEF Terminal
  <2>3. DeliveryState(row) = "refused"
    BY <2>1, <2>2, Zenon DEF DeliveryState
  <2>4. NotificationState(row) = "refused"
    BY <1>4, <2>1, Zenon DEF NotificationState
  <2> QED
    BY <1>4, <2>1, <2>3, <2>4, ZenonT(90) DEF Terminal
<1>5. CASE /\ Len(row.events) = 2 /\ row.events[1].outcome = "claimed"
           /\ row.events[2].outcome \in {"failed", "unknown", "accepted"}
  <2> DEFINE o == row.events[2].outcome
  <2>1. Outcomes(row) = {"claimed", o} /\ row.events # <<>>
    BY <1>1, <1>5 DEF Outcomes
  <2>2. Outcomes(row) \cap Terminal = {o}
    BY <1>5, <2>1, Zenon DEF Terminal
  <2>3. DeliveryState(row) = o
    BY <2>1, <2>2, ZenonT(90) DEF DeliveryState
  <2>4. NotificationState(row) = o
    BY <1>5, <2>1, Zenon DEF NotificationState
  <2> QED
    BY <1>5, <2>1, <2>3, <2>4, ZenonT(60) DEF Terminal
<1> QED
  BY <1>2, <1>3, <1>4, <1>5, ZenonT(90) DEF Written

\* The records of a reachable store have been written by the commands.
LEMMA RecordsWritten ==
    ASSUME IInv, NEW n \in DOMAIN db.outbox
    PROVE  db.outbox[n] \in Record /\ Written(db.outbox[n]) /\ Honest(db.outbox[n])
           /\ Len(db.outbox[n].events) \in Nat /\ Identity(db.outbox[n].intent) \in Identities
<1>1. db \in Tables /\ Written(db.outbox[n]) /\ Honest(db.outbox[n])
  BY Zenon DEF IInv, TypeOK, DeliveryInv, OutboxInv
<1>2. db.outbox[n] \in Record
  BY <1>1, TableTypes, Zenon
<1> QED
  BY <1>1, <1>2, RecordTypes, ZenonT(90)

\* Every table, process and count keeps its shape.
THEOREM TypeCorrect == Spec => []TypeOK
<1>1. IInv => TypeOK
  BY Zenon DEF IInv
<1> QED
  BY <1>1, Inductive, PTL

\* One event goes to one destination at most once, whichever processes submit
\* it, wherever they die and whatever power losses take back.
THEOREM NeverSentTwice == Spec => []SentAtMostOnce
<1>1. IInv => SentAtMostOnce
  BY DEF IInv, DeliveryInv, SentInv, SentAtMostOnce
<1> QED
  BY <1>1, Inductive, PTL

\* What a record says was sent was, and what it says was not was not.
THEOREM HonestRecords == Spec => []RecordsAreHonest
<1>1. ASSUME IInv, NEW n \in DOMAIN db.outbox
      PROVE  LET row == db.outbox[n]
                 times == sent[Identity(row.intent)]
             IN  /\ DeliveryState(row) = "refused" => times = 0
                 /\ DeliveryState(row) = "accepted" => times = 1
                 /\ DeliveryState(row) = "failed" => (Transport[row.intent.route] = "local_file" => times = 0)
                 /\ DeliveryState(row) = "pending" => (times = 0 \/ losses > 0)
  <2> DEFINE row == db.outbox[n]
             times == sent[Identity(row.intent)]
  <2>1. row \in Record /\ Written(row) /\ Honest(row) /\ Identity(row.intent) \in Identities
    BY <1>1, RecordsWritten, Zenon
  <2>2. ASSUME row.events = <<>> PROVE times = 0 \/ losses > 0
    <3>1. ASSUME losses = 0, times = 1 PROVE FALSE
      <4>1. PICK m \in DOMAIN db.outbox : Identity(db.outbox[m].intent) = Identity(row.intent)
                                          /\ db.outbox[m].events # <<>>
        BY <1>1, <2>1, <3>1, ZenonT(90) DEF IInv, DeliveryInv, SentInv
      <4>2. m = n
        BY <1>1, <4>1, ZenonT(90) DEF IInv, DeliveryInv, OutboxInv
      <4> QED
        BY <2>2, <4>1, <4>2, Zenon
    <3>2. times \in {0, 1} /\ losses \in 0 .. MaxLosses
      BY <1>1, <2>1, ZenonT(90) DEF IInv, DeliveryInv, SentInv, TypeOK
    <3>3. losses \in Nat
      BY <3>2, LossesAssumption
    <3> QED
      BY <3>1, <3>2, <3>3
  <2> HIDE DEF row
  <2>3. /\ DeliveryState(row) = "refused" => Len(row.events) = 1 /\ row.events[1].outcome = "refused"
        /\ DeliveryState(row) = "accepted" => Len(row.events) = 2 /\ row.events[2].outcome = "accepted"
        /\ DeliveryState(row) = "failed" => Len(row.events) = 2 /\ row.events[2].outcome = "failed"
        /\ DeliveryState(row) = "pending" => row.events = <<>>
    BY <2>1, StateOfWritten, Zenon DEF Written
  <2>4. /\ DeliveryState(row) = "refused" => times = 0
        /\ DeliveryState(row) = "accepted" => times = 1
        /\ DeliveryState(row) = "failed" => (Transport[row.intent.route] = "local_file" => times = 0)
        /\ DeliveryState(row) = "pending" => (times = 0 \/ losses > 0)
    BY <2>1, <2>2, <2>3, ZenonT(90) DEF Honest
  <2> QED
    BY <2>4, Zenon DEF row
<1>2. IInv => RecordsAreHonest
  BY <1>1, Zenon DEF RecordsAreHonest, Outbox
<1> QED
  BY <1>2, Inductive, PTL

\* An evaluation reads its target once, plus once for each power loss, and
\* everyone told its outcome asked the same and is told the same.
THEOREM OneEvaluation == Spec => []EvaluatedOnce
<1>1. ASSUME IInv, NEW e \in Evaluations PROVE reads[e] <= 1 + losses
  <2>1. reads[e] \in Nat /\ losses \in Nat
    BY <1>1, LossesAssumption DEF IInv, TypeOK
  <2>2. reads[e] <= losses + (IF \E b \in Binding : HasClaim(db.checks, e, b) THEN 1 ELSE 0)
    BY <1>1, ZenonT(90) DEF IInv, CheckInv, ReadsInv
  <2> QED
    BY <2>1, <2>2
<1>2. IInv => EvaluatedOnce
  BY <1>1, Zenon DEF EvaluatedOnce, TargetReadOnce, IInv, CheckInv
<1> QED
  BY <1>2, Inductive, PTL

\* The rollover inspection reads every history as delivery status does, and
\* calls a store eligible only when nothing is under way.
THEOREM SoundInspection == Spec => []InspectionIsSound
<1>1. ASSUME IInv PROVE InspectionReadsHistory
  <2>1. \A n \in DOMAIN db.outbox : NotificationState(db.outbox[n]) = DeliveryState(db.outbox[n])
                                    /\ NotificationState(db.outbox[n]) # "contradictory"
    BY <1>1, RecordsWritten, StateOfWritten, ZenonT(90) DEF Terminal
  <2>2. ~ ChecksContradictory
    <3>1. ChecksInv(db.checks)
      BY <1>1, Zenon DEF IInv, CheckInv
    <3>2. \A k \in DOMAIN db.checks : db.checks[k].outcome \in Results \cup {"claimed"} /\ k \in Nat
      BY <1>1, TableTypes DEF IInv, TypeOK, Check
    <3>3. "claimed" \notin Results
      BY Zenon DEF Results
    <3>4. ASSUME NEW k \in DOMAIN db.checks, db.checks[k].outcome = "claimed",
                 NEW j \in DOMAIN db.checks, db.checks[j].evaluation = db.checks[k].evaluation,
                 db.checks[j].outcome = "claimed", j < k
          PROVE  FALSE
      BY <3>1, <3>2, <3>4 DEF ChecksInv
    <3>5. ASSUME NEW k \in DOMAIN db.checks, db.checks[k].outcome # "claimed",
                 NEW j \in DOMAIN db.checks, db.checks[j].evaluation = db.checks[k].evaluation,
                 db.checks[j].outcome \in Results, j < k
          PROVE  FALSE
      BY <3>1, <3>2, <3>3, <3>5 DEF ChecksInv
    <3>6. ASSUME NEW k \in DOMAIN db.checks, db.checks[k].outcome # "claimed"
          PROVE  \E j \in DOMAIN db.checks : /\ db.checks[j].evaluation = db.checks[k].evaluation
                                             /\ db.checks[j].outcome = "claimed" /\ j < k
                                             /\ db.checks[j].binding = db.checks[k].binding
      BY <3>1, <3>6, Zenon DEF ChecksInv
    <3> QED
      BY <3>4, <3>5, <3>6, ZenonT(90) DEF ChecksContradictory, Of, CheckEvents
  <2> QED
    BY <2>1, <2>2, Zenon DEF InspectionReadsHistory, Contradictory, Outbox
<1>2. ASSUME IInv, Eligible PROVE EligibleIsSettled
  <2>1. \A n \in DOMAIN db.outbox : NotificationState(db.outbox[n]) \notin {"pending", "unknown"}
    BY <1>2, Zenon DEF Eligible, Outbox
  <2>2. ASSUME NEW c \in Couriers PROVE courier[c].pc \notin Working
    <3>1. SUFFICES ASSUME courier[c].pc \in Working PROVE FALSE
      BY Zenon
    <3> DEFINE n == courier[c].row
    <3>2. /\ n \in DOMAIN db.outbox
          /\ \/ db.outbox[n].events = <<>>
             \/ Len(db.outbox[n].events) = 1 /\ db.outbox[n].events[1].outcome = "claimed"
      BY <1>2, <3>1, ZenonT(90) DEF IInv, DeliveryInv, CourierInv, Working
    <3>3. NotificationState(db.outbox[n]) \in {"pending", "unknown"}
      BY <1>2, <3>2, RecordsWritten, StateOfWritten, ZenonT(90)
    <3> QED
      BY <2>1, <3>2, <3>3, Zenon
  <2>3. \A e \in Evaluations : ~ (Of(e, {"claimed"}) # {} /\ Of(e, Results) = {})
    BY <1>2, Zenon DEF Eligible, Unfinished
  <2>4. ASSUME NEW c \in Checkers PROVE checker[c].pc \notin Reading
    <3>1. SUFFICES ASSUME checker[c].pc \in Reading PROVE FALSE
      BY Zenon
    <3> DEFINE e == checker[c].evaluation
    <3>2. e \in Evaluations
      BY <1>2, <3>1, CheckerTypes, Zenon DEF IInv, Reading
    <3>3. /\ HasClaim(db.checks, e, checker[c].binding)
          /\ \A k \in DOMAIN db.checks : db.checks[k].evaluation = e => db.checks[k].outcome = "claimed"
      BY <1>2, <3>1, ZenonT(90) DEF IInv, CheckInv, CheckerInv, Reading
    <3>4. Of(e, {"claimed"}) # {}
      BY <3>3, Zenon DEF HasClaim, Of, CheckEvents
    <3>5. Of(e, Results) = {}
      BY <3>3, Zenon DEF Of, CheckEvents, Results
    <3> QED
      BY <2>3, <3>2, <3>4, <3>5, ZenonT(60)
  <2>5. ASSUME losses = 0, NEW k \in Identities, sent[k] > 0
        PROVE  \E n \in DOMAIN db.outbox : /\ Identity(db.outbox[n].intent) = k
                                           /\ DeliveryState(db.outbox[n]) \in {"accepted", "failed"}
    <3>1. sent[k] = 1
      BY <1>2, <2>5 DEF IInv, DeliveryInv, SentInv
    <3>2. PICK n \in DOMAIN db.outbox : Identity(db.outbox[n].intent) = k /\ db.outbox[n].events # <<>>
      BY <1>2, <2>5, <3>1, ZenonT(90) DEF IInv, DeliveryInv, SentInv
    <3>3. /\ db.outbox[n] \in Record /\ Written(db.outbox[n]) /\ Honest(db.outbox[n])
          /\ Len(db.outbox[n].events) \in Nat
      BY <1>2, RecordsWritten, ZenonT(90)
    <3>4. ~ (Len(db.outbox[n].events) = 1 /\ db.outbox[n].events[1].outcome = "refused")
      BY <3>1, <3>2, <3>3 DEF Honest
    <3>5. DeliveryState(db.outbox[n]) \in {"accepted", "failed", "unknown"}
      BY <3>2, <3>3, <3>4, StateOfWritten, ZenonT(90) DEF Written
    <3>6. DeliveryState(db.outbox[n]) # "unknown"
      BY <2>1, <3>3, StateOfWritten, Zenon
    <3> QED
      BY <3>2, <3>5, <3>6, ZenonT(90)
  <2>6. ASSUME losses = 0, NEW e \in Evaluations, reads[e] > 0 PROVE Of(e, Results) # {}
    <3>1. reads[e] \in Nat /\ reads[e] <= losses + (IF \E b \in Binding : HasClaim(db.checks, e, b) THEN 1 ELSE 0)
      BY <1>2, Zenon DEF IInv, TypeOK, CheckInv, ReadsInv
    <3>2. \E b \in Binding : HasClaim(db.checks, e, b)
      BY <2>6, <3>1
    <3>3. Of(e, {"claimed"}) # {}
      BY <3>2, Zenon DEF HasClaim, Of, CheckEvents
    <3> QED
      BY <2>3, <3>3, Zenon
  <2> QED
    BY <2>2, <2>4, <2>5, <2>6, Zenon DEF EligibleIsSettled, Outbox, Working, Reading
<1>3. IInv => InspectionIsSound
  BY <1>1, <1>2, Zenon DEF InspectionIsSound, EligibleIsSettled
<1> QED
  BY <1>3, Inductive, PTL

-----------------------------------------------------------------------------
(* The newest record of a condition. *)

\* Record m is of the condition of record n, on its route, and was created later.
Newer(outbox, m, n) ==
    /\ outbox[m].intent.route = outbox[n].intent.route
    /\ outbox[m].intent.condition = outbox[n].intent.condition
    /\ outbox[m].created > outbox[n].created

\* The record a resubmission copies was the newest among those it looked at.
CopiesNewest(me, outbox) ==
    /\ me.pc = "newest" => me.source \in DOMAIN outbox
    /\ me.pc \in Working \cup {"lookup", "retain"} /\ me.source # 0 =>
         /\ me.source \in DOMAIN outbox /\ me.asof <= Len(outbox)
         /\ \A m \in 1 .. me.asof : ~ Newer(outbox, m, me.source)

\* No record and no process has a time the clock has not reached.
Past(outbox, time) == \A n \in DOMAIN outbox : \A k \in DOMAIN outbox[n].events :
    outbox[n].events[k].at <= time
StampPast(me, time) == me.pc \in Working \cup {"retain"} => me.at <= time

NewestInv ==
    /\ \A c \in Couriers : CopiesNewest(courier[c], db.outbox) /\ StampPast(courier[c], clock)
    /\ Past(db.outbox, clock) /\ Past(disk.outbox, clock)

\* Records are only added, and an event changes neither intent nor time of its record.
Grows(old, new) ==
    /\ Len(old) <= Len(new)
    /\ \A n \in DOMAIN old : /\ n \in DOMAIN new /\ new[n].intent = old[n].intent
                             /\ new[n].created = old[n].created

LEMMA GrowsNot ==
    ASSUME NEW box \in Seq(Record)
    PROVE  Grows(box, box)
BY DEF Grows

LEMMA CopiesGrow ==
    ASSUME NEW old \in Seq(Record), NEW new \in Seq(Record), Grows(old, new),
           NEW me \in CourierState, CopiesNewest(me, old)
    PROVE  CopiesNewest(me, new)
<1>1. CASE me.pc \in Working \cup {"lookup", "retain"} /\ me.source # 0
  <2>1. me.asof \in Nat
    BY <1>1 DEF CourierState, Idle, Working
  <2>2. /\ me.source \in DOMAIN old /\ me.asof <= Len(old) /\ me.pc # "newest"
        /\ \A m \in 1 .. me.asof : ~ Newer(old, m, me.source)
    BY <1>1, Zenon DEF CopiesNewest, Working
  <2>3. me.source \in DOMAIN new /\ me.asof <= Len(new) /\ 1 .. me.asof \subseteq DOMAIN old
    BY <2>1, <2>2 DEF Grows
  <2>4. \A m \in 1 .. me.asof : ~ Newer(new, m, me.source)
    BY <2>2, <2>3, Zenon DEF Newer, Grows
  <2> QED
    BY <1>1, <2>2, <2>3, <2>4, Zenon DEF CopiesNewest
<1>2. CASE ~ (me.pc \in Working \cup {"lookup", "retain"} /\ me.source # 0)
  BY <1>2, Zenon DEF CopiesNewest, Grows
<1> QED
  BY <1>1, <1>2, Zenon

\* Time passes.
LEMMA PastLater ==
    ASSUME NEW box \in Seq(Record), NEW t \in Nat, NEW u \in Nat, t <= u, Past(box, t)
    PROVE  Past(box, u)
<1> SUFFICES ASSUME NEW n \in DOMAIN box, NEW k \in DOMAIN box[n].events
             PROVE  box[n].events[k].at <= u
  BY Zenon DEF Past
<1>1. box[n] \in Record
  OBVIOUS
<1>2. box[n].events[k] \in Event
  BY <1>1, RecordTypes
<1>3. box[n].events[k].at \in Nat /\ box[n].events[k].at <= t
  BY <1>2, Zenon DEF Event, Past
<1> QED
  BY <1>3

LEMMA StampLater ==
    ASSUME NEW me \in CourierState, NEW t \in Nat, NEW u \in Nat, t <= u, StampPast(me, t)
    PROVE  StampPast(me, u)
<1>1. me.pc \in Working \cup {"retain"} => me.at \in Nat
  BY DEF CourierState, Idle, Working
<1> QED
  BY <1>1 DEF StampPast

\* One process moves, and the records grow.
LEMMA NewestStep ==
    ASSUME TypeOK, NewestInv, TypeOK', NEW c \in Couriers, NEW new, Move(c, new),
           clock <= clock', Grows(db.outbox, db'.outbox),
           CopiesNewest(new, db'.outbox), StampPast(new, clock'),
           Past(db'.outbox, clock'), Past(disk'.outbox, clock')
    PROVE  NewestInv'
<1>1. /\ clock \in Nat /\ clock' \in Nat /\ db.outbox \in Seq(Record) /\ db'.outbox \in Seq(Record)
      /\ courier \in [Couriers -> CourierState]
  BY TableTypes, Zenon DEF TypeOK
<1>2. courier'[c] = new /\ \A d \in Couriers \ {c} : courier'[d] = courier[d] /\ courier[d] \in CourierState
  BY <1>1, Zenon DEF Move
<1>3. ASSUME NEW d \in Couriers
      PROVE  CopiesNewest(courier'[d], db'.outbox) /\ StampPast(courier'[d], clock')
  <2>1. CASE d = c
    BY <1>2, <2>1, Zenon
  <2>2. CASE d # c
    BY <1>1, <1>2, <2>2, CopiesGrow, StampLater, Zenon DEF NewestInv
  <2> QED
    BY <2>1, <2>2, ZenonT(60)
<1> QED
  BY <1>3, Zenon DEF NewestInv

\* A step that writes nothing.
LEMMA NewestReads ==
    ASSUME TypeOK, NewestInv, TypeOK', NEW c \in Couriers, NEW new, Move(c, new),
           clock <= clock', UNCHANGED storeVars,
           CopiesNewest(new, db.outbox), StampPast(new, clock')
    PROVE  NewestInv'
<1>1. db' = db /\ disk' = disk
  BY Zenon DEF storeVars
<1>2. /\ clock \in Nat /\ clock' \in Nat /\ db.outbox \in Seq(Record) /\ disk.outbox \in Seq(Record)
  BY TableTypes, Zenon DEF TypeOK
<1>3. Past(db.outbox, clock') /\ Past(disk.outbox, clock')
  BY <1>2, PastLater, Zenon DEF NewestInv
<1> QED
  BY <1>1, <1>2, <1>3, GrowsNot, NewestStep, Zenon

\* A process that is idle copies nothing.
LEMMA IdleCopies ==
    ASSUME NEW box, NEW t
    PROVE  CopiesNewest(Idle, box) /\ StampPast(Idle, t)
BY Zenon DEF CopiesNewest, StampPast, Idle, Working

\* An event with a time the clock has reached.
LEMMA NewestEvent ==
    ASSUME TypeOK, NewestInv, TypeOK', NEW c \in Couriers, NEW new, Move(c, new), clock <= clock',
           NEW n \in DOMAIN db.outbox, NEW number, NEW event \in Event,
           AppendEvent(n, number, event), event.at <= clock',
           CopiesNewest(new, db.outbox), new \in CourierState, StampPast(new, clock')
    PROVE  NewestInv'
<1>1. /\ clock \in Nat /\ clock' \in Nat /\ db.outbox \in Seq(Record) /\ db'.outbox \in Seq(Record)
      /\ disk'.outbox \in Seq(Record)
  BY TableTypes, Zenon DEF TypeOK
<1>2. /\ disk' \in {db, db'} /\ DOMAIN db'.outbox = DOMAIN db.outbox
      /\ Len(db'.outbox) = Len(db.outbox)
      /\ \A m \in DOMAIN db.outbox : m # n => db'.outbox[m] = db.outbox[m]
      /\ db'.outbox[n].intent = db.outbox[n].intent /\ db'.outbox[n].created = db.outbox[n].created
      /\ db'.outbox[n].events = Append(db.outbox[n].events, event)
  BY AppendEventFacts, Zenon
<1>3. Len(db.outbox) <= Len(db'.outbox)
  BY <1>1, <1>2
<1>4. Grows(db.outbox, db'.outbox)
  BY <1>2, <1>3, Zenon DEF Grows
<1>5. Past(db.outbox, clock')
  BY <1>1, PastLater, Zenon DEF NewestInv
<1>6. Past(db'.outbox, clock')
  <2> SUFFICES ASSUME NEW m \in DOMAIN db'.outbox, NEW k \in DOMAIN db'.outbox[m].events
               PROVE  db'.outbox[m].events[k].at <= clock'
    BY Zenon DEF Past
  <2>1. CASE m # n
    BY <1>2, <1>5, <2>1, Zenon DEF Past
  <2>2. CASE m = n
    <3> DEFINE old == db.outbox[n].events
    <3>1. old \in Seq(Event)
      <4>1. db.outbox[n] \in Record
        BY <1>1
      <4> QED
        BY <4>1, RecordTypes, ZenonT(60)
    <3> HIDE DEF old
    <3>2. /\ DOMAIN Append(old, event) = DOMAIN old \cup {Len(old) + 1}
          /\ \A i \in DOMAIN old : Append(old, event)[i] = old[i]
          /\ Append(old, event)[Len(old) + 1] = event
      BY <3>1, AppendElements
    <3> QED
      BY <1>2, <1>5, <2>2, <3>2, Zenon DEF Past, old
  <2> QED
    BY <2>1, <2>2, ZenonT(60)
<1>7. Past(disk'.outbox, clock')
  BY <1>2, <1>5, <1>6, Zenon
<1>8. CopiesNewest(new, db'.outbox)
  BY <1>1, <1>4, CopiesGrow, Zenon
<1> QED
  BY <1>4, <1>6, <1>7, <1>8, NewestStep, Zenon

-----------------------------------------------------------------------------

\* What a delivering process knows, carried to its next step.
LEMMA CopiesOn ==
    ASSUME NEW box, NEW me, NEW new, CopiesNewest(me, box), me.pc \in Working \cup {"lookup", "retain"},
           new.pc # "newest", new.source = me.source, new.asof = me.asof
    PROVE  CopiesNewest(new, box)
BY Zenon DEF CopiesNewest

LEMMA SubmitNewest ==
    ASSUME TypeOK, NewestInv, TypeOK', NEW c \in Couriers, Submit(c)
    PROVE  NewestInv'
<1>1. PICK i \in Intents : Stamp(c, i, 0, 0)
  BY Zenon DEF Submit
<1> DEFINE new == [pc |-> "retain", intent |-> i, row |-> 0, source |-> 0, asof |-> 0,
                   at |-> clock', outcome |-> "none"]
<1>2. Move(c, new) /\ clock' = clock + 1
  BY <1>1, Zenon DEF Stamp
<1>3. clock <= clock' /\ clock' <= clock'
  BY <1>2 DEF TypeOK
<1>4. CopiesNewest(new, db.outbox) /\ StampPast(new, clock')
  BY <1>3, Zenon DEF CopiesNewest, StampPast
<1>5. UNCHANGED storeVars
  BY Zenon DEF Submit
<1> QED
  BY <1>2, <1>3, <1>4, <1>5, NewestReads, Zenon

LEMMA ResubmitNewest ==
    ASSUME TypeOK, NewestInv, TypeOK', NEW c \in Couriers, Resubmit(c)
    PROVE  NewestInv'
<1>1. PICK n \in DOMAIN db.outbox, e \in Events :
        Move(c, [pc |-> "newest", intent |-> [db.outbox[n].intent EXCEPT !.event = e], source |-> n])
  BY Zenon DEF Resubmit, Outbox
<1> DEFINE new == [pc |-> "newest", intent |-> [db.outbox[n].intent EXCEPT !.event = e], source |-> n]
<1>2. clock' = clock /\ UNCHANGED storeVars
  BY Zenon DEF Resubmit, Reads
<1>3. CopiesNewest(new, db.outbox) /\ StampPast(new, clock')
  BY Zenon DEF CopiesNewest, StampPast, Working
<1>4. clock <= clock'
  BY <1>2 DEF TypeOK
<1> QED
  BY <1>1, <1>2, <1>3, <1>4, NewestReads, Zenon

LEMMA CheckNewestNewest ==
    ASSUME TypeOK, NewestInv, TypeOK', NEW c \in Couriers, CheckNewest(c)
    PROVE  NewestInv'
<1> DEFINE me == courier[c]
           new == [pc |-> "lookup", intent |-> me.intent, source |-> me.source, asof |-> Len(Outbox)]
<1>1. me.pc = "newest" /\ UNCHANGED <<storeVars, clock>>
  BY Zenon DEF CheckNewest, Reads
<1>2. clock <= clock' /\ Len(db.outbox) \in Nat /\ DOMAIN db.outbox = 1 .. Len(db.outbox)
      /\ \A n \in DOMAIN db.outbox : db.outbox[n].created \in Nat
  <2>1. db.outbox \in Seq(Record)
    BY TableTypes, ZenonT(60) DEF TypeOK
  <2>2. \A r \in Record : r.created \in Nat
    BY Zenon DEF Record
  <2>3. \A n \in DOMAIN db.outbox : db.outbox[n] \in Record
    BY <2>1
  <2>4. Len(db.outbox) \in Nat /\ DOMAIN db.outbox = 1 .. Len(db.outbox)
    BY <2>1
  <2>5. clock <= clock'
    BY <1>1 DEF TypeOK
  <2> QED
    BY <2>2, <2>3, <2>4, <2>5, Zenon
<1>3. me.source \in DOMAIN db.outbox
  BY <1>1, Zenon DEF NewestInv, CopiesNewest
<1>4. CASE Move(c, Idle)
  BY <1>1, <1>2, <1>4, IdleCopies, NewestReads, Zenon
<1>5. CASE Move(c, new) /\ NewerSameCondition(me.source) = {}
  <2>1. \A m \in 1 .. Len(db.outbox) : ~ Newer(db.outbox, m, me.source)
    BY <1>2, <1>3, <1>5, ZenonT(60) DEF NewerSameCondition, Outbox, Newer
  <2>2. Len(db.outbox) <= Len(db.outbox)
    BY <1>2
  <2>3. new.pc = "lookup" /\ new.source = me.source /\ new.asof = Len(db.outbox)
    BY Zenon DEF Outbox
  <2>4. "lookup" # "newest" /\ "lookup" \notin Working \cup {"retain"}
    BY Zenon DEF Working
  <2> HIDE DEF new
  <2>5. CopiesNewest(new, db.outbox) /\ StampPast(new, clock')
    BY <1>3, <2>1, <2>2, <2>3, <2>4, Zenon DEF CopiesNewest, StampPast
  <2> QED
    BY <1>1, <1>2, <1>5, <2>5, NewestReads, Zenon
<1> QED
  BY <1>4, <1>5, Zenon DEF CheckNewest

LEMMA SubmitAgainNewest ==
    ASSUME TypeOK, NewestInv, TypeOK', NEW c \in Couriers, SubmitAgain(c)
    PROVE  NewestInv'
<1> DEFINE me == courier[c]
           new == [pc |-> "retain", intent |-> me.intent, row |-> 0, source |-> me.source,
                   asof |-> me.asof, at |-> clock', outcome |-> "none"]
<1>1. me.pc = "lookup" /\ UNCHANGED storeVars /\ CopiesNewest(me, db.outbox)
  BY Zenon DEF SubmitAgain, NewestInv
<1>2. clock' \in Nat /\ clock \in Nat
  BY Zenon DEF TypeOK
<1>3. CASE Stamp(c, me.intent, me.source, me.asof)
  <2>1. Move(c, new) /\ clock' = clock + 1
    BY <1>3, Zenon DEF Stamp
  <2>2. clock <= clock' /\ clock' <= clock'
    BY <1>2, <2>1
  <2>3. /\ new.pc = "retain" /\ new.pc # "newest" /\ new.source = me.source /\ new.asof = me.asof
        /\ new.at = clock'
    BY Zenon
  <2> HIDE DEF new
  <2>4. CopiesNewest(new, db.outbox) /\ StampPast(new, clock')
    BY <1>1, <2>2, <2>3, CopiesOn, Zenon DEF StampPast
  <2> QED
    BY <1>1, <2>1, <2>2, <2>4, NewestReads, Zenon
<1>4. CASE Move(c, Idle) /\ clock' = clock
  <2>1. clock <= clock'
    BY <1>2, <1>4
  <2> QED
    BY <1>1, <1>4, <2>1, IdleCopies, NewestReads, Zenon
<1> QED
  BY <1>3, <1>4, Zenon DEF SubmitAgain

LEMMA AbortNewest ==
    ASSUME TypeOK, NewestInv, TypeOK', NEW c \in Couriers, Abort(c)
    PROVE  NewestInv'
<1>1. Move(c, Idle) /\ clock' = clock /\ UNCHANGED storeVars
  BY Zenon DEF Abort, Reads
<1>2. clock <= clock'
  BY <1>1 DEF TypeOK
<1> QED
  BY <1>1, <1>2, IdleCopies, NewestReads, Zenon

\* A process with a record: its fields, and those of its next state.
LEMMA WorkingFields ==
    ASSUME TypeOK, NEW c \in Couriers, courier[c].pc \in Working \cup {"retain"}, NEW new,
           \/ \E step \in Working : new = [courier[c] EXCEPT !.pc = step]
           \/ \E step \in Working : \E n : new = [courier[c] EXCEPT !.pc = step, !.row = n]
           \/ \E step \in Working : \E o : new = [courier[c] EXCEPT !.pc = step, !.outcome = o]
    PROVE  /\ new.pc \in Working /\ new.pc # "newest" /\ new.source = courier[c].source
           /\ new.asof = courier[c].asof /\ new.at = courier[c].at
<1>1. courier[c] \in [pc : {"retain", "decide", "send", "record"}, intent : Intent, row : Nat,
                      source : Nat, asof : Nat, at : Nat,
                      outcome : {"none", "accepted", "failed", "unknown"}]
  BY CourierTypes, Zenon
<1> QED
  BY <1>1, Zenon DEF Working

LEMMA WorkingOn ==
    ASSUME TypeOK, NewestInv, TypeOK', clock <= clock', NEW c \in Couriers,
           courier[c].pc \in Working \cup {"retain"}, NEW new,
           \/ \E step \in Working : new = [courier[c] EXCEPT !.pc = step]
           \/ \E step \in Working : \E n : new = [courier[c] EXCEPT !.pc = step, !.row = n]
           \/ \E step \in Working : \E o : new = [courier[c] EXCEPT !.pc = step, !.outcome = o]
    PROVE  CopiesNewest(new, db.outbox) /\ StampPast(new, clock')
<1>1. /\ new.pc \in Working /\ new.pc # "newest" /\ new.source = courier[c].source
      /\ new.asof = courier[c].asof /\ new.at = courier[c].at
  BY WorkingFields, Zenon
<1>2. CopiesNewest(courier[c], db.outbox) /\ StampPast(courier[c], clock)
  BY Zenon DEF NewestInv
<1>3. courier[c] \in CourierState /\ clock \in Nat /\ clock' \in Nat
  BY Zenon DEF TypeOK
<1>4. StampPast(courier[c], clock')
  BY <1>2, <1>3, StampLater, Zenon
<1> QED
  BY <1>1, <1>2, <1>4, CopiesOn, Zenon DEF StampPast

LEMMA SendNewest ==
    ASSUME TypeOK, NewestInv, TypeOK', NEW c \in Couriers, Send(c)
    PROVE  NewestInv'
<1>1. courier[c].pc = "send" /\ UNCHANGED <<storeVars, clock>>
  BY Zenon DEF Send
<1>2. PICK outcome \in {"accepted", "failed", "unknown"} :
        Move(c, [courier[c] EXCEPT !.pc = "record", !.outcome = outcome])
  BY Zenon DEF Send
<1> DEFINE new == [courier[c] EXCEPT !.pc = "record", !.outcome = outcome]
<1>3. clock <= clock' /\ "record" \in Working /\ "send" \in Working
  BY <1>1 DEF TypeOK, Working
<1>4. CopiesNewest(new, db.outbox) /\ StampPast(new, clock')
  BY <1>1, <1>3, WorkingOn, Zenon
<1> QED
  BY <1>1, <1>2, <1>3, <1>4, NewestReads, Zenon

LEMMA RetainDeliveryNewest ==
    ASSUME TypeOK, NewestInv, TypeOK', NEW c \in Couriers, RetainDelivery(c)
    PROVE  NewestInv'
<1>1. courier[c].pc = "retain" /\ clock' = clock
  BY Zenon DEF RetainDelivery
<1>2. clock <= clock' /\ clock \in Nat /\ db.outbox \in Seq(Record) /\ db'.outbox \in Seq(Record)
      /\ disk.outbox \in Seq(Record)
  BY <1>1, TableTypes DEF TypeOK
<1>3. CASE Move(c, Idle) /\ UNCHANGED storeVars
  BY <1>2, <1>3, IdleCopies, NewestReads, Zenon
<1>4. CASE InsertRow(c)
  <2> DEFINE row == [intent |-> courier[c].intent, created |-> courier[c].at, events |-> <<>>]
             new == [courier[c] EXCEPT !.pc = "decide", !.row = Len(Outbox) + 1]
  <2>1. Commit([db EXCEPT !.outbox = Append(db.outbox, row)]) /\ Move(c, new)
    BY <1>4, Zenon DEF InsertRow, Outbox
  <2>2. db' = [db EXCEPT !.outbox = Append(db.outbox, row)] /\ disk' \in {db, db'}
    BY <2>1, CommitFacts, ZenonT(60)
  <2>3. db'.outbox = Append(db.outbox, row)
    BY <2>2, Zenon DEF TypeOK, Tables
  <2>4. row \in Record
    BY <1>1, CourierTypes DEF Record, Working
  <2>5. row.events = <<>>
    BY Zenon
  <2> HIDE DEF row
  <2>6. /\ Len(db'.outbox) = Len(db.outbox) + 1 /\ Len(db.outbox) \in Nat
        /\ DOMAIN db'.outbox = (DOMAIN db.outbox) \cup {Len(db.outbox) + 1}
        /\ \A i \in DOMAIN db.outbox : db'.outbox[i] = db.outbox[i]
        /\ db'.outbox[Len(db.outbox) + 1] = row
    BY <1>2, <2>3, <2>4, AppendElements
  <2>7. Len(db.outbox) <= Len(db'.outbox)
    BY <2>6
  <2>8. Grows(db.outbox, db'.outbox)
    BY <2>6, <2>7, Zenon DEF Grows
  <2>9. Past(db.outbox, clock')
    BY <1>1, Zenon DEF NewestInv
  <2>10. DOMAIN row.events = {}
    BY <2>5
  <2>11. Past(db'.outbox, clock')
    BY <2>6, <2>9, <2>10, Zenon DEF Past
  <2>12. Past(disk'.outbox, clock')
    BY <2>2, <2>9, <2>11, Zenon
  <2>13. "decide" \in Working
    BY Zenon DEF Working
  <2>14. CopiesNewest(new, db.outbox) /\ StampPast(new, clock')
    BY <1>1, <1>2, <2>13, WorkingOn, Zenon
  <2>15. new \in CourierState
    <3>1. courier'[c] = new /\ courier'[c] \in CourierState
      BY <2>1, Zenon DEF Move, TypeOK
    <3> QED
      BY <3>1, Zenon
  <2> HIDE DEF new
  <2>16. CopiesNewest(new, db'.outbox)
    BY <1>2, <2>8, <2>14, <2>15, CopiesGrow, Zenon
  <2> QED
    BY <1>2, <2>1, <2>8, <2>11, <2>12, <2>14, <2>16, NewestStep, Zenon
<1> QED
  BY <1>3, <1>4, Zenon DEF RetainDelivery

\* The record of a process is one of the store.
LEMMA OwnRecord ==
    ASSUME DeliveryInv, NEW c \in Couriers, courier[c].pc \in Working
    PROVE  courier[c].row \in DOMAIN db.outbox
BY Zenon DEF DeliveryInv, CourierInv, Working

LEMMA RefuseNewest ==
    ASSUME TypeOK, DeliveryInv, NewestInv, TypeOK', NEW c \in Couriers, Refuse(c)
    PROVE  NewestInv'
<1>1. courier[c].pc = "decide" /\ Move(c, Idle) /\ clock' = clock
  BY Zenon DEF Refuse
<1>2. PICK deliberate \in BOOLEAN :
        AppendEvent(courier[c].row, 1,
                    [outcome |-> "refused", deliberate |-> deliberate, at |-> courier[c].at])
  BY Zenon DEF Refuse
<1> DEFINE event == [outcome |-> "refused", deliberate |-> deliberate, at |-> courier[c].at]
<1>3. courier[c].pc \in Working /\ clock <= clock' /\ courier[c].at \in Nat
  BY <1>1, CourierTypes, SMTT(30) DEF Working, TypeOK
<1>4. event \in Event /\ event.at = courier[c].at
  BY <1>3, Zenon DEF Event, Terminal
<1>5. courier[c].at <= clock'
  BY <1>1, <1>3, Zenon DEF NewestInv, StampPast
<1> HIDE DEF event
<1>6. AppendEvent(courier[c].row, 1, event) /\ Idle \in CourierState
  BY <1>2, IdleState, Zenon DEF event
<1> QED
  BY <1>1, <1>3, <1>4, <1>5, <1>6, OwnRecord, IdleCopies, NewestEvent, Zenon

LEMMA ClaimNewest ==
    ASSUME TypeOK, DeliveryInv, NewestInv, TypeOK', NEW c \in Couriers, Claim(c)
    PROVE  NewestInv'
<1> DEFINE event == [outcome |-> "claimed", deliberate |-> FALSE, at |-> courier[c].at]
           new == [courier[c] EXCEPT !.pc = "send"]
<1>1. courier[c].pc = "decide" /\ Move(c, new) /\ clock' = clock
      /\ AppendEvent(courier[c].row, 1, event)
  BY Zenon DEF Claim, Goto
<1>2. /\ courier[c].pc \in Working /\ "send" \in Working /\ clock <= clock' /\ courier[c].at \in Nat
  BY <1>1, CourierTypes DEF Working, TypeOK
<1>3. event \in Event /\ event.at = courier[c].at
  BY <1>2, Zenon DEF Event, Terminal
<1>4. courier[c].at <= clock'
  BY <1>1, <1>2, Zenon DEF NewestInv, StampPast
<1>5. CopiesNewest(new, db.outbox) /\ StampPast(new, clock')
  BY <1>2, WorkingOn, Zenon
<1>6. new \in CourierState
  <2>1. courier'[c] = new /\ courier'[c] \in CourierState
    BY <1>1, Zenon DEF Move, TypeOK
  <2> QED
    BY <2>1, Zenon
<1> HIDE DEF event, new
<1> QED
  BY <1>1, <1>2, <1>3, <1>4, <1>5, <1>6, OwnRecord, NewestEvent, Zenon

LEMMA RecordOutcomeNewest ==
    ASSUME TypeOK, DeliveryInv, NewestInv, TypeOK', NEW c \in Couriers, RecordOutcome(c)
    PROVE  NewestInv'
<1> DEFINE event == [outcome |-> courier[c].outcome, deliberate |-> FALSE, at |-> clock']
<1>1. courier[c].pc = "record" /\ Move(c, Idle) /\ clock' = clock + 1
      /\ AppendEvent(courier[c].row, 2, event)
  BY Zenon DEF RecordOutcome
<1>2. courier[c].pc \in Working /\ clock <= clock' /\ clock' <= clock' /\ clock' \in Nat
  BY <1>1 DEF Working, TypeOK
<1>3. courier[c].outcome # "none"
  BY <1>1, <1>2, Zenon DEF DeliveryInv, CourierInv, Working
<1>4. event \in Event /\ event.at = clock'
  BY <1>2, <1>3, CourierTypes, Zenon DEF Event, Terminal
<1>5. Idle \in CourierState
  BY IdleState, Zenon
<1> HIDE DEF event
<1> QED
  BY <1>1, <1>2, <1>4, <1>5, OwnRecord, IdleCopies, NewestEvent, Zenon

\* Steps of saved checks and of an installation leave the outbox alone.
LEMMA BesideNewest ==
    ASSUME TypeOK, NewestInv, UNCHANGED <<courier, clock>>, db'.outbox = db.outbox,
           disk'.outbox \in {disk.outbox, db.outbox}
    PROVE  NewestInv'
BY Zenon DEF NewestInv

LEMMA PowerLossNewest ==
    ASSUME NewestInv, PowerLoss
    PROVE  NewestInv'
<1>1. clock' = clock /\ db' \in {db, disk} /\ disk' \in {db, disk} /\ \A c \in Couriers : courier'[c] = Idle
  BY Zenon DEF PowerLoss, LoseNewestCommit
<1> QED
  BY <1>1, IdleCopies, Zenon DEF NewestInv

LEMMA InitNewest == Init => NewestInv
<1> SUFFICES ASSUME Init PROVE NewestInv
  BY Zenon
<1>1. PICK h \in Histories : db.outbox = h.outbox /\ clock = h.now /\ disk = db
                             /\ \A c \in Couriers : courier[c] = Idle
  BY DEF Init, NotificationInit
<1>2. Past(h.outbox, h.now)
  BY CustodyAssumption, Zenon DEF Past
<1> QED
  BY <1>1, <1>2, IdleCopies, Zenon DEF NewestInv

\* No step of a saved check touches a delivery record.
LEMMA ChecksLeaveOutbox ==
    ASSUME TypeOK, UNCHANGED notificationVars,
           Install \/ \E c \in Checkers : RunCheck(c)
    PROVE  /\ UNCHANGED <<courier, clock>> /\ db'.outbox = db.outbox
           /\ disk'.outbox \in {disk.outbox, db.outbox}
<1>1. UNCHANGED <<courier, clock>> /\ db \in Tables
  BY Zenon DEF notificationVars, TypeOK
<1>2. ASSUME NEW new, Commit(new), new.outbox = db.outbox
      PROVE  db'.outbox = db.outbox /\ disk'.outbox \in {disk.outbox, db.outbox}
  BY <1>2, CommitFacts, Zenon
<1>3. \A r, m : [db EXCEPT !.definitions[r] = m].outbox = db.outbox
  BY <1>1, Zenon DEF Tables
<1>4. \A s : [db EXCEPT !.checks = s].outbox = db.outbox
  BY <1>1, Zenon DEF Tables
<1>5. CASE Install
  BY <1>1, <1>2, <1>3, <1>5, Zenon DEF Install
<1>6. CASE UNCHANGED storeVars
  BY <1>1, <1>6, ZenonT(60) DEF storeVars
<1>7. CASE \E s : Commit([db EXCEPT !.checks = s])
  BY <1>1, <1>2, <1>4, <1>7, Zenon
<1>8. ASSUME NEW c \in Checkers, RunCheck(c)
      PROVE  UNCHANGED storeVars \/ \E s : Commit([db EXCEPT !.checks = s])
  <2>1. CASE Evaluate(c)
    BY <2>1, Zenon DEF Evaluate
  <2>2. CASE ReplayEvaluation(c)
    BY <2>2, Zenon DEF ReplayEvaluation
  <2>3. CASE ClaimEvaluation(c)
    BY <2>3, Zenon DEF ClaimEvaluation
  <2>4. CASE ReadTarget(c)
    BY <2>4, Zenon DEF ReadTarget
  <2>5. CASE AppendResult(c)
    BY <2>5, Zenon DEF AppendResult
  <2>6. CASE Drop(c)
    BY <2>6, Zenon DEF Drop
  <2> QED
    BY <1>8, <2>1, <2>2, <2>3, <2>4, <2>5, <2>6, Zenon DEF RunCheck
<1> QED
  BY <1>5, <1>6, <1>7, <1>8, Zenon

LEMMA NewestHolds == Spec => []NewestInv
<1>1. ASSUME IInv, NewestInv, TypeOK', NEW c \in Couriers, Deliver(c) PROVE NewestInv'
  BY <1>1, SubmitNewest, ResubmitNewest, CheckNewestNewest, SubmitAgainNewest, RetainDeliveryNewest,
     RefuseNewest, ClaimNewest, SendNewest, RecordOutcomeNewest, AbortNewest, Zenon DEF Deliver, IInv
<1>2. ASSUME IInv, NewestInv, UNCHANGED vars PROVE NewestInv'
  BY <1>2, ZenonT(60) DEF vars, storeVars, notificationVars, NewestInv
<1>3. ASSUME IInv, NewestInv, TypeOK', Next PROVE NewestInv'
  BY <1>1, <1>3, ChecksLeaveOutbox, BesideNewest, PowerLossNewest, Zenon DEF Next, IInv
<1>4. IInv /\ NewestInv /\ IInv' /\ [Next]_vars => NewestInv'
  BY <1>2, <1>3, Zenon DEF IInv
<1> QED
  BY <1>4, InitNewest, Inductive, PTL DEF Spec

-----------------------------------------------------------------------------

\* A set of times the clock has reached has a latest one.
LEMMA Latest ==
    ASSUME NEW S, S \subseteq Nat, S # {}, NEW t \in Nat, \A x \in S : x <= t
    PROVE  \E x \in S : \A y \in S : y <= x
<1> DEFINE T == {n \in Nat : t - n \in S}
           less == {p \in Nat \X Nat : p[1] < p[2]}
<1>1. IsWellFoundedOn(less, Nat)
  BY NatLessThanWellFounded, Zenon DEF OpToRel
<1>2. T \subseteq Nat
  BY Zenon
<1>3. T # {}
  <2>1. PICK x \in S : x \in Nat /\ x <= t
    BY Zenon
  <2>2. t - x \in Nat /\ t - (t - x) = x
    BY <2>1
  <2> QED
    BY <2>2, Zenon
<1>4. PICK d \in T : \A e \in T : ~ (<<e, d>> \in less)
  <2> HIDE DEF T, less
  <2> QED
    BY <1>1, <1>2, <1>3, WFMin, Zenon
<1>5. ASSUME NEW e \in T PROVE d <= e
  <2>1. ~ (e < d)
    <3>1. <<e, d>> \in Nat \X Nat
      BY <1>2, Zenon
    <3> QED
      BY <1>4, <3>1, Zenon
  <2> QED
    BY <1>2, <2>1
<1>6. ASSUME NEW y \in S PROVE y <= t - d
  <2>1. y \in Nat /\ y <= t
    BY Zenon
  <2>2. t - y \in Nat /\ t - (t - y) = y
    BY <2>1
  <2>3. t - y \in T
    BY <2>2, Zenon
  <2>4. d <= t - y /\ d \in Nat
    BY <1>2, <1>5, <2>3, Zenon
  <2> QED
    BY <2>1, <2>4
<1> QED
  BY <1>6, Zenon

\* What the summary counts of a record are events of that record, and an
\* acceptance counts whichever claims are stale.
LEMMA CountedFacts ==
    ASSUME TypeOK, NewestInv, NEW n \in DOMAIN db.outbox, NEW stale, NEW e \in Counted(n, stale)
    PROVE  /\ e.record = n /\ e.at \in Nat /\ e.at <= clock
           /\ e.outcome = "accepted" => e \in Counted(n, {})
<1> DEFINE f(k) == db.outbox[n].events[k]
<1>1. PICK k \in DOMAIN db.outbox[n].events :
        /\ e = [outcome |-> f(k).outcome, at |-> f(k).at, record |-> n]
        /\ CASE f(k).outcome = "claimed" -> Claimed(db.outbox[n]) /\ n \in stale
             [] f(k).outcome = "refused" -> ~ f(k).deliberate
             [] OTHER -> TRUE
  BY Zenon DEF Counted, Outbox
<1>2. f(k) \in Event
  <2>1. db.outbox[n] \in Record
    BY TableTypes, ZenonT(60) DEF TypeOK
  <2> QED
    BY <2>1, RecordTypes
<1>3. f(k).at \in Nat /\ f(k).at <= clock
  BY <1>2, Zenon DEF Event, NewestInv, Past
<1>4. ASSUME f(k).outcome = "accepted" PROVE e \in Counted(n, {})
  BY <1>1, <1>4, ZenonT(60) DEF Counted, Outbox
<1> QED
  BY <1>1, <1>3, <1>4, ZenonT(60)

\* Every failure the records show is listed, or a later one of its condition is,
\* until a delivery of that condition is accepted, and a resubmission copies the
\* record that was the newest of its condition when it looked.
THEOREM NewestStateIsShown == Spec => []NewestIsShown
<1>1. ASSUME IInv, NewestInv PROVE ResubmissionFollowsNewest
  <2> SUFFICES ASSUME NEW c \in Couriers, courier[c].pc = "send", courier[c].source # 0,
                      NEW m \in DOMAIN db.outbox, Newer(db.outbox, m, courier[c].source)
               PROVE  m > courier[c].asof
    BY Zenon DEF ResubmissionFollowsNewest, Outbox, Newer
  <2>1. \A i \in 1 .. courier[c].asof : ~ Newer(db.outbox, i, courier[c].source)
    BY <1>1, Zenon DEF NewestInv, CopiesNewest, Working
  <2>2. m \in Nat /\ m >= 1 /\ courier[c].asof \in Nat
    BY <1>1, TableTypes, CourierTypes, SMTT(30) DEF IInv, TypeOK, Working
  <2> QED
    BY <2>1, <2>2
<1>2. ASSUME IInv, NewestInv, NEW stale, NEW n \in DOMAIN db.outbox, NEW e \in Counted(n, stale),
             e.outcome # "accepted",
             \A m \in DOMAIN db.outbox : Condition(db.outbox[m]) = Condition(db.outbox[n]) =>
               \A f \in Counted(m, {}) : f.outcome = "accepted" => f.at < e.at
      PROVE  \E m \in Unresolved(stale) : /\ m \in DOMAIN db.outbox
                                          /\ Condition(db.outbox[m]) = Condition(db.outbox[n])
  <2> DEFINE events == UNION {Counted(m, stale) : m \in DOMAIN db.outbox}
             alike == {g \in events : Condition(db.outbox[g.record]) = Condition(db.outbox[n])}
             times == {g.at : g \in alike}
  <2>1. \A g \in events : /\ g.record \in DOMAIN db.outbox /\ g \in Counted(g.record, stale)
                          /\ g.at \in Nat /\ g.at <= clock
                          /\ g.outcome = "accepted" => g \in Counted(g.record, {})
    <3> TAKE g \in events
    <3>1. PICK m \in DOMAIN db.outbox : g \in Counted(m, stale)
      BY Zenon
    <3>2. /\ g.record = m /\ g.at \in Nat /\ g.at <= clock
          /\ g.outcome = "accepted" => g \in Counted(m, {})
      BY <1>2, <3>1, CountedFacts, Zenon DEF IInv
    <3> QED
      BY <3>1, <3>2, Zenon
  <2>2. e \in alike
    BY <1>2, CountedFacts, Zenon DEF IInv
  <2>3. PICK g \in alike : \A h \in alike : h.at <= g.at
    <3>1. times \subseteq Nat /\ times # {} /\ clock \in Nat /\ \A x \in times : x <= clock
      BY <1>2, <2>1, <2>2, Zenon DEF IInv, TypeOK
    <3> HIDE DEF times
    <3>2. PICK x \in times : \A y \in times : y <= x
      BY <3>1, Latest, ZenonT(60)
    <3> QED
      BY <3>2, Zenon DEF times
  <2>4. g.outcome # "accepted"
    <3>1. e.at <= g.at /\ e.at \in Nat /\ g.at \in Nat
      BY <2>1, <2>2, <2>3, Zenon
    <3>2. ~ (g.at < e.at)
      BY <3>1
    <3> QED
      BY <1>2, <2>1, <2>3, <3>2, Zenon
  <2>5. \A h \in events : Condition(db.outbox[h.record]) = Condition(db.outbox[g.record]) => h.at <= g.at
    BY <2>3, Zenon
  <2>6. g.record \in Unresolved(stale)
    BY <2>3, <2>4, <2>5, ZenonT(60) DEF Unresolved, Outbox
  <2> QED
    BY <2>1, <2>3, <2>6, Zenon
<1>3. \A m, n : Condition(db.outbox[m]) = Condition(db.outbox[n]) <=>
        /\ db.outbox[m].intent.route = db.outbox[n].intent.route
        /\ Transport[db.outbox[n].intent.route] = "pagerduty" =>
             db.outbox[m].intent.condition = db.outbox[n].intent.condition
  BY SMTT(30) DEF Condition
<1>4. ASSUME IInv, NewestInv PROVE FailureStaysVisible
  <2> DEFINE held == {courier[c].row : c \in {d \in Couriers : courier[d].pc \in {"send", "record"}}}
             stale == {n \in DOMAIN db.outbox : Claimed(db.outbox[n])} \ held
             Same(m, n) ==
                 /\ db.outbox[m].intent.route = db.outbox[n].intent.route
                 /\ Transport[db.outbox[n].intent.route] = "pagerduty" =>
                      db.outbox[m].intent.condition = db.outbox[n].intent.condition
  <2> HIDE DEF stale
  <2>1. ASSUME NEW n \in DOMAIN db.outbox, NEW e \in Counted(n, stale), e.outcome # "accepted",
               \A m \in DOMAIN db.outbox : Same(m, n) =>
                 \A f \in Counted(m, {}) : f.outcome = "accepted" => f.at < e.at
        PROVE  \E m \in Unresolved(stale) : Same(m, n)
    <3>1. \A m \in DOMAIN db.outbox : Condition(db.outbox[m]) = Condition(db.outbox[n]) =>
            \A f \in Counted(m, {}) : f.outcome = "accepted" => f.at < e.at
      BY <1>3, <2>1, Zenon
    <3>2. PICK m \in Unresolved(stale) : Condition(db.outbox[m]) = Condition(db.outbox[n])
      BY <1>2, <1>4, <2>1, <3>1, Zenon
    <3> QED
      BY <1>3, <3>2, Zenon
  <2> QED
    BY <2>1, ZenonT(60) DEF FailureStaysVisible, Outbox, stale
<1>5. IInv /\ NewestInv => NewestIsShown
  BY <1>1, <1>4, Zenon DEF NewestIsShown
<1> QED
  BY <1>5, Inductive, NewestHolds, PTL
=============================================================================
