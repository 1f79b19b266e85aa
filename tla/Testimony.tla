----------------------------- MODULE Testimony -----------------------------
(***************************************************************************)
(* From a host to a conclusion about it.  NQ sends a helper a request; the     *)
(* helper reads the host step by step while the host goes on changing, and     *)
(* answers once; NQ decodes the answer, checks the exchange and the profile's  *)
(* laws, and retains the report; later, by another clock reading, a detector   *)
(* concludes something from the newest report it has.                          *)
(*                                                                            *)
(* Source: crates/nq-protocol, crates/nq-profiles, the helper crates, and the  *)
(* exchange of crates/nq-core/src/engine.rs.                                   *)
(***************************************************************************)
EXTENDS Helpers

CONSTANTS
    Ids,           \* profiles of the watchers considered
    Binding,       \* the binding of each watcher
    Configs,       \* for each profile, what its watcher and its helper may be configured with
    Hosts,         \* for each profile, what a host of the watcher may start as
    Choices,       \* for each profile, the values each part of its host may take
    EngineSkew,    \* clock lead NQ allows a helper
    Allowance,     \* time between a request and its deadline
    MaxNow,        \* bound: readings of the boot clock
    MaxChanges,    \* bound: changes of the host, for each profile
    MaxExchanges,  \* bound: requests sent, for each profile
    MaxStep        \* how far the wall clock is set back

ASSUME TestimonyAssumption ==
    /\ HelperSkew <= EngineSkew
    /\ \A id \in Ids : ValidateBinding(id, Binding[id]) = "ok"

VARIABLES
    id,        \* the profile of the watcher this behaviour is about
    config,    \* its grant, response bound, policy and the digest of its helper
    host,      \* what the host holds now
    changes,   \* changes of the host so far
    now,       \* boot clock
    lag,       \* how far the wall clock has been set back
    request,   \* the request in flight, or null
    helper,    \* what the helper that serves it is doing
    answer,    \* the frame it wrote, or null
    seen,      \* hosts there have been since the request in flight was sent
    sent,      \* requests sent so far
    refused,   \* why NQ refused the last answer, or "ok"
    reports    \* reports NQ retains

vars == <<id, config, host, changes, now, lag, request, helper, answer, seen, sent, refused, reports>>

ReadNames ==
    {"machine", "mounts", "uuid", "open", "statfs", "mountsAgain", "pressure", "bootClock", "query", "connect", "unit",
     "boot", "bootAgain", "uptime", "load", "hostname", "cpu", "enabled", "file", "response", "record", "row"}
NoReads == [r \in ReadNames |-> null]
\* The time a query of the system manager may take and when it ends, and the date of what
\* the cache-result helper read, are kept from the moment they are found.
Idle == [pc |-> "idle", step |-> 0, got |-> NoReads, failure |-> null,
         budget |-> null, until |-> null, dated |-> null]

wall == now - lag

Init ==
    /\ id \in Ids
    /\ config \in Configs[id]
    /\ host \in Hosts[id]
    /\ changes = 0 /\ now = 1 /\ lag = 0
    /\ request = null /\ helper = Idle /\ answer = null
    /\ seen = {} /\ sent = 0 /\ refused = "ok"
    /\ reports = {}

\* One part of the host changes while anything else may be going on.  A boot is never
\* the same again once it is over.
HostChanges ==
    /\ changes < MaxChanges[id]
    /\ \E part \in DOMAIN Choices[id] : \E v \in Choices[id][part] :
          /\ v # host[part]
          /\ part = "boot" => host.boot = "boot1"
          /\ host' = [host EXCEPT ![part] = v]
          /\ seen' = IF request = null THEN seen ELSE seen \cup {host'}
    /\ changes' = changes + 1
    /\ UNCHANGED <<id, config, now, lag, request, helper, answer, sent, refused, reports>>

TimePasses ==
    /\ now < MaxNow
    /\ now' = now + 1
    /\ UNCHANGED <<id, config, host, changes, lag, request, helper, answer, seen, sent, refused, reports>>

\* The wall clock is set back.  The boot clock is not.
ClockIsSet ==
    /\ lag = 0
    /\ lag' = MaxStep
    /\ UNCHANGED <<id, config, host, changes, now, request, helper, answer, seen, sent, refused, reports>>

-----------------------------------------------------------------------------
\* The response bound is configured; the others are the profile's own limits.
HelperRequest ==
    [id |-> sent, instance |-> "watcher", profile |-> ResolveProfile(id).profile, binding |-> Binding[id],
     granted |-> config.granted, checkpoint |-> null,
     bounds |-> [Hard EXCEPT !.response = config.response, !.observations = ResolveProfile(id).observations,
                             !.coverage = Cardinality(ResolveProfile(id).coverage)],
     deadline |-> now + Allowance]

\* NQ sends a request only under a policy its profile accepts.
Send ==
    /\ request = null
    /\ sent < MaxExchanges[id]
    /\ ValidateThresholdPolicy(HelperRequest, config.policy) = "ok"
    /\ ParseRequest(EncodeNdjson(HelperRequest, 1)) = "ok"
    /\ request' = HelperRequest
    /\ helper' = [Idle EXCEPT !.pc = "asked"]
    /\ answer' = null
    /\ seen' = {host}
    /\ sent' = sent + 1
    /\ UNCHANGED <<id, config, host, changes, now, lag, refused, reports>>

\* A helper answers at most once, and ends.
Answers(outcome) ==
    /\ answer' = LET response == EnsureBounded(request, outcome)
                 IN  IF response = null THEN null ELSE EncodeNdjson(response, ResponseSize(response))
    /\ helper' = [helper EXCEPT !.pc = "done"]
    /\ UNCHANGED <<id, config, host, changes, now, lag, request, seen, sent, refused, reports>>

Handle ==
    /\ helper.pc = "asked"
    /\ LET refusal == RequestRefusal(request, config.digest, now)
       IN  IF refusal # "ok" THEN Answers(RefusalFor(request, refusal))
           ELSE /\ helper' = [helper EXCEPT !.pc = "reading", !.step = 1,
                                             !.budget = IF id \in {"unit2", "unit3"}
                                                        THEN QueryBudget(request, now) ELSE null]
                /\ UNCHANGED <<id, config, host, changes, now, lag, request, answer, seen, sent, refused, reports>>

Reading(r) ==
    /\ helper.pc = "reading"
    /\ helper.step <= Len(Acquisition(request))
    /\ r = Acquisition(request)[helper.step]

\* What a failure leads to: the host helper carries on without the value, the cache helper
\* refuses, and the others end with a failed report of the code.
Fails(r, code) ==
    IF id = "host"
    THEN helper' = [helper EXCEPT !.step = @ + 1]
    ELSE \E retriable \in RetriableFlags(code) :
            helper' = [helper EXCEPT !.pc = "failed", !.failure = Fail(code, retriable)]

\* A read returns what the host holds at that moment, if there is time for it.
Read ==
    \E r \in ReadNames :
      /\ Reading(r)
      /\ IF OutOfTime(request, r, helper, now)
         THEN IF id = "host" THEN helper' = [helper EXCEPT !.pc = "late"]
              ELSE \E code \in TimeoutCodes(id, r) : Fails(r, code)
         ELSE LET got == [helper.got EXCEPT ![r] = Sense(r, host, helper.got)]
                  check == CheckRead(request, r, got)
              IN  IF check # "ok" THEN Fails(r, check)
                  ELSE helper' = [helper EXCEPT !.step = @ + 1, !.got = got,
                                                !.until = IF r = "query" THEN now + helper.budget ELSE @,
                                                !.dated = IF r = "row" THEN wall ELSE @]
      /\ UNCHANGED <<id, config, host, changes, now, lag, request, answer, seen, sent, refused, reports>>

ReadFails ==
    \E r \in ReadNames :
      /\ Reading(r)
      /\ \E code \in ReadFailures(id, r) : Fails(r, code)
      /\ UNCHANGED <<id, config, host, changes, now, lag, request, answer, seen, sent, refused, reports>>

\* Everything is read: the operator-beta, host and cache helpers look at the clock once
\* more, and the report is built, checked and sent.
Build ==
    /\ helper.pc = "reading" /\ helper.step > Len(Acquisition(request))
    /\ IF id \in {"host", "cache"} /\ now >= request.deadline
       THEN Answers(RefusalFor(request, "deadline_expired"))
       ELSE IF id \in BetaProfiles /\ now >= request.deadline
       THEN Answers(ValidateCompiledReport(request, FailedReport(request, wall, Fail("deadline_expired", TRUE)), wall))
       ELSE LET report == BuildReport(request, wall, helper.dated, helper.got)
            IN  Answers(ValidateCompiledReport(request, report, wall))

BuildFailed ==
    /\ helper.pc = "failed"
    /\ IF id = "cache"
       THEN Answers(RefusalFor(request, IF helper.failure.code = "deadline_expired" THEN "deadline_expired"
                                        ELSE "internal_error"))
       ELSE Answers(ValidateCompiledReport(request, FailedReport(request, wall, helper.failure), wall))

HostIsLate ==
    /\ helper.pc = "late"
    /\ Answers(RefusalFor(request, "deadline_expired"))

-----------------------------------------------------------------------------
\* NQ takes one answer, before the deadline, and retains a report that passes every check.
Receive ==
    /\ helper.pc = "done" /\ request # null
    /\ answer # null /\ now <= request.deadline
    /\ LET outcome == answer.doc.outcome
           parsed == ParseResponse(request, answer)
           finding == IF parsed # "ok" THEN parsed
                        ELSE IF outcome.kind = "refusal" THEN "ok"
                        ELSE Validate(request, outcome, wall, EngineSkew)
       IN  /\ refused' = finding
           /\ reports' = IF finding # "ok" \/ outcome.kind = "refusal" THEN reports
                         ELSE reports \cup {[sequence |-> request.id, instance |-> request.instance,
                                             report |-> outcome, window |-> seen,
                                             failure |-> helper.failure]}
    /\ request' = null /\ helper' = Idle /\ answer' = null /\ seen' = {}
    /\ UNCHANGED <<id, config, host, changes, now, lag, sent>>

\* No answer, or one that comes after the deadline: the helper is killed.
Expire ==
    /\ request # null
    /\ now > request.deadline \/ (helper.pc = "done" /\ answer = null)
    /\ request' = null /\ helper' = Idle /\ answer' = null /\ seen' = {}
    /\ UNCHANGED <<id, config, host, changes, now, lag, sent, refused, reports>>

\* A detector changes nothing: it may conclude at any moment from what is retained then.
DetectorInput == [instance |-> "watcher", reports |-> reports, at |-> wall, policy |-> config.policy]

Next ==
    \/ HostChanges \/ TimePasses \/ ClockIsSet
    \/ Send \/ Handle \/ Read \/ ReadFails \/ Build \/ BuildFailed \/ HostIsLate
    \/ Receive \/ Expire

Spec == Init /\ [][Next]_vars

-----------------------------------------------------------------------------
\* What the contract has no value for: counters that contradict each other or exceed what
\* a payload may carry, and a unit whose state has no name.
Representable(h) ==
    CASE id \in {"capacity", "inodes"} ->
            CountersLaw(h.counters["F"]) /\ (h.mount = null \/ h.mount.id <= MaxSafeCounter)
      [] id = "memory" -> h.pressure.some.total <= MaxSafeCounter
      [] id = "unit1" -> h.enabled # "" /\ (h.unit = null \/ "" \notin {h.unit.load, h.unit.active, h.unit.sub})
      [] OTHER -> TRUE

\* Two ends that check the same laws at different times agree.  Whatever the host held, and
\* however it changed between the reads of crates/nq-host-resource-helper/src/lib.rs:1059 and
\* the other observe functions, what a helper builds satisfies the compiled profile it is
\* checked by (an internal refusal is left for a host the contract has no values for, and for
\* the cache helper, which has no other way to fail), and NQ never refuses a frame of a helper
\* (engine.rs:3333) unless the wall clock was set back in between.
HonestTestimonyAdmitted ==
    /\ refused # "ok" => refused = "future_observation" /\ lag > EngineSkew
    /\ answer # null /\ answer.doc.outcome.kind = "refusal" /\ answer.doc.outcome.code = "internal_error"
          => id = "cache" \/ \E h \in seen : ~ Representable(h)

\* What held of the identified resource in one of the hosts of a report's collection.
SystemdState(h) == [load |-> h.unit.load, active |-> h.unit.active, sub |-> h.unit.sub, enabled |-> h.enabled]
HeldDuring(W, o, present) ==
    LET scope == o.report.binding.scope.value
    IN  CASE id = "capacity" ->
                \E h \in W : LET c == h.counters["F"]
                             IN  /\ h.machine = scope.machine
                                 /\ present <=> 100 * (c.total - c.free) >= 90 * (c.total - c.free + c.available)
          [] id = "inodes" ->
                \E h \in W : LET c == h.counters["F"]
                             IN  h.machine = scope.machine /\ (present <=> 10 * c.inodesFree <= c.inodes)
          [] id = "memory" ->
                \E h \in W : h.machine = scope.machine
                             /\ (present <=> h.pressure.some.avg60 >= Threshold["memory"])
          [] id \in {"unit2", "unit3"} ->
                \E h \in W : /\ h.machine = scope.machine /\ h.unit # null /\ h.unit.name = scope.unit
                             /\ present <=> <<h.unit.load, h.unit.active>> # <<"loaded", "active">>
                             /\ id = "unit3" => h.boot = o.report.observations[1].payload.boot
          [] id = "host" ->
                \E h, g \in W : present <=> h.load >= 2 * g.cpu
          [] id = "unit1" ->
                \E h, g \in W : /\ h.machine = scope.machine /\ h.unit # null /\ h.unit.job = 0
                                /\ present <=> [SystemdState(h) EXCEPT !.enabled = g.enabled]
                                               # config.policy.expected
                                /\ \E f \in W : f.file = scope.file
          [] id = "http" ->
                \E h \in W : present <=> [status |-> h.response.status, body |-> h.response.body]
                                         # config.policy.expected
          [] id = "cache" ->
                \E h \in W : h.record.attempt = scope.attempt /\ h.record.observed = "fixed" /\ ~ present

\* A conclusion was true.  The reads of one observation are made one after another while
\* mounts, units, boots, responses and records change under them, and none of them is atomic
\* with the checks of identity around it; yet whenever a detector concludes that a condition
\* is present or absent (for instance host_filesystem.rs:729), there was a moment of the
\* collection at which that was so of the very file system, machine, unit, boot or attempt the
\* watcher is bound to.  Profiles that read a tuple in several calls promise it of each part.
\* And when the newest collection of a resource profile gave up, the detector says so with the
\* code and the retriable flag the helper gave up with (nq-host-resource-helper/src/lib.rs:1236,
\* systemd_unit_v2.rs:631), through the report, both validations and retention.
ConclusionIsTrue ==
    LET v == Evaluate(id, DetectorInput)
        o == NewestOf(DetectorInput)
    IN  IF v.state # "cannot_evaluate" THEN HeldDuring(o.window, o, v.state = "present")
        ELSE id \in ResourceProfiles /\ o # null =>
                (o.failure # null => v.code = o.failure.code /\ v.retriable = o.failure.retriable)
=============================================================================
