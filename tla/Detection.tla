----------------------------- MODULE Detection -----------------------------
(***************************************************************************)
(* The compiled detectors: what NQ concludes, at some later time, from the    *)
(* reports it retains for one watcher instance.                              *)
(*                                                                          *)
(* A detector looks at the newest report of its own instance and at no       *)
(* other: an older complete report never stands in for a newer failed one.   *)
(*                                                                          *)
(* Source: crates/nq-profiles/src/detector.rs and the evaluate functions of   *)
(* the profile modules.                                                      *)
(***************************************************************************)
EXTENDS ProfileLaws

CONSTANTS
    MinimumBootAge     \* boot age before which pressure averages are still warming up

\* The closed failure codes a detector may repeat from a failed report.
FilesystemFailureCodes ==
    {"machine_identity_unavailable", "machine_identity_mismatch", "mount_table_unavailable",
     "not_a_mountpoint", "unsupported_filesystem_type", "mount_root_not_filesystem_root",
     "filesystem_identity_unavailable", "filesystem_identity_mismatch", "filesystem_inaccessible",
     "mount_identity_unavailable", "mount_changed_during_observation", "stat_failed", "statfs_failed"}
MemoryFailureCodes ==
    {"machine_identity_unavailable", "machine_identity_mismatch", "psi_not_provided", "psi_read_failed",
     "psi_malformed", "boot_clock_unavailable"}
UnitV2FailureCodes ==
    {"system_bus_unavailable", "manager_unavailable", "query_timeout", "query_failed",
     "reply_malformed", "machine_identity_mismatch", "unit_list_cardinality",
     "unit_name_not_canonical", "unit_state_unrecognized"}
UnitV3FailureCodes ==
    UnitV2FailureCodes \cup {"boot_identity_unavailable", "boot_identity_malformed", "boot_identity_changed"}

CannotEvaluate(reason) == [state |-> "cannot_evaluate", reason |-> reason, code |-> null, retriable |-> null]
Conclude(present) ==
    [state |-> IF present THEN "present" ELSE "explicitly_absent", reason |-> null, code |-> null,
     retriable |-> null]

\* The newest retained report of the instance, by its sequence number.
NewestOf(in) ==
    LET own == {o \in in.reports : o.instance = in.instance}
    IN  IF own = {} THEN null
        ELSE CHOOSE o \in own : \A n \in own : n.sequence <= o.sequence

\* Exactly one error, of a code the profile owns, is repeated with its retriable flag.
FailureDetails(r, codes) ==
    IF Len(Failures(r)) = 1 /\ Failures(r)[1].code \in codes
    THEN [code |-> Failures(r)[1].code, retriable |-> Failures(r)[1].retriable]
    ELSE [code |-> null, retriable |-> null]

\* Age by the wall clock, which may have been set back since the report.
Fresh(in, observed, id) == in.at - observed \in 0..Reliance[id]

\* Whether the newest report can be relied on now: "ok", or why the detector cannot evaluate.
CurrentReport(in, d, coverage, codes) ==
    LET o == NewestOf(in)
        r == o.report
    IN  CASE o = null -> CannotEvaluate("missing_testimony")
          [] o # null /\ r.profile # d.profile -> CannotEvaluate("profile_contract_mismatch")
          [] o # null /\ r.profile = d.profile ->
               IF r.status # "complete" \/ CoverageOf(r, coverage) # "complete"
               THEN [CannotEvaluate("incomplete_coverage") EXCEPT
                        !.code = FailureDetails(r, codes).code,
                        !.retriable = FailureDetails(r, codes).retriable]
               ELSE IF Fresh(in, r.observed, d.profile.id) THEN [state |-> "ok"]
               ELSE CannotEvaluate("invalid_freshness")

HostNewest(in) == CurrentReport(in, HostDescriptor, "load", {})
FilesystemNewest(in, id) ==
    CurrentReport(in, FilesystemDescriptor(id), "filesystem_statistics", FilesystemFailureCodes)
MemoryNewest(in) == CurrentReport(in, MemoryDescriptor, "memory_pressure_stall", MemoryFailureCodes)
\* Version 3 evaluates through version 2's function, which takes its descriptor and codes.
UnitNewest(in, d) ==
    CurrentReport(in, d, "systemd_unit_state",
                  IF d.profile.id = "unit3" THEN UnitV3FailureCodes ELSE UnitV2FailureCodes)

Payload(in) == NewestOf(in).report.observations[1].payload

\* A detector's conclusion counts only for current testimony with an observation.
Evaluated(current, in, conclusion) ==
    IF current.state # "ok" THEN current
    ELSE IF NewestOf(in).report.observations = <<>> THEN CannotEvaluate("missing_observation")
    ELSE conclusion

-----------------------------------------------------------------------------
\* Load per processor, in thousandths.
HostEvaluate(in) ==
    LET x == Payload(in)
    IN  Evaluated(HostNewest(in), in,
                  IF x.load = null \/ x.cpu = null THEN CannotEvaluate("incomplete_load_fields")
                  ELSE Conclude(1000 * x.load >= Threshold["host"] * x.cpu))

\* The share of what unprivileged users could ever use; a file system without blocks has none.
CapacityState(x) ==
    LET used == x.total - x.free
        usable == used + x.available
    IN  IF usable = 0 THEN CannotEvaluate("zero_capacity_reported")
        ELSE Conclude(1000 * used >= Threshold["capacity"] * usable)

\* A file system that counts no inodes reports no pressure on them.
InodesState(x) ==
    IF x.inodes = 0 THEN CannotEvaluate("inode_accounting_not_reported")
    ELSE Conclude(1000 * (x.inodes - x.inodesFree) >= Threshold["inodes"] * x.inodes)

FilesystemEvaluate(in, id) ==
    Evaluated(FilesystemNewest(in, id), in,
              IF id = "capacity" THEN CapacityState(Payload(in)) ELSE InodesState(Payload(in)))

MemoryEvaluate(in) ==
    LET x == Payload(in)
    IN  Evaluated(MemoryNewest(in), in,
                  IF x.bootAge < MinimumBootAge THEN CannotEvaluate("psi_average_warming_up")
                  ELSE Conclude(x.some.avg60 >= Threshold["memory"]))

\* The condition is that the required unit is not active.
UnitEvaluate(in, d) ==
    LET x == Payload(in)
    IN  Evaluated(UnitNewest(in, d), in,
                  IF d.profile.id = "unit3" /\ x.boot \notin BootIds THEN CannotEvaluate("projection_failure")
                  ELSE Conclude(~ (x.load = "loaded" /\ x.active = "active")))

-----------------------------------------------------------------------------
\* The operator-beta detectors check the policy first, then the testimony, then that the
\* policy is about this testimony.
BetaCurrent(in, d, coverage) ==
    LET o == NewestOf(in)
    IN  /\ o # null
        /\ o.report.profile = d.profile
        /\ o.report.status = "complete" /\ CoverageOf(o.report, coverage) = "complete"
        /\ Fresh(in, o.report.observed, d.profile.id)

PolicyRefusal(policy) ==
    CASE policy = null -> "missing_threshold_policy"
      [] policy # null -> FirstBroken(<<
            <<policy.verified, "policy_digest_mismatch">>,
            <<policy.closed, "invalid_threshold_policy">>,
            <<policy.version = policy.run, "threshold_policy_identity_mismatch">> >>)

PolicyBinds(policy, d, o, bound) ==
    FirstBroken(<<
        <<WellFormedSubject(policy.service), "service_subject_invalid">>,
        <<policy.service.run = policy.run /\ SubjectIdentity(policy.service) = o.subject /\ bound,
          "service_subject_identity_mismatch">>,
        <<policy.subject = o.subject
          /\ policy.scope = ScopeIdentity(d.profile, [subject |-> o.subject, scope |-> o.payload.basis.scope]),
          "policy_binding_mismatch">> >>)

\* Any field the policy pins that the testimony has otherwise is the condition.
BetaConclude(policy, o) == Conclude(\E f \in DOMAIN policy.expected : o.payload[f] # policy.expected[f])

BetaEvaluate(in, d, coverage, bound) ==
    LET policy == PolicyRefusal(in.policy)
        o == NewestOf(in).report.observations[1]
        binds == PolicyBinds(in.policy, d, o, bound)
    IN  IF policy # "ok" THEN CannotEvaluate(policy)
        ELSE IF ~ BetaCurrent(in, d, coverage) THEN CannotEvaluate("missing_or_stale_testimony")
        ELSE IF NewestOf(in).report.observations = <<>> THEN CannotEvaluate("inconsistent_observation")
        ELSE IF binds # "ok" THEN CannotEvaluate(binds)
        ELSE BetaConclude(in.policy, o)

UnitV1Evaluate(in) ==
    LET s == in.policy.service
        x == Payload(in)
    IN  BetaEvaluate(in, UnitV1Descriptor, "systemd_unit_state",
                     s.machine = x.machine /\ s.unit = x.unit /\ s.file = x.file)
HttpEvaluate(in) == BetaEvaluate(in, HttpDescriptor, "http_endpoint_response", TRUE)

\* Freshness is that of the executor's own observation, not of the read of its record.
CacheEvaluate(in) ==
    LET o == NewestOf(in)
    IN  IF o = null THEN CannotEvaluate("missing_testimony")
        ELSE IF o.report.observations = <<>> THEN CannotEvaluate("missing_observation")
        ELSE IF \/ o.report.profile # CacheDescriptor.profile
                \/ o.report.status # "complete"
                \/ CoverageOf(o.report, "synthetic_cache_result") # "complete"
                \/ ~ Fresh(in, o.report.observations[1].payload.executedAt, "cache")
             THEN CannotEvaluate("missing_or_stale_testimony")
        ELSE Conclude(FALSE)

Evaluate(id, in) ==
    CASE id = "host" -> HostEvaluate(in)
      [] id \in {"capacity", "inodes"} -> FilesystemEvaluate(in, id)
      [] id = "memory" -> MemoryEvaluate(in)
      [] id = "unit2" -> UnitEvaluate(in, UnitV2Descriptor)
      [] id = "unit3" -> UnitEvaluate(in, UnitV3Descriptor)
      [] id = "unit1" -> UnitV1Evaluate(in)
      [] id = "http" -> HttpEvaluate(in)
      [] id = "cache" -> CacheEvaluate(in)
=============================================================================
