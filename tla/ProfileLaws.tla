---------------------------- MODULE ProfileLaws ----------------------------
(***************************************************************************)
(* The laws of each compiled profile: the binding it accepts, the payload    *)
(* its observation carries, and how both must agree.                         *)
(*                                                                          *)
(* Source: the profile modules of crates/nq-profiles/src.                    *)
(***************************************************************************)
EXTENDS Profiles

LoadStates == {"stub", "loaded", "not-found", "bad-setting", "error", "merged", "masked"}
ActiveStates ==
    {"active", "reloading", "inactive", "failed", "activating", "deactivating", "maintenance"}
BootIds == {"boot1", "boot2"}

\* Terms common to the bindings: the scope names the subject, seen from the machine itself.
BindingLaw(b, scope, subject, vantage) ==
    FirstBroken(<<
        <<b.scope.kind = scope, "scope_escape">>,
        <<b.subject = subject, "scope_escape">>,
        <<b.vantage = vantage, "vantage_escape">> >>)

-----------------------------------------------------------------------------
(* nq.host                                                                   *)

HostBinding(b) == BindingLaw(b, "host", <<"host", b.scope.value.id>>, Local)

\* The access path names exactly the capabilities that were used.
HostAccess(caps) ==
    CASE caps = {"read_procfs"} -> "procfs"
      [] caps = {"read_system_info"} -> "sysinfo"
      [] caps = {"read_procfs", "read_system_info"} -> "procfs_sysinfo"
      [] caps = {} -> "none"

Reported(x, fields) == Cardinality({f \in fields : x[f] # null})

HostPayloadLaw(r) ==
    LET x == r.observations[1].payload
        load == CoverageOf(r, "load")
        known == Reported(x, {"cpu", "load"})
    IN  FirstBroken(<<
            <<x.basis.access = HostAccess(x.basis.caps), "capability_escape">>,
            <<x.cpu = null \/ x.cpu > 0, "invalid_payload">>,
            <<x.load = null \/ x.load >= 0, "invalid_payload">>,
            <<(CoverageOf(r, "host_identity") \in {"complete", "partial"}) <=> x.hostname # null,
              "inconsistent_report">>,
            <<(CoverageOf(r, "uptime") \in {"complete", "partial"}) <=> x.uptime # null,
              "inconsistent_report">>,
            <<\/ load = "complete" /\ known = 2
              \/ load = "partial" /\ known \in {1, 2}
              \/ load = "unavailable" /\ known = 0, "inconsistent_report">> >>)

HostValidate(q, r, received, skew) ==
    LET snapshot == SnapshotLaws(HostDescriptor, q, r)
    IN  Admit(HostBinding(q.binding), ValidateCommon(HostDescriptor, q, r, received, skew), r,
              IF snapshot # "ok" THEN snapshot ELSE HostPayloadLaw(r))

-----------------------------------------------------------------------------
(* nq.host_filesystem_capacity and nq.host_filesystem_inodes                 *)

FilesystemBinding(b) ==
    FirstBroken(<<
        <<BindingLaw(b, "host_filesystem", <<"host-filesystem", b.scope.value.machine, b.scope.value.uuid>>,
                     Local) = "ok", "scope_escape">>,
        <<b.scope.value.type = "ext4", "scope_escape">> >>)

\* The counters of one statfs call agree with each other.
CountersLaw(x) ==
    /\ \A f \in {"fragment", "total", "free", "available", "inodes", "inodesFree"} : x[f] \in 0..MaxSafeCounter
    /\ x.fragment > 0
    /\ x.available <= x.free /\ x.free <= x.total
    /\ x.inodesFree <= x.inodes

FilesystemPayloadLaw(scope, x) ==
    FirstBroken(<<
        <<x.machine = scope.machine /\ x.uuid = scope.uuid /\ x.type = scope.type
          /\ x.mountpoint = scope.mountpoint, "invalid_payload">>,
        <<x.fsid = Fold[scope.uuid], "invalid_payload">>,
        <<x.mountId <= MaxSafeCounter /\ CountersLaw(x), "invalid_payload">> >>)

FilesystemValidate(q, r, received, skew) ==
    LET d == FilesystemDescriptor(q.profile.id)
        snapshot == SnapshotLaws(d, q, r)
    IN  Admit(FilesystemBinding(q.binding), ValidateCommon(d, q, r, received, skew), r,
              IF snapshot # "ok" THEN snapshot
              ELSE FirstBroken(<<
                    <<r.used = d.caps, "capability_escape">>,
                    <<FilesystemPayloadLaw(q.binding.scope.value, r.observations[1].payload) = "ok",
                      "invalid_payload">>,
                    <<CoverageOf(r, "filesystem_statistics") = "complete", "inconsistent_report">> >>))

-----------------------------------------------------------------------------
(* nq.host_memory                                                            *)

MemoryBinding(b) == BindingLaw(b, "host_memory", <<"host", b.scope.value.machine>>, Local)

\* Averages are shares, totals are exact, and what stalls every task stalls some task.
MemoryPayloadLaw(scope, x) ==
    FirstBroken(<<
        <<x.machine = scope.machine, "invalid_payload">>,
        <<\A k \in {"avg10", "avg60", "avg300"} : x.some[k] <= MaxAverage /\ x.full[k] <= MaxAverage,
          "invalid_payload">>,
        <<x.some.total <= MaxSafeCounter /\ x.full.total <= MaxSafeCounter
          /\ x.bootAge <= MaxSafeCounter, "invalid_payload">>,
        <<\A k \in DOMAIN x.some : x.full[k] <= x.some[k], "invalid_payload">> >>)

MemoryValidate(q, r, received, skew) ==
    LET snapshot == SnapshotLaws(MemoryDescriptor, q, r)
    IN  Admit(MemoryBinding(q.binding), ValidateCommon(MemoryDescriptor, q, r, received, skew), r,
              IF snapshot # "ok" THEN snapshot
              ELSE FirstBroken(<<
                    <<r.used = MemoryDescriptor.caps, "capability_escape">>,
                    <<MemoryPayloadLaw(q.binding.scope.value, r.observations[1].payload) = "ok",
                      "invalid_payload">>,
                    <<CoverageOf(r, "memory_pressure_stall") = "complete", "inconsistent_report">> >>))

-----------------------------------------------------------------------------
(* nq.systemd_unit, versions 2 and 3                                         *)

UnitV2Binding(b) ==
    BindingLaw(b, "systemd_unit", <<"systemd-unit", b.scope.value.machine, b.scope.value.unit>>, Local)

UnitPayloadLaw(scope, x) ==
    FirstBroken(<<
        <<x.machine = scope.machine /\ x.unit = scope.unit, "invalid_payload">>,
        <<x.load \in LoadStates /\ x.active \in ActiveStates, "invalid_payload">> >>)

UnitV2Validate(q, r, received, skew) ==
    LET snapshot == SnapshotLaws(UnitV2Descriptor, q, r)
    IN  Admit(UnitV2Binding(q.binding), ValidateCommon(UnitV2Descriptor, q, r, received, skew), r,
              IF snapshot # "ok" THEN snapshot
              ELSE FirstBroken(<<
                    <<r.used = UnitV2Descriptor.caps, "capability_escape">>,
                    <<UnitPayloadLaw(q.binding.scope.value, r.observations[1].payload) = "ok",
                      "invalid_payload">>,
                    <<CoverageOf(r, "systemd_unit_state") = "complete", "inconsistent_report">> >>))

\* Version 3 adds the boot the state was read in; each refusal of its own is of the payload.
UnitV3Validate(q, r, received, skew) ==
    LET snapshot == SnapshotLaws(UnitV3Descriptor, q, r)
        x == r.observations[1].payload
    IN  Admit(UnitV2Binding(q.binding), ValidateCommon(UnitV3Descriptor, q, r, received, skew), r,
              IF \/ Len(r.observations) # 1
                 \/ x.boot \notin BootIds
                 \/ snapshot # "ok"
                 \/ r.used # UnitV3Descriptor.caps
                 \/ CoverageOf(r, "systemd_unit_state") # "complete"
                 \/ UnitPayloadLaw(q.binding.scope.value, x) # "ok"
              THEN "invalid_payload" ELSE "ok")

-----------------------------------------------------------------------------
(* nq.systemd_unit version 1 and nq.http_endpoint: the operator-beta profiles.  *)
(* Their subject is the digest of a service subject, their condition a tuple    *)
(* that an external policy expects.                                             *)

\* The digest of a service subject stands for the subject itself.
SubjectIdentity(s) == <<"sha256", s>>
WellFormedSubject(s) == s.run # null

UnitV1Binding(b) ==
    FirstBroken(<<
        <<b.subject[1] = "sha256", "subject_escape">>,
        <<b.scope.kind = "systemd_unit", "scope_escape">>,
        <<b.scope.value.subject = b.subject, "scope_escape">>,
        <<b.vantage = [kind |-> "target_local", value |-> <<>>], "vantage_escape">> >>)

\* A complete report has its one observation; a partial one may lack it.
BetaCardinality(r, kind) ==
    \/ r.status = "complete" /\ CoverageOf(r, kind) = "complete" /\ Len(r.observations) = 1
    \/ r.status = "partial" /\ CoverageOf(r, kind) = "partial" /\ Len(r.observations) \in {0, 1}

UnitV1PayloadLaw(scope, x) ==
    FirstBroken(<<
        <<x.machine = scope.machine /\ x.unit = scope.unit /\ x.file = scope.file, "inconsistent_report">>,
        <<\A f \in {"load", "active", "sub", "enabled"} : x[f] # "", "invalid_payload">> >>)

UnitV1Validate(q, r, received, skew) ==
    LET snapshot == SnapshotLaws(UnitV1Descriptor, q, r)
    IN  Admit(UnitV1Binding(q.binding), ValidateCommon(UnitV1Descriptor, q, r, received, skew), r,
              CASE ~ BetaCardinality(r, "systemd_unit_state") -> "inconsistent_report"
                [] OTHER -> IF r.observations = <<>> THEN "ok"
                            ELSE IF snapshot # "ok" THEN snapshot
                            ELSE UnitV1PayloadLaw(q.binding.scope.value, r.observations[1].payload))

\* The controller that observes is named twice, in the scope and in the vantage.
HttpBinding(b) ==
    FirstBroken(<<
        <<b.subject[1] = "sha256", "subject_escape">>,
        <<b.scope.kind = "http_endpoint", "scope_escape">>,
        <<b.scope.value.subject = b.subject /\ b.scope.value.maxBody > 0, "scope_escape">>,
        <<b.vantage = [kind |-> "controller_http", value |-> b.scope.value.controller], "vantage_escape">> >>)

HttpPayloadLaw(scope, x) ==
    IF x.controller = scope.controller /\ x.endpoint = scope.endpoint /\ x.bytes <= scope.maxBody
    THEN "ok" ELSE "inconsistent_report"

HttpValidate(q, r, received, skew) ==
    LET snapshot == SnapshotLaws(HttpDescriptor, q, r)
    IN  Admit(HttpBinding(q.binding), ValidateCommon(HttpDescriptor, q, r, received, skew), r,
              CASE ~ BetaCardinality(r, "http_endpoint_response") -> "inconsistent_report"
                [] OTHER -> IF r.observations = <<>> THEN "ok"
                            ELSE IF snapshot # "ok" THEN snapshot
                            ELSE HttpPayloadLaw(q.binding.scope.value, r.observations[1].payload))

\* The identity of a request's scope: its subject, scope and profile together.
ScopeIdentity(profile, b) == <<"scope", profile, b.subject, b.scope>>

\* A policy is admitted for one binding: its own digest, its version and every identity in
\* it must be those of the binding.
PolicyLaw(q, policy) ==
    FirstBroken(<<
        <<policy.verified, "digest">>,
        <<policy.closed, "shape">>,
        <<WellFormedSubject(policy.service), "service_subject">>,
        <<policy.version = policy.run /\ policy.service.run = policy.run, "identity">>,
        <<SubjectIdentity(policy.service) = q.binding.subject /\ policy.subject = q.binding.subject,
          "subject">>,
        <<policy.scope = ScopeIdentity(q.profile, q.binding), "scope">> >>)

UnitV1Policy(q, policy) ==
    FirstBroken(<<
        <<UnitV1Binding(q.binding) = "ok", "binding">>,
        <<PolicyLaw(q, policy) = "ok", "policy">>,
        <<policy.service.machine = q.binding.scope.value.machine
          /\ policy.service.unit = q.binding.scope.value.unit
          /\ policy.service.file = q.binding.scope.value.file, "policy">>,
        <<\A f \in DOMAIN policy.expected : policy.expected[f] # "", "policy">> >>)

HttpPolicy(q, policy) ==
    FirstBroken(<<
        <<HttpBinding(q.binding) = "ok", "binding">>,
        <<PolicyLaw(q, policy) = "ok", "policy">> >>)

\* The other profiles take no policy.
ValidateThresholdPolicy(q, policy) ==
    CASE q.profile.id = "unit1" -> IF policy = null THEN "policy" ELSE UnitV1Policy(q, policy)
      [] q.profile.id = "http" -> IF policy = null THEN "policy" ELSE HttpPolicy(q, policy)
      [] OTHER -> IF policy = null THEN "ok" ELSE "policy"

-----------------------------------------------------------------------------
(* nq.synthetic_cache_executor_result                                        *)

CacheBinding(b) ==
    IF /\ b.scope.kind = "synthetic_cache_executor_attempt"
       /\ b.subject = b.scope.value.subject
       /\ b.vantage = [kind |-> "retained_docket_state", value |-> <<>>]
    THEN "ok" ELSE "scope_escape"

\* The one result the profile can report: success with the fixed observations.
FixedResult(x) == x.outcome = "success" /\ x.observed = "fixed"

CacheValidate(q, r, received, skew) ==
    LET snapshot == SnapshotLaws(CacheDescriptor, q, r)
        coverage == CoverageOf(r, "synthetic_cache_result")
        scope == q.binding.scope.value
        x == r.observations[1].payload
    IN  Admit(CacheBinding(q.binding), ValidateCommon(CacheDescriptor, q, r, received, skew), r,
              CASE coverage = "unavailable" /\ r.observations = <<>> -> "ok"
                [] coverage = "complete" /\ Len(r.observations) = 1 ->
                     IF snapshot # "ok" THEN snapshot
                     ELSE FirstBroken(<<
                            <<x.attempt = scope.attempt /\ x.subject = scope.subject
                              /\ x.plan = scope.plan, "inconsistent_report">>,
                            <<FixedResult(x), "inconsistent_report">> >>)
                [] OTHER -> "inconsistent_report")

-----------------------------------------------------------------------------
ValidateBinding(id, b) ==
    CASE id = "host" -> HostBinding(b)
      [] id \in {"capacity", "inodes"} -> FilesystemBinding(b)
      [] id = "memory" -> MemoryBinding(b)
      [] id \in {"unit2", "unit3"} -> UnitV2Binding(b)
      [] id = "unit1" -> UnitV1Binding(b)
      [] id = "http" -> HttpBinding(b)
      [] id = "cache" -> CacheBinding(b)

\* NQ and the helpers apply the module of the request's own profile.
Validate(q, r, received, skew) ==
    CASE q.profile.id = "host" -> HostValidate(q, r, received, skew)
      [] q.profile.id \in {"capacity", "inodes"} -> FilesystemValidate(q, r, received, skew)
      [] q.profile.id = "memory" -> MemoryValidate(q, r, received, skew)
      [] q.profile.id = "unit2" -> UnitV2Validate(q, r, received, skew)
      [] q.profile.id = "unit3" -> UnitV3Validate(q, r, received, skew)
      [] q.profile.id = "unit1" -> UnitV1Validate(q, r, received, skew)
      [] q.profile.id = "http" -> HttpValidate(q, r, received, skew)
      [] q.profile.id = "cache" -> CacheValidate(q, r, received, skew)
=============================================================================
