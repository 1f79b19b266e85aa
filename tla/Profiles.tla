------------------------------ MODULE Profiles ------------------------------
(***************************************************************************)
(* The compiled evidence profiles: what each one names, and the laws by      *)
(* which NQ admits a report under it.  A helper links the same laws and      *)
(* applies them to what it is about to send.                                 *)
(*                                                                          *)
(* A profile is named by one value for its identity and version: "capacity"  *)
(* and "inodes" are the two filesystem profiles, "unit1" to "unit3" the      *)
(* versions of the systemd unit profile, "cache" the synthetic cache result. *)
(* A digest is the value it is the digest of.                                *)
(*                                                                          *)
(* Source: crates/nq-profiles/src.                                           *)
(***************************************************************************)
EXTENDS Wire

CONSTANTS
    MaxSafeCounter,    \* greatest counter a payload may carry
    MaxAverage,        \* one hundred percent of a pressure average
    Fold,              \* the ext4 file system identifier of each UUID
    Reliance,          \* how long testimony is relied on, for each profile
    Threshold          \* for each profile with a numeric condition, its threshold per mille

Local == [kind |-> "local", value |-> <<>>]

\* Identity, vocabulary and limits of a profile.  The digest covers all of them.
ProfileDescriptor(id, caps, access, coverage, scope, vantage, kind) ==
    [profile |-> [id |-> id, digest |-> id], caps |-> caps, access |-> access, coverage |-> coverage,
     scope |-> scope, vantage |-> vantage, kind |-> kind, observations |-> 1]

HostDescriptor ==
    ProfileDescriptor("host", {"read_procfs", "read_system_info"}, {"procfs", "sysinfo", "procfs_sysinfo"},
                      {"host_identity", "uptime", "load"}, "host", "local", "host_snapshot")
FilesystemDescriptor(id) ==
    ProfileDescriptor(id, {"read_machine_identity", "read_mount_table", "read_filesystem_statistics"},
                      {"mountinfo_statfs"}, {"filesystem_statistics"}, "host_filesystem", "local", "filesystem_snapshot")
MemoryDescriptor ==
    ProfileDescriptor("memory", {"read_machine_identity", "read_procfs"}, {"procfs_pressure"},
                      {"memory_pressure_stall"}, "host_memory", "local", "memory_pressure_snapshot")
UnitV2Descriptor ==
    ProfileDescriptor("unit2", {"read_systemd_unit"}, {"systemd_dbus"}, {"systemd_unit_state"},
                      "systemd_unit", "local", "systemd_unit_state_snapshot")
UnitV3Descriptor == [UnitV2Descriptor EXCEPT !.profile = [id |-> "unit3", digest |-> "unit3"]]
UnitV1Descriptor ==
    ProfileDescriptor("unit1", {"read_systemd_unit"}, {"systemd_dbus"}, {"systemd_unit_state"},
                      "systemd_unit", "target_local", "systemd_unit_snapshot")
HttpDescriptor ==
    ProfileDescriptor("http", {"read_http_endpoint"}, {"http_tcp"}, {"http_endpoint_response"},
                      "http_endpoint", "controller_http", "http_response")
CacheDescriptor ==
    ProfileDescriptor("cache", {"read_settled_cache_result"}, {"docket_sqlite_and_executor_record"},
                      {"synthetic_cache_result"}, "synthetic_cache_executor_attempt",
                      "retained_docket_state", "settled_executor_result")

\* The registry resolves an exact identity and version, and nothing else.
ResolveProfile(id) ==
    CASE id = "host" -> HostDescriptor
      [] id \in {"capacity", "inodes"} -> FilesystemDescriptor(id)
      [] id = "memory" -> MemoryDescriptor
      [] id = "unit1" -> UnitV1Descriptor
      [] id = "unit2" -> UnitV2Descriptor
      [] id = "unit3" -> UnitV3Descriptor
      [] id = "http" -> HttpDescriptor
      [] id = "cache" -> CacheDescriptor

-----------------------------------------------------------------------------
(* What every profile demands of a report.                                   *)

ValidateProfileBinding(d, q, r) ==
    FirstBroken(<<
        <<r.profile = d.profile, "unknown_profile">>,
        <<r.used \subseteq d.caps /\ r.used \subseteq q.granted, "capability_escape">> >>)

\* Every term of the vocabulary is declared once, about the subject of the request.
ValidateCoverage(d, q, r) ==
    FirstBroken(<<
        <<\A c \in ranOf(r.coverage) : c.kind \in d.coverage, "unknown_coverage">>,
        <<\A c \in ranOf(r.coverage) : c.subject \in {null, q.binding.subject}, "subject_escape">>,
        <<Cardinality({c.kind : c \in ranOf(r.coverage)}) = Len(r.coverage), "duplicate_coverage">>,
        <<\A k \in d.coverage : \E c \in ranOf(r.coverage) : c.kind = k, "missing_coverage">> >>)

\* A status may claim no more than the coverage and the errors allow.
ValidateStatus(r) ==
    LET states == {c.state : c \in ranOf(r.coverage)}
    IN  CASE r.status = "complete" -> states \subseteq {"complete"} /\ Failures(r) = <<>>
          [] r.status = "partial" -> /\ ~ states \subseteq {"complete"}
                                     /\ ~ states \subseteq {"unavailable"}
                                     /\ r.errors # <<>>
          [] r.status = "failed" -> /\ states \subseteq {"unavailable"}
                                    /\ r.observations = <<>>
                                    /\ Failures(r) # <<>>

ValidateObservation(d, q, o, i, received, skew) ==
    FirstBroken(<<
        <<o.ordinal = i - 1, "invalid_ordinal">>,
        <<o.kind = d.kind, "unknown_observation_kind">>,
        <<o.subject = q.binding.subject, "subject_escape">>,
        <<o.size <= Hard.payload, "payload_limit_exceeded">>,
        <<o.at <= received + skew, "future_observation">> >>)

ValidateObservations(d, q, r, received, skew) ==
    IF Len(r.observations) > d.observations \/ Len(r.observations) > q.bounds.observations
    THEN "observation_limit_exceeded"
    ELSE FirstBroken([i \in DOMAIN r.observations |->
            LET v == ValidateObservation(d, q, r.observations[i], i, received, skew) IN <<v = "ok", v>>])

ValidateCommon(d, q, r, received, skew) ==
    FirstBroken([i \in 1..4 |->
        LET v == CASE i = 1 -> ValidateProfileBinding(d, q, r)
                   [] i = 2 -> ValidateCoverage(d, q, r)
                   [] i = 3 -> IF ValidateStatus(r) THEN "ok" ELSE "report_status_overclaim"
                   [] i = 4 -> ValidateObservations(d, q, r, received, skew)
        IN  <<v = "ok", v>>])

\* The envelope each payload carries: whose scope, from where, by which path and right.
EvidenceBasis(q, access, caps) ==
    [scope |-> q.binding.scope, vantage |-> q.binding.vantage, access |-> access, caps |-> caps]

ValidateBasis(d, q, b) ==
    FirstBroken(<<
        <<b.scope = q.binding.scope /\ b.scope.kind = d.scope, "scope_escape">>,
        <<b.vantage = q.binding.vantage /\ b.vantage.kind = d.vantage, "vantage_escape">>,
        <<b.access \in d.access, "unknown_access_path">>,
        <<b.caps \subseteq d.caps /\ b.caps \subseteq q.granted, "capability_escape">> >>)

\* What the modules with one snapshot each check of it before its own laws.
SnapshotLaws(d, q, r) ==
    IF Len(r.observations) # 1 THEN "inconsistent_report"
    ELSE LET o == r.observations[1]
             basis == ValidateBasis(d, q, o.payload.basis)
         IN  FirstBroken(<<
                <<basis = "ok", basis>>,
                <<o.payload.basis.caps = r.used, "inconsistent_report">>,
                <<o.at = r.observed, "inconsistent_report">> >>)

CoverageOf(r, kind) == (CHOOSE c \in ranOf(r.coverage) : c.kind = kind).state

\* The order every module keeps: binding, common laws, and its own laws of what a report
\* that did not fail observed.
Admit(binding, common, r, own) ==
    CASE binding # "ok" -> binding
      [] binding = "ok" /\ common # "ok" -> common
      [] binding = "ok" /\ common = "ok" -> IF r.status = "failed" THEN "ok" ELSE own
=============================================================================
