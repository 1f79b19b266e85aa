------------------------------ MODULE Helpers ------------------------------
(***************************************************************************)
(* The helper programs: what each refuses to do, the reads it makes of its    *)
(* host one after another, the check it makes of each, and the response it    *)
(* builds.  Between two reads the host may change.                            *)
(*                                                                          *)
(* What a host holds is a record: what a read would return at that moment.    *)
(*                                                                          *)
(* Source: crates/nq-host-resource-helper, nq-host-helper,                    *)
(* nq-operator-beta-helper and nq-synthetic-cache-result-helper.              *)
(***************************************************************************)
EXTENDS Detection

CONSTANTS
    HelperSkew,      \* clock lead a helper allows itself when it checks its own report
    ReportMargin,    \* time a helper keeps back from a query of the system manager
    MinPayload,      \* least payload bound the resource and operator-beta helpers accept
    MinBetaResponse, \* least response bound the operator-beta helper accepts
    MaxCollectionErrors,
    FilesystemUuid,  \* the UUID of each file system
    FilesystemType,
    FilesystemDevice \* device numbers, which are reused

ResourceProfiles == {"capacity", "inodes", "memory", "unit2", "unit3"}
BetaProfiles == {"unit1", "http"}

PayloadSize == 2

Fail(code, retriable) == [code |-> code, retriable |-> retriable]

\* Responses whose headers are refused: too long, or not of the strict form with a final
\* status and exactly one length.
HeaderRefusals ==
    {"http_header_bound", "http_header_encoding", "http_status_invalid", "http_interim_or_invalid",
     "http_header_folding", "http_header_invalid", "http_header_name", "http_header_value",
     "http_transfer_encoding", "http_content_length_duplicate", "http_content_length_invalid",
     "http_content_length_missing"}

\* Replies of the system manager that do not decode, and unit files that are not read.
UnitRefusals ==
    {"systemd_machine_identity_malformed", "systemd_unit_list_malformed", "systemd_unit_file_list_malformed",
     "systemd_unit_file_path_invalid", "systemd_unit_file_bound"}

\* Failures that a later attempt cannot get past by itself; two codes are used both ways.
RetriableFlags(code) ==
    CASE code \in {"mount_identity_unavailable", "psi_read_failed"} -> BOOLEAN
      [] code \in {"machine_identity_mismatch", "not_a_mountpoint", "unsupported_filesystem_type",
                   "mount_root_not_filesystem_root", "filesystem_identity_mismatch",
                   "filesystem_inaccessible", "psi_not_provided", "psi_malformed", "reply_malformed",
                   "unit_list_cardinality", "unit_name_not_canonical", "unit_state_unrecognized",
                   "boot_identity_malformed", "systemd_machine_identity_mismatch",
                   "systemd_unit_cardinality", "systemd_unit_identity_mismatch",
                   "systemd_unit_file_digest_mismatch", "http_body_bound", "http_body_length"}
                  \cup HeaderRefusals \cup UnitRefusals -> {FALSE}
      [] OTHER -> {TRUE}

-----------------------------------------------------------------------------
(* Requests a helper refuses before it reads anything.  The order is each     *)
(* helper's own; `digest` is the profile digest it was compiled with.         *)

\* A binding is refused for its vantage or for its scope.
BindingRefusal(q) ==
    IF ValidateBinding(q.profile.id, q.binding) = "vantage_escape" THEN "unsupported_vantage" ELSE "unsupported_scope"

ResourceRefusal(q, digest, now) ==
    FirstBroken(<<
        <<q.profile.id \in ResourceProfiles, "unknown_profile">>,
        <<q.profile.digest = digest, "profile_digest_mismatch">>,
        <<q.checkpoint = null, "checkpoint_invalid">>,
        <<q.granted = ResolveProfile(q.profile.id).caps, "capability_denied">>,
        <<q.bounds.observations >= 1 /\ q.bounds.coverage >= 1 /\ q.bounds.errors >= 1
          /\ q.bounds.payload >= MinPayload, "bounds_unsupported">>,
        <<now < q.deadline, "deadline_expired">>,
        <<ValidateBinding(q.profile.id, q.binding) = "ok", BindingRefusal(q)>> >>)

\* What the host helper asks of a request's binding, grants, bounds and deadline.
HostGrantLaws(q, now) ==
    << <<HostBinding(q.binding) = "ok", BindingRefusal(q)>>,
       <<q.checkpoint = null, "checkpoint_invalid">>,
       <<q.granted # {} /\ q.granted \subseteq HostDescriptor.caps, "capability_denied">>,
       <<q.bounds.observations >= 1 /\ q.bounds.coverage >= 3
         /\ q.bounds.errors >= MaxCollectionErrors, "bounds_unsupported">>,
       <<now < q.deadline, "deadline_expired">> >>

HostRefusal(q, digest, now) ==
    FirstBroken(<< <<q.profile.id = "host", "unknown_profile">>,
                   <<q.profile.digest = digest, "profile_digest_mismatch">> >>
                \o HostGrantLaws(q, now))

BetaRefusal(q, digest, now) ==
    FirstBroken(<<
        <<q.profile.id \in BetaProfiles, "unknown_profile">>,
        <<q.profile.digest = digest, "profile_digest_mismatch">>,
        <<q.checkpoint = null, "checkpoint_invalid">>,
        <<q.granted = ResolveProfile(q.profile.id).caps, "capability_denied">>,
        <<q.bounds.observations >= 1 /\ q.bounds.coverage >= 1 /\ q.bounds.errors >= 1
          /\ q.bounds.payload >= MinPayload /\ q.bounds.response >= MinBetaResponse, "bounds_unsupported">>,
        <<now < q.deadline, "deadline_expired">>,
        <<ValidateBinding(q.profile.id, q.binding) = "ok", "unsupported_scope">> >>)

\* The cache-result helper compares scope and vantage itself, not through the profile.
CacheGrantLaws(q, now) ==
    << <<q.binding.scope.kind = "synthetic_cache_executor_attempt"
         /\ q.binding.subject = q.binding.scope.value.subject, "unsupported_scope">>,
       <<q.binding.vantage = [kind |-> "retained_docket_state", value |-> <<>>], "unsupported_vantage">>,
       <<q.checkpoint = null, "checkpoint_invalid">>,
       <<q.granted = CacheDescriptor.caps, "capability_denied">>,
       <<q.bounds.observations >= 1 /\ q.bounds.coverage >= 1, "bounds_unsupported">>,
       <<now < q.deadline, "deadline_expired">> >>

CacheRefusal(q, digest, now) ==
    FirstBroken(<< <<q.profile.id = "cache", "unknown_profile">>,
                   <<q.profile.digest = digest, "profile_digest_mismatch">> >>
                \o CacheGrantLaws(q, now))

RequestRefusal(q, digest, now) ==
    CASE q.profile.id \in ResourceProfiles -> ResourceRefusal(q, digest, now)
      [] q.profile.id = "host" -> HostRefusal(q, digest, now)
      [] q.profile.id \in BetaProfiles -> BetaRefusal(q, digest, now)
      [] q.profile.id = "cache" -> CacheRefusal(q, digest, now)

-----------------------------------------------------------------------------
(* The reads of an observation, in order.  "query" is where a query of the    *)
(* system manager gets its deadline, before it connects.                      *)

Acquisition(q) ==
    CASE q.profile.id \in {"capacity", "inodes"} ->
            <<"machine", "mounts", "uuid", "open", "statfs", "mountsAgain">>
      [] q.profile.id = "memory" -> <<"machine", "pressure", "bootClock">>
      [] q.profile.id = "unit2" -> <<"query", "connect", "machine", "unit">>
      [] q.profile.id = "unit3" -> <<"boot", "query", "connect", "machine", "unit", "bootAgain">>
      [] q.profile.id = "host" ->
            (IF "read_procfs" \in q.granted THEN <<"uptime", "load">> ELSE <<>>)
            \o (IF "read_system_info" \in q.granted THEN <<"hostname", "cpu">> ELSE <<>>)
      [] q.profile.id = "unit1" -> <<"connect", "machine", "unit", "enabled", "file">>
      [] q.profile.id = "http" -> <<"connect", "response">>
      [] q.profile.id = "cache" -> <<"record", "row">>

\* What a read returns from a host.  An opened path stays on the file system it was opened
\* on, so the counters are those of that one.
Sense(r, host, got) ==
    CASE r \in {"mounts", "mountsAgain", "open"} -> host.mount
      [] r = "statfs" -> host.counters[got["open"].fs]
      [] r = "boot" \/ r = "bootAgain" -> host.boot
      [] r \in {"query", "connect"} -> "done"
      [] OTHER -> host[r]

\* Ways a read fails by itself, whatever the host holds.
ReadFailures(id, r) ==
    CASE r = "machine" /\ id \in {"capacity", "inodes", "memory"} -> {"machine_identity_unavailable"}
      [] r \in {"mounts", "mountsAgain"} -> {"mount_table_unavailable"}
      [] r = "uuid" -> {"filesystem_identity_unavailable"}
      [] r = "open" -> {"filesystem_inaccessible", "mount_identity_unavailable"}
      [] r = "statfs" -> {"stat_failed", "statfs_failed"}
      [] r = "pressure" -> {"psi_not_provided", "psi_read_failed", "psi_malformed"}
      [] r = "bootClock" -> {"boot_clock_unavailable"}
      [] r \in {"boot", "bootAgain"} -> {"boot_identity_unavailable", "boot_identity_malformed"}
      [] r = "query" -> {}
      [] r = "connect" /\ id \in {"unit2", "unit3"} ->
            {"system_bus_unavailable", "query_failed", "reply_malformed"}
      [] r \in {"machine", "unit"} /\ id \in {"unit2", "unit3"} ->
            {"manager_unavailable", "query_failed", "reply_malformed"}
      [] r = "connect" /\ id = "unit1" -> {"system_bus_unavailable"}
      [] r = "machine" /\ id = "unit1" ->
            {"systemd_machine_identity_failed", "systemd_machine_identity_malformed"}
      [] r = "unit" /\ id = "unit1" ->
            {"systemd_manager_unavailable", "systemd_unit_list_failed", "systemd_unit_list_malformed"}
      [] r = "enabled" -> {"systemd_unit_file_list_failed", "systemd_unit_file_list_malformed"}
      [] r = "file" -> {"systemd_unit_file_path_invalid", "systemd_unit_file_open_failed",
                        "systemd_unit_file_metadata_failed", "systemd_unit_file_bound",
                        "systemd_unit_file_read_failed", "systemd_unit_file_changed"}
      [] r = "connect" /\ id = "http" ->
            {"http_connect_failed", "http_timeout_configuration", "http_write_failed"}
      [] r = "response" -> {"http_timeout_configuration", "http_read_failed", "http_header_incomplete",
                            "http_body_incomplete", "http_completion_unconfirmed"} \cup HeaderRefusals
      [] r = "uptime" -> {"uptime_unavailable"}
      [] r = "load" -> {"loadavg_unavailable"}
      [] r = "hostname" -> {"hostname_unavailable"}
      [] r = "cpu" -> {"cpu_count_unavailable"}
      [] r \in {"record", "row"} -> {"record_unavailable"}

-----------------------------------------------------------------------------
(* The check a helper makes as soon as it has read: "ok", or the code of the  *)
(* failure that ends the observation.                                         *)

\* A defect: the device number taken for the file system's identity.
FilesystemIsOnDevice(scope, fs) == TRUE
\* The identifier that the call which returns the counters returns too is that of the scope's UUID.
FilesystemIs(scope, fs) == Fold[FilesystemUuid[fs]] = Fold[scope.uuid]

\* The path must still be the mount that was selected, and that the file system that was
\* named: by the UUID's device before it is opened, by the identifier that the very call
\* that returns the counters returns too, and by the mount table once more afterwards.
CheckFilesystem(scope, r, got) ==
    LET v == got[r]
        m == got["mounts"]
        dev(mount) == FilesystemDevice[mount.fs]
    IN  CASE r = "machine" -> IF v = scope.machine THEN "ok" ELSE "machine_identity_mismatch"
          [] r = "mounts" ->
                IF v = null THEN "not_a_mountpoint"
                ELSE FirstBroken(<<
                        <<FilesystemType[v.fs] = scope.type, "unsupported_filesystem_type">>,
                        <<v.root = "/", "mount_root_not_filesystem_root">> >>)
          [] r = "uuid" -> IF v = dev(m) THEN "ok" ELSE "filesystem_identity_mismatch"
          [] r = "open" -> IF v # null /\ v.id = m.id THEN "ok" ELSE "mount_changed_during_observation"
          [] r = "statfs" ->
                FirstBroken(<<
                    <<dev(got["open"]) = dev(m), "mount_changed_during_observation">>,
                    <<FilesystemIs(scope, got["open"].fs), "filesystem_identity_mismatch">> >>)
          [] r = "mountsAgain" ->
                IF v # null /\ v.id = m.id /\ dev(v) = dev(m) THEN "ok"
                ELSE "mount_changed_during_observation"

\* A pressure file parses into two lines of averages, none above the whole.
ParsePressureFile(p) == \A k \in {"avg10", "avg60", "avg300"} : p.some[k] <= MaxAverage /\ p.full[k] <= MaxAverage

CheckMemory(scope, r, got) ==
    CASE r = "machine" -> IF got[r] = scope.machine THEN "ok" ELSE "machine_identity_mismatch"
      [] r = "pressure" -> IF /\ ParsePressureFile(got[r])
                              /\ \A k \in DOMAIN got[r].some : got[r].full[k] <= got[r].some[k]
                           THEN "ok" ELSE "psi_malformed"
      [] r = "bootClock" -> "ok"

\* One row, of the unit itself and not of another it is an alias of, in states the
\* profile knows.  The machine is compared once all replies are in.
CheckUnit(scope, r, got) ==
    LET row == got["unit"]
    IN  CASE r = "unit" ->
                IF got["machine"] # scope.machine THEN "machine_identity_mismatch"
                ELSE IF row = null THEN "unit_list_cardinality"
                ELSE FirstBroken(<<
                        <<row.name = scope.unit, "unit_name_not_canonical">>,
                        <<row.load \in LoadStates /\ row.active \in ActiveStates,
                          "unit_state_unrecognized">> >>)
          [] OTHER -> "ok"

\* A defect: the boot is not read again after the unit's state.
CheckBootOnce(r, got) == "ok"
CheckBoot(r, got) ==
    IF r = "bootAgain" /\ got["boot"] # got["bootAgain"] THEN "boot_identity_changed" ELSE "ok"

\* The digest of the bytes read from the unit file, opened without following a link.  Only
\* its length is compared with what it was at the open.
UnitFileIs(scope, digest) == digest = scope.file

\* Version 1 refuses a unit with a job in progress, and one whose file is another.
CheckUnitV1(scope, r, got) ==
    CASE r = "machine" -> IF got[r] = scope.machine THEN "ok" ELSE "systemd_machine_identity_mismatch"
      [] r = "enabled" ->
            IF got["unit"] = null \/ got["enabled"] = null THEN "systemd_unit_cardinality"
            ELSE FirstBroken(<<
                    <<got["unit"].name = scope.unit, "systemd_unit_identity_mismatch">>,
                    <<got["unit"].job = 0, "systemd_unit_transition_in_progress">> >>)
      [] r = "file" -> IF UnitFileIs(scope, got[r]) THEN "ok" ELSE "systemd_unit_file_digest_mismatch"
      [] OTHER -> "ok"

\* The body is as long as the one Content-Length said, and no longer than the scope allows.
CheckHttp(scope, r, got) ==
    IF r # "response" THEN "ok"
    ELSE FirstBroken(<<
            <<got[r].length <= scope.maxBody, "http_body_bound">>,
            <<got[r].bytes <= got[r].length, "http_body_length">>,
            <<got[r].bytes >= got[r].length, "http_body_incomplete">> >>)

\* The record on disk must be the one that the settled row of the attempt was receipted for.
CheckCache(scope, r, got) ==
    LET record == got["record"]
        row == got["row"]
    IN  CASE r = "record" -> IF record # null /\ record.outcome = "success" THEN "ok" ELSE "record_differs"
          [] r = "row" -> IF /\ row # null
                             /\ row.attempt = scope.attempt /\ row.subject = scope.subject
                             /\ row.plan = scope.plan /\ row.outcome = "success"
                             /\ record.attempt = row.attempt
                             /\ row.receipt = record
                          THEN "ok" ELSE "row_differs"

CheckRead(q, r, got) ==
    LET scope == q.binding.scope.value
    IN  CASE q.profile.id \in {"capacity", "inodes"} -> CheckFilesystem(scope, r, got)
          [] q.profile.id = "memory" -> CheckMemory(scope, r, got)
          [] q.profile.id = "unit2" -> CheckUnit(scope, r, got)
          [] q.profile.id = "unit3" -> IF CheckBoot(r, got) # "ok" THEN CheckBoot(r, got)
                                       ELSE CheckUnit(scope, r, got)
          [] q.profile.id = "host" -> "ok"
          [] q.profile.id = "unit1" -> CheckUnitV1(scope, r, got)
          [] q.profile.id = "http" -> CheckHttp(scope, r, got)
          [] q.profile.id = "cache" -> CheckCache(scope, r, got)

\* What a query of the system manager may take, less a margin for the report.  It is found
\* once, when the request is accepted, and counts from where the query begins.
QueryBudget(q, now) == IF q.deadline - now > ReportMargin THEN q.deadline - now - ReportMargin ELSE 0

\* Whether there is no time left for a read: the connect is bounded by nothing but what
\* follows it, the operator-beta reads use all the time of the request but do not look before
\* the unit file, and the host and cache helpers look only before each group of reads.
OutOfTime(q, r, helper, now) ==
    CASE q.profile.id \in {"unit2", "unit3"} ->
            \/ r = "query" /\ helper.budget = 0
            \/ r \in {"connect", "machine", "unit"} /\ now >= helper.until
      [] q.profile.id \in BetaProfiles -> r # "file" /\ now >= q.deadline
      [] OTHER -> r \in {"uptime", "hostname", "record"} /\ now >= q.deadline

TimeoutCodes(id, r) ==
    CASE id \in {"unit2", "unit3"} -> {"query_timeout"}
      [] id = "unit1" /\ r = "machine" -> {"systemd_machine_identity_timeout"}
      [] id = "unit1" /\ r = "unit" -> {"deadline_expired", "systemd_unit_list_timeout"}
      [] id = "unit1" /\ r = "enabled" -> {"systemd_unit_file_list_timeout"}
      [] OTHER -> {"deadline_expired"}

-----------------------------------------------------------------------------
(* The report.  It is dated when it is built, after the last read; that of    *)
(* the cache-result helper is dated as its last read ends.                    *)

Report(q, wall, status, coverage, observations, errors, used) ==
    [kind |-> "report", profile |-> q.profile, binding |-> q.binding, observed |-> wall, status |-> status,
     coverage |-> coverage, observations |-> observations, errors |-> errors, used |-> used]

\* One complete snapshot by all the capabilities of the profile.
SnapshotReport(q, wall, payload) ==
    LET d == ResolveProfile(q.profile.id)
        access == CHOOSE a \in d.access : TRUE
        kind == CHOOSE c \in d.coverage : TRUE
        basis == EvidenceBasis(q, access, d.caps)
    IN  Report(q, wall, "complete", <<CoverageDeclaration(kind, null, "complete")>>,
               <<Observation(0, d.kind, q.binding.subject, wall,
                             [f \in DOMAIN payload \cup {"basis"} |-> IF f = "basis" THEN basis ELSE payload[f]],
                             PayloadSize)>>,
               <<>>, d.caps)

FilesystemReport(q, wall, got) ==
    LET scope == q.binding.scope.value
        c == got["statfs"]
    IN  SnapshotReport(q, wall,
            [machine |-> scope.machine, uuid |-> scope.uuid, type |-> FilesystemType[got["mounts"].fs],
             mountpoint |-> scope.mountpoint, mountId |-> got["mounts"].id,
             fsid |-> Fold[FilesystemUuid[got["open"].fs]],
             fragment |-> c.fragment, total |-> c.total, free |-> c.free, available |-> c.available,
             inodes |-> c.inodes, inodesFree |-> c.inodesFree])

MemoryReport(q, wall, got) ==
    SnapshotReport(q, wall,
        [machine |-> q.binding.scope.value.machine, some |-> got["pressure"].some,
         full |-> got["pressure"].full, bootAge |-> got["bootClock"]])

\* Version 3 carries the boot that both reads of it returned.
UnitReport(q, wall, got) ==
    LET state == [machine |-> q.binding.scope.value.machine, unit |-> q.binding.scope.value.unit,
                  load |-> got["unit"].load, active |-> got["unit"].active]
    IN  SnapshotReport(q, wall,
            IF q.profile.id = "unit2" THEN state
            ELSE [machine |-> state.machine, unit |-> state.unit, load |-> state.load,
                  active |-> state.active, boot |-> got["boot"]])

UnitV1Report(q, wall, got) ==
    SnapshotReport(q, wall,
        [machine |-> got["machine"], unit |-> got["unit"].name, file |-> got["file"],
         load |-> got["unit"].load, active |-> got["unit"].active, sub |-> got["unit"].sub,
         enabled |-> got["enabled"]])

HttpReport(q, wall, got) ==
    SnapshotReport(q, wall,
        [controller |-> q.binding.scope.value.controller, endpoint |-> q.binding.scope.value.endpoint,
         status |-> got["response"].status, body |-> got["response"].body,
         bytes |-> got["response"].bytes])

CacheReport(q, dated, got) ==
    SnapshotReport(q, dated,
        [attempt |-> got["row"].attempt, subject |-> got["row"].subject, plan |-> got["row"].plan,
         outcome |-> got["row"].outcome, observed |-> got["record"].observed,
         executedAt |-> got["record"].executedAt])

\* What failed, and every capability of the branch, whether it was reached or not.
FailedReport(q, wall, failure) ==
    LET d == ResolveProfile(q.profile.id)
        kind == CHOOSE c \in d.coverage : TRUE
    IN  Report(q, wall, "failed", <<CoverageDeclaration(kind, null, "unavailable")>>, <<>>,
               <<ReportError(failure.code, "error", failure.retriable, null)>>, d.caps)

\* The host helper goes on past what it cannot read, and reports what is left.
HostErrors(q, got) ==
    LET missing(cap, fields) ==
            IF cap \in q.granted THEN SelectSeq(fields, LAMBDA f : got[f] = null) ELSE <<cap>>
        absent == missing("read_procfs", <<"uptime", "load">>)
                  \o missing("read_system_info", <<"hostname", "cpu">>)
        code == [uptime |-> "uptime_unavailable", load |-> "loadavg_unavailable",
                 hostname |-> "hostname_unavailable", cpu |-> "cpu_count_unavailable",
                 read_procfs |-> "procfs_capability_not_granted",
                 read_system_info |-> "system_info_capability_not_granted"]
    IN  [i \in DOMAIN absent |-> Fail(code[absent[i]], absent[i] \notin HostDescriptor.caps)]

HostReport(q, wall, got) ==
    LET state(known, all) == IF known = 0 THEN "unavailable" ELSE IF known = all THEN "complete" ELSE "partial"
        identity == state(Reported(got, {"hostname"}), 1)
        uptime == state(Reported(got, {"uptime"}), 1)
        load == state(Reported(got, {"cpu", "load"}), 2)
        states == {identity, uptime, load}
        failed == states = {"unavailable"}
        errors == HostErrors(q, got)
        payload == [basis |-> EvidenceBasis(q, HostAccess(q.granted), q.granted), hostname |-> got["hostname"],
                    uptime |-> got["uptime"], load |-> got["load"], cpu |-> got["cpu"]]
    IN  Report(q, wall, IF states = {"complete"} THEN "complete" ELSE IF failed THEN "failed" ELSE "partial",
               <<CoverageDeclaration("host_identity", null, identity),
                 CoverageDeclaration("uptime", null, uptime), CoverageDeclaration("load", null, load)>>,
               IF failed THEN <<>>
               ELSE <<Observation(0, "host_snapshot", q.binding.subject, wall, payload, PayloadSize)>>,
               [i \in DOMAIN errors |-> ReportError(errors[i].code, "error", errors[i].retriable, IF failed THEN null ELSE 0)],
               q.granted)

BuildReport(q, wall, dated, got) ==
    CASE q.profile.id \in {"capacity", "inodes"} -> FilesystemReport(q, wall, got)
      [] q.profile.id = "memory" -> MemoryReport(q, wall, got)
      [] q.profile.id \in {"unit2", "unit3"} -> UnitReport(q, wall, got)
      [] q.profile.id = "unit1" -> UnitV1Report(q, wall, got)
      [] q.profile.id = "http" -> HttpReport(q, wall, got)
      [] q.profile.id = "cache" -> CacheReport(q, dated, got)
      [] q.profile.id = "host" -> HostReport(q, wall, got)

-----------------------------------------------------------------------------
RefusalFor(q, code) == Refusal(q, RefusalBoundary(code), code, code = "deadline_expired")

\* A report that breaks the profile's laws is not sent: the helper refuses, as its own fault.
ValidateCompiledReport(q, report, wall) ==
    IF Validate(q, report, wall, HelperSkew) = "ok" THEN report ELSE RefusalFor(q, "internal_error")

\* A response that the exchange would not admit gives way to a refusal of the bounds, and
\* the helper says nothing at all when even that does not fit.
EnsureBounded(q, outcome) ==
    LET response == HelperResponse(q, outcome)
        fallback == HelperResponse(q, RefusalFor(q, "bounds_unsupported"))
    IN  IF ValidateExchange(q, response) = "ok" THEN response
        ELSE IF ValidateExchange(q, fallback) = "ok" THEN fallback ELSE null
=============================================================================
