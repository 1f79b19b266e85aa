------------------------------ MODULE Outcomes ------------------------------
(***************************************************************************)
(* The result carriers of one collection: what a helper exchange captured,   *)
(* how its bytes are interpreted, the refusals and failures that follow, and *)
(* the checks the engine makes whenever it reads such a carrier back.        *)
(*                                                                          *)
(* A digest stands for the value it was computed from, a message and a token *)
(* for nothing; a payload is the record of what its bytes say.               *)
(*                                                                          *)
(* Source: crates/nq-core/src/engine.rs, crates/nq-core/src/                 *)
(* provider_intake.rs.                                                       *)
(***************************************************************************)
EXTENDS Naturals, Sequences

CONSTANTS
    Instances,     \* watcher instances
    Catalog,       \* profile generations compiled into the running binary
    MaxFutureSkew  \* how far ahead of its receipt an observation may lie

NoRun == <<>>
None == [kind |-> "none"]

AcquisitionOutcomes ==
    {"Response", "SpawnFailed", "RequestWriteFailed", "Timeout", "ExchangeTimeout",
     "OutputTooLarge", "StderrTooLarge", "Eof", "MalformedFraming", "MalformedJson",
     "ExitNonzero", "HelperExited", "Disconnect", "CarrierStartupFailed", "NotRunning",
     "IoFailed"}

\* The class is the outcome, except that both deadlines are one class.
AcquisitionFailureFrom(outcome) ==
    [class |-> IF outcome = "ExchangeTimeout" THEN "Timeout" ELSE outcome,
     retry |-> "unspecified", outcome |-> outcome]

ValidAcquisitionFailure(failure) ==
    /\ failure.outcome \in AcquisitionOutcomes \ {"Response"}
    /\ failure = AcquisitionFailureFrom(failure.outcome)

AdmissionRefusals ==
    {<<"active_binding", "missing_active_binding", "none">>,
     <<"execution_identity", "binary_identity_invalid", "binary_identity">>,
     <<"conformance", "conformance_failed", "conformance_failed">>,
     <<"storage", "store_failure", "storage">>,
     <<"coordination", "coordination_failure", "coordination">>,
     <<"protocol", "invalid_identity_token", "identity_token">>,
     <<"protocol", "protocol_failure", "protocol">>,
     <<"profile", "profile_failure", "profile_processing">>,
     <<"serialization", "canonicalization_failure", "canonicalization">>,
     <<"materialization", "materialization_failure", "materialization">>,
     <<"internal", "invariant_violation", "invariant">>,
     <<"active_binding", "config_drift", "config_drift">>,
     <<"active_binding", "protocol_drift", "protocol_drift">>,
     <<"active_binding", "profile_drift", "profile_drift">>,
     <<"active_binding", "malformed_binding", "malformed_binding">>,
     <<"conformance", "conformance_drift", "conformance_drift">>,
     <<"profile", "unknown_profile", "profile_identity">>}

\* An upstream refusal keeps the boundary that met it and the carrier it met.
ValidAdmissionRefusal(refusal) ==
    \/ <<refusal.boundary, refusal.code, refusal.details>> \in AdmissionRefusals
    \/ refusal.code = "upstream_refusal" /\ refusal.details \in {"governed", "acquisition"}

\* What an admission error says, as the details of a refusal.
AdmissionErrorDetails ==
    [Binary |-> "binary_identity", ConfigDrift |-> "config_drift",
     ProfileDrift |-> "profile_drift", ProtocolDrift |-> "protocol_drift",
     Malformed |-> "malformed_binding", ConformanceFailed |-> "conformance_failed",
     ConformanceDrift |-> "conformance_drift", Io |-> "materialization"]

EngineErrorDetails ==
    [Store |-> "storage", Coordination |-> "coordination", ProviderIntake |-> "invariant",
     Io |-> "materialization", UnknownProfile |-> "profile_identity",
     Token |-> "identity_token", Protocol |-> "protocol", Profile |-> "profile_processing",
     Canonical |-> "canonicalization", DiagnosticUnsupported |-> "invariant",
     Invariant |-> "invariant", GovernedRefusal |-> "governed",
     AcquisitionFailed |-> "acquisition"]

RefusalWithDetails(i, details) ==
    LET row == CHOOSE r \in AdmissionRefusals : r[3] = details
    IN [instance |-> i, boundary |-> row[1], code |-> row[2], details |-> details]

\* The refusal an error becomes when no run exists yet: an upstream refusal is
\* met at the caller's boundary, every other error at its own.
AdmissionRefusalFrom(i, fallback, error) ==
    LET details == EngineErrorDetails[error]
    IN IF details \in {"governed", "acquisition"}
       THEN [instance |-> i, boundary |-> fallback, code |-> "upstream_refusal",
             details |-> details]
       ELSE RefusalWithDetails(i, details)

RefusalBoundaryOf(code) ==
    CASE code = "unsupported_protocol" -> "protocol"
      [] code \in {"unknown_profile", "profile_digest_mismatch"} -> "profile"
      [] code = "unsupported_scope" -> "scope"
      [] code = "unsupported_vantage" -> "vantage"
      [] code = "capability_denied" -> "capability"
      [] code = "deadline_expired" -> "deadline"
      [] code \in {"bounds_unsupported", "resource_exhausted"} -> "resource"
      [] code = "checkpoint_invalid" -> "checkpoint"
      [] code = "collection_failed" -> "collection"
      [] code = "internal_error" -> "internal"

ProtocolRejectionFailures ==
    {"frame_too_large", "invalid_framing", "invalid_json", "validation", "canonicalization"}

\* A governed refusal: its origin, the exact object that origin produced, and
\* the instance it holds responsible.
AcquisitionRefusal(id, i, outcome) ==
    [id |-> id, origin |-> "acquisition", instance |-> i,
     source |-> AcquisitionFailureFrom(outcome)]

ProtocolRefusal(id, i, failure) ==
    [id |-> id, origin |-> "protocol", instance |-> i,
     source |-> [boundary |-> "response", code |-> "invalid_response", failure |-> failure]]

HelperRefusal(id, i, code) ==
    [id |-> id, origin |-> "helper", instance |-> i,
     source |-> [boundary |-> RefusalBoundaryOf(code), code |-> code]]

ProfileRefusal(id, i, profile, boundary, code) ==
    [id |-> id, origin |-> "profile", instance |-> i,
     source |-> [profile |-> profile, boundary |-> boundary, code |-> code]]

\* The catalog-free checks of a refusal that is read back.
ValidTransport(refusal) ==
    /\ refusal.instance \in Instances
    /\ refusal.origin = "acquisition" => ValidAcquisitionFailure(refusal.source)
    /\ refusal.origin = "protocol" => refusal.source.failure \in ProtocolRejectionFailures
    /\ refusal.origin = "helper" =>
         refusal.source.boundary = RefusalBoundaryOf(refusal.source.code)

\* The live checks: a profile refusal also names a compiled generation.
ValidRefusal(refusal) ==
    /\ ValidTransport(refusal)
    /\ refusal.origin = "profile" => refusal.source.profile \in Catalog

\* The three columns a refusal is indexed by.
RefusalProjection(refusal) ==
    CASE refusal.origin = "acquisition" -> <<"acquisition", "acquisition", refusal.source.class>>
      [] refusal.origin \in {"protocol", "helper"} ->
           <<"protocol", refusal.source.boundary, refusal.source.code>>
      [] refusal.origin = "profile" -> <<"profile", refusal.source.boundary, refusal.source.code>>

RefusalColumns(refusal) ==
    [id |-> refusal.id, projection |-> RefusalProjection(refusal), instance |-> refusal.instance,
     profile |-> IF refusal.origin = "profile" THEN refusal.source.profile ELSE "none",
     detail |-> refusal]

\* How far the protocol plane got with the bytes a refusal retains.
ExpectedProtocolOutcome(origin) ==
    CASE origin = "acquisition" -> "not_validated"
      [] origin = "protocol" -> "rejected"
      [] origin = "helper" -> "valid_refusal"
      [] origin = "profile" -> "valid_report"

-----------------------------------------------------------------------------
(* The exchange and its interpretation.                                     *)

\* The kind of a payload says what the bytes on standard output are, read as a
\* response to the request: nothing, a prefix, more than a frame holds
\* (overflow), bytes that are no valid response, a refusal, a report.
NotAvailable == [kind |-> "unavailable"]

InterpretResponse(capture) ==
    IF capture.outcome # "Response" THEN NotAvailable
    ELSE CASE capture.raw.kind = "report" -> [kind |-> "candidate_report", report |-> capture.raw]
           [] capture.raw.kind = "refusal" ->
                [kind |-> "provider_refusal", code |-> capture.raw.code]
           [] OTHER -> [kind |-> "protocol_rejected", failure |-> capture.raw.failure]

\* The compiled profile's verdict on a report: what the report is by itself,
\* then whether it claims to be observed after it was received.
ProfileVerdict(report, received) ==
    IF report.verdict # "valid" THEN report.verdict
    ELSE IF report.observed > received + MaxFutureSkew THEN "future_observation"
    ELSE "valid"

Retained(raw) == raw.kind # "nothing"

\* The carriers of a collection's result.
AdmittedOutcome(i, run, report, envelopes) ==
    [schema |-> 2, instance |-> i, run |-> run,
     result |-> [kind |-> "admitted", report |-> report.id, status |-> report.status,
                 digest |-> report.document, evaluations |-> envelopes]]

AdmissionRefusedOutcome(i, refusal) ==
    [schema |-> 1, instance |-> i, run |-> NoRun,
     result |-> [kind |-> "admission_refused", refusal |-> refusal]]

AcquisitionFailedOutcome(i, run, outcome) ==
    [schema |-> 1, instance |-> i, run |-> run,
     result |-> [kind |-> "acquisition_failed", failure |-> AcquisitionFailureFrom(outcome)]]

RejectedOutcome(i, run, refusal) ==
    [schema |-> 1, instance |-> i, run |-> run,
     result |-> [kind |-> "rejected", refusal |-> refusal]]

\* A detector result's envelope: identity, context, time, watermark and the
\* refusal that a detector owes exactly when it cannot evaluate.
ValidEnvelope(e) ==
    /\ e.watermark.instance = e.instance
    /\ e.result.profile = e.profile
    /\ e.result.watermark = e.watermark.sequence
    /\ e.started <= e.evaluated
    /\ (e.result.state = "cannot_evaluate") <=> (e.result.refusal # None)
    /\ e.result.refusal # None =>
         /\ ValidRefusal(e.result.refusal)
         /\ e.result.refusal.origin = "profile"
         /\ e.result.refusal.instance = e.instance
         /\ e.result.refusal.source =
              [profile |-> e.profile, boundary |-> "detector", code |-> "cannot_evaluate"]
         /\ e.result.evidence = {}

ValidOutcome(o) ==
    /\ o.instance \in Instances
    /\ CASE o.result.kind = "admitted" ->
              /\ o.schema = 2 /\ o.run # NoRun
              /\ o.result.status \in {"complete", "partial", "failed"}
              /\ \A k \in DOMAIN o.result.evaluations :
                   LET e == o.result.evaluations[k]
                   IN /\ ValidEnvelope(e)
                      /\ e.trigger = o.run
                      /\ e.instance = o.instance
                      /\ k > 1 => o.result.evaluations[k - 1].detector < e.detector
         [] o.result.kind = "admission_refused" ->
              /\ o.schema = 1 /\ o.run = NoRun
              /\ ValidAdmissionRefusal(o.result.refusal)
              /\ o.result.refusal.instance = o.instance
         [] o.result.kind = "acquisition_failed" ->
              /\ o.schema = 1 /\ o.run # NoRun
              /\ ValidAcquisitionFailure(o.result.failure)
         [] o.result.kind = "rejected" ->
              /\ o.schema = 1 /\ o.run # NoRun
              /\ o.result.refusal.instance = o.instance
              /\ ValidRefusal(o.result.refusal)

\* The instance status a result is shown as.
InstanceStatusProjection(o) ==
    CASE o.result.kind = "admitted" ->
           (CASE o.result.status = "complete" -> <<"healthy", "report_complete">>
              [] o.result.status = "partial" -> <<"degraded", "report_partial">>
              [] o.result.status = "failed" -> <<"failed", "report_failed">>)
      [] o.result.kind = "admission_refused" -> <<"failed", "admission_refused">>
      [] o.result.kind = "acquisition_failed" -> <<"failed", "collection_failed">>
      [] o.result.kind = "rejected" ->
           (CASE o.result.refusal.origin = "acquisition" -> <<"failed", "collection_failed">>
              [] o.result.refusal.origin = "helper" -> <<"degraded", "helper_refused">>
              [] OTHER -> <<"failed", "report_rejected">>)

FramedFailuresOnly == {"MalformedFraming", "MalformedJson"}

\* Transport outcomes whose partial output the history check expects as
\* rejected custody; under every other one it expects no retained bytes.
FramedFailures == {"MalformedFraming", "MalformedJson", "ExitNonzero"}

\* What an intake and its collection's result must agree on, decided again
\* from the retained capture whenever the pair is written or read back.
DownstreamAgrees(intake, o) ==
    LET native == intake.resource
        raw == intake.raw
        interpretation == intake.interpretation
    IN /\ o.instance = intake.bound.instance
       /\ o.run = intake.run
       /\ CASE interpretation.kind = "unavailable" /\ o.result.kind = "acquisition_failed" ->
                 /\ o.result.failure = AcquisitionFailureFrom(native)
                 /\ ~ (Retained(raw) /\ native \in FramedFailures)
            [] interpretation.kind = "unavailable" /\ o.result.kind = "rejected" ->
                 /\ o.result.refusal.origin = "acquisition"
                 /\ Retained(raw) /\ native \in FramedFailures
                 /\ o.result.refusal.source = AcquisitionFailureFrom(native)
            [] interpretation.kind = "protocol_rejected" /\ o.result.kind = "rejected" ->
                 /\ o.result.refusal.origin = "protocol"
                 /\ o.result.refusal.source.failure = interpretation.failure
            [] interpretation.kind = "provider_refusal" /\ o.result.kind = "rejected" ->
                 /\ o.result.refusal.origin = "helper"
                 /\ o.result.refusal.source.code = interpretation.code
            [] interpretation.kind = "candidate_report" /\ o.result.kind = "admitted" ->
                 /\ o.result.status = interpretation.report.status
                 /\ o.result.digest = interpretation.report
            [] interpretation.kind = "candidate_report" /\ o.result.kind = "rejected" ->
                 /\ o.result.refusal.origin = "profile"
                 /\ o.result.refusal.source.profile = interpretation.report.profile
                 /\ o.result.refusal.source.profile \in Catalog
                 /\ o.result.refusal.source.code =
                      ProfileVerdict(interpretation.report, intake.bound.finished)
            [] OTHER -> FALSE
=============================================================================
