-------------------------------- MODULE Wire --------------------------------
(***************************************************************************)
(* The helper protocol as one exchange sees it: one framed request, one     *)
(* framed response, and the checks both ends make of them.  NQ and a helper  *)
(* link the same code, so the helper can ask beforehand whether NQ will      *)
(* accept what it is about to write.                                         *)
(*                                                                          *)
(* A check returns the name of the first law that fails, or "ok".  Texts,    *)
(* digests and documents are model values; a size is a number of units, and  *)
(* `null` stands for an absent value.                                        *)
(*                                                                          *)
(* Source: crates/nq-protocol/src (framing.rs, model.rs, validation.rs).     *)
(***************************************************************************)
EXTENDS Integers, Sequences, FiniteSets

CONSTANTS
    Hard,          \* hard maxima of the protocol, a record of collection bounds
    MinResponse,   \* least response bound a request may negotiate
    EchoSize,      \* units the echo and the envelope of a response take
    null           \* an absent value

\* The first law of a sequence of <<holds, name>> that does not hold.
FirstBroken(laws) ==
    LET broken == SelectSeq(laws, LAMBDA l : ~ l[1])
    IN  IF broken = <<>> THEN "ok" ELSE Head(broken)[2]

ranOf(s) == {s[i] : i \in DOMAIN s}

BoundNames == {"response", "observations", "payload", "coverage", "errors", "checkpoint"}

ReportStatus == {"complete", "partial", "failed"}
CoverageState == {"complete", "partial", "unavailable"}

CoverageDeclaration(kind, subject, state) == [kind |-> kind, subject |-> subject, state |-> state]
Observation(ordinal, kind, subject, at, payload, size) ==
    [ordinal |-> ordinal, kind |-> kind, subject |-> subject, at |-> at, payload |-> payload, size |-> size]
ReportError(code, severity, retriable, ordinal) ==
    [code |-> code, severity |-> severity, retriable |-> retriable, ordinal |-> ordinal]
Failures(report) == SelectSeq(report.errors, LAMBDA e : e.severity = "error")

\* What each refusal code says about where the exchange stopped.
RefusalBoundary(code) ==
    CASE code = "unsupported_protocol" -> "protocol"
      [] code \in {"unknown_profile", "profile_digest_mismatch"} -> "profile"
      [] code = "unsupported_scope" -> "scope"
      [] code = "unsupported_vantage" -> "vantage"
      [] code = "capability_denied" -> "capability"
      [] code = "deadline_expired" -> "deadline"
      [] code \in {"bounds_unsupported", "resource_exhausted"} -> "resource"
      [] code = "checkpoint_invalid" -> "checkpoint"
      [] code = "collection_failed" -> "collection"
      [] code = "internal_error" -> "internal"

Refusal(q, boundary, code, retriable) ==
    [kind |-> "refusal", boundary |-> boundary, code |-> code, retriable |-> retriable,
     responsible |-> q.instance]

\* A response repeats every field of the request it answers.
RequestEcho(q) ==
    [id |-> q.id, instance |-> q.instance, profile |-> q.profile, binding |-> q.binding,
     granted |-> q.granted, checkpoint |-> q.checkpoint, deadline |-> q.deadline, bounds |-> q.bounds]

HelperResponse(q, outcome) == [echo |-> RequestEcho(q), outcome |-> outcome]

ValidateBounds(b) ==
    FirstBroken(<<
        <<b.response >= MinResponse, "bounds.max_response_bytes">>,
        <<\A n \in BoundNames : b[n] <= Hard[n], "bounds">> >>)

\* A deadline is absolute, so zero is none.
ValidateRequest(q) ==
    FirstBroken(<<
        <<q.deadline # 0, "deadline">>,
        <<ValidateBounds(q.bounds) = "ok", "bounds">>,
        <<q.checkpoint = null \/ q.checkpoint.size <= q.bounds.checkpoint, "checkpoint">> >>)

\* What a report must be in itself: declared coverage without repetition, contiguous
\* ordinals, errors about observations it has, and a status its contents allow.
ValidateReport(r) ==
    FirstBroken(<<
        <<Len(r.coverage) <= Hard.coverage, "coverage">>,
        <<Len(r.observations) <= Hard.observations, "observations">>,
        <<Len(r.errors) <= Hard.errors, "errors">>,
        <<\A i, j \in DOMAIN r.coverage :
             i # j => <<r.coverage[i].kind, r.coverage[i].subject>>
                    # <<r.coverage[j].kind, r.coverage[j].subject>>, "coverage(kind,subject)">>,
        <<\A i \in DOMAIN r.observations : r.observations[i].ordinal = i - 1, "ordinal">>,
        <<\A e \in ranOf(r.errors) : e.ordinal = null \/ e.ordinal < Len(r.observations),
          "observation_ordinal">>,
        <<r.status = "complete" => \A c \in ranOf(r.coverage) : c.state = "complete", "status">>,
        <<r.status = "complete" => Failures(r) = <<>>, "status">>,
        <<r.status = "failed" => Failures(r) # <<>>, "status">> >>)

ValidateResponse(p) ==
    FirstBroken(<<
        <<p.echo.deadline # 0, "echo.deadline">>,
        <<ValidateBounds(p.echo.bounds) = "ok", "echo.bounds">>,
        <<p.outcome.kind = "report" => ValidateReport(p.outcome) = "ok", "report">>,
        <<p.outcome.kind = "refusal" => RefusalBoundary(p.outcome.code) = p.outcome.boundary,
          "refusal.boundary">> >>)

PayloadSizes(obs) ==
    LET upTo[n \in 0..Len(obs)] == IF n = 0 THEN 0 ELSE upTo[n - 1] + obs[n].size
    IN  upTo[Len(obs)]

\* Units of a response's canonical bytes, its line feed included.
ResponseSize(p) ==
    EchoSize + (IF p.outcome.kind = "refusal" THEN 1
                ELSE 1 + Len(p.outcome.coverage) + Len(p.outcome.errors) + PayloadSizes(p.outcome.observations))

\* What a report must be for this request: about its profile and its binding, within
\* every negotiated bound, and by no capability that was not granted.
ReportWithinRequest(q, r) ==
    FirstBroken(<<
        <<r.profile = q.profile, "report.profile">>,
        <<r.binding = q.binding, "report.binding">>,
        <<Len(r.observations) <= q.bounds.observations, "report.observations">>,
        <<Len(r.coverage) <= q.bounds.coverage, "report.coverage">>,
        <<Len(r.errors) <= q.bounds.errors, "report.errors">>,
        <<\A o \in ranOf(r.observations) : o.size <= q.bounds.payload, "report.payload">>,
        <<r.used \subseteq q.granted, "capability_escape">> >>)

ValidateExchange(q, p) ==
    FirstBroken(<<
        <<ValidateRequest(q) = "ok", "request">>,
        <<ValidateResponse(p) = "ok", "response">>,
        <<p.echo = RequestEcho(q), "echo">>,
        <<ResponseSize(p) <= q.bounds.response, "response frame">>,
        <<p.outcome.kind = "report" => ReportWithinRequest(q, p.outcome) = "ok", "report">>,
        <<p.outcome.kind = "refusal" => p.outcome.responsible = q.instance, "responsible">> >>)

\* One line: canonical bytes that hold no line break, and the line feed.
EncodeNdjson(doc, size) == [lines |-> 1, ended |-> TRUE, duplicate |-> FALSE, size |-> size, doc |-> doc]

\* Exactly one bounded line that is one document with no repeated and no unknown field.
DecodeNdjson(frame, max) ==
    FirstBroken(<<
        <<frame.size <= max, "too_large">>,
        <<frame.ended /\ frame.lines = 1, "not_exactly_one_line">>,
        <<~ frame.duplicate, "duplicate_key">> >>)

ParseRequest(frame) ==
    LET decoded == DecodeNdjson(frame, Hard.response)
    IN  IF decoded # "ok" THEN decoded ELSE ValidateRequest(frame.doc)

\* NQ bounds what it reads by what it negotiated, then checks the exchange.
ParseResponse(q, frame) ==
    LET decoded == DecodeNdjson(frame, q.bounds.response)
    IN  IF decoded # "ok" THEN decoded ELSE ValidateExchange(q, frame.doc)
=============================================================================
