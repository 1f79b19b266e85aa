------------------------------ MODULE MCLedger ------------------------------
(* Two watchers of one profile with two detectors.  The second exchange may  *)
(* end in any way; the others bring the reports that move a finding, so that *)
(* histories of three operations stay within reach.                          *)
EXTENDS Ledger

MCProfileOf(i) == "host"
MCDetectorsOf(p) == {1, 2}

Report(status, conditions, verdict, ahead) ==
    [outcome |-> "Response",
     raw |-> [kind |-> "report", status |-> status, conditions |-> conditions,
              verdict |-> verdict, ahead |-> ahead]]

Failed(outcome, kind) == [outcome |-> outcome, raw |-> [kind |-> kind]]

Present == Report("complete", {1}, "valid", 0)
Absent == Report("complete", {}, "valid", 0)

MCCaptures(n) ==
    CASE n = 1 -> {Present}
      [] n = 2 ->
           {Absent, Report("partial", {}, "valid", 0), Report("complete", {}, "valid", 1),
            Report("complete", {}, "subject_mismatch", 0),
            [outcome |-> "Response", raw |-> [kind |-> "refusal", code |-> "collection_failed"]],
            [outcome |-> "Response", raw |-> [kind |-> "invalid", failure |-> "invalid_json"]],
            Failed("ExchangeTimeout", "nothing"), Failed("ExitNonzero", "partial")}
      [] OTHER -> {Present, Absent}

MCPartialCaptures(n) == {Present} \cup {Failed("Timeout", "partial")}

Symmetry == Permutations(Instances)
=============================================================================
