----------------------------- MODULE MCCustody -----------------------------
(***************************************************************************)
(* A small store for TLC: a pager route with two conditions and an event     *)
(* under two of them, an inbox route, one saved check with two targets.      *)
(***************************************************************************)
EXTENDS Custody, TLC

CONSTANTS c1, c2, k1, k2, m1

MCCouriers == {c1, c2}
MCCheckers == {k1, k2}
MCMaterials == {m1}
MCTransport == "pager" :> "pagerduty" @@ "inbox" :> "local_file"

Page(e, condition, page) ==
    [event |-> e, route |-> "pager", condition |-> condition, page |-> page]

MCIntents ==
    {Page(1, 1, TRUE), Page(1, 2, TRUE), Page(2, 1, FALSE), Page(2, 2, TRUE),
     [event |-> 1, route |-> "inbox", condition |-> 0, page |-> FALSE]}

\* Nothing, or a page that was answered with a failure.
MCHistories ==
    {[outbox |-> <<>>, now |-> 0],
     [outbox |-> <<[intent |-> Page(3, 1, TRUE), created |-> 1,
                    events |-> <<[outcome |-> "claimed", deliberate |-> FALSE, at |-> 1],
                                 [outcome |-> "failed", deliberate |-> FALSE, at |-> 2]>>]>>,
      now |-> 2]}

Symmetric == Permutations(MCCouriers) \cup Permutations(MCCheckers)
=============================================================================
