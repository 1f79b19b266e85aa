---------------------------- MODULE MCRetention ----------------------------
(* Instances of Retention for TLC: one watcher instance reconfigured once,   *)
(* so that it has two evaluation lineages.                                   *)
EXTENDS Retention, TLC

CONSTANTS a, b, i1

OneLineage == a :> i1
TwoLineages == (a :> i1) @@ (b :> i1)

\* Only the report that finds the condition carries a checkpoint, so that the
\* newest checkpoint and the newest report part.
AllSamples ==
    {[shows |-> "present", ckpt |-> TRUE], [shows |-> "absent", ckpt |-> FALSE],
     [shows |-> "partial", ckpt |-> FALSE]}

\* Bounds of each lineage: a long history before or after one reconfiguration,
\* or any interleaving of the two.
FourAndOne == (a :> 4) @@ (b :> 1)
Three == (a :> 3) @@ (b :> 3)
OnlyFour == a :> 4

Symmetry == Permutations({a, b})

=============================================================================
