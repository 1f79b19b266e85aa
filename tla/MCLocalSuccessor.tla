-------------------------- MODULE MCLocalSuccessor --------------------------
(* Instances of LocalSuccessor for TLC. *)
EXTENDS LocalSuccessor, TLC

CONSTANTS p1, p2, i1, w1, w2, r1, r2, r3

MCSymmetry == Permutations(Procs) \cup Permutations(Ids) \cup Permutations(Watchers)
                \cup Permutations(Runs)
=============================================================================
