------------------------------ MODULE MCBinding ------------------------------
(* Binding on a small instance: nqd's resident engine and a one-shot engine. *)
EXTENDS Binding

CONSTANTS nqd, nq, l1, l2
=============================================================================
