------------------------------ MODULE MCCarrier ------------------------------
(***************************************************************************)
(* Two collections of one watcher, over either carrier, with a helper that   *)
(* misbehaves up to twice and one replacement of the lock.                   *)
(***************************************************************************)
EXTENDS Carrier
==============================================================================
