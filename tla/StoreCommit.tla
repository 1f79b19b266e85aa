---------------------------- MODULE StoreCommit ----------------------------
(***************************************************************************)
(* Commits of the store's write-ahead log.  A write transaction first       *)
(* truncates the WAL into the database file (checkpoint_before_write), which *)
(* puts every earlier commit on stable storage, and its own commit is        *)
(* synchronous=NORMAL: a process death loses nothing, a power loss may lose   *)
(* the newest commit and only that.                                          *)
(*                                                                          *)
(* Source: crates/nq-store/src/lib.rs, crates/nq-store/src/capacity.rs.      *)
(***************************************************************************)
EXTENDS Naturals

CONSTANT MaxLosses    \* bound: power losses considered

ASSUME LossesAssumption == MaxLosses \in Nat

VARIABLES
    db,      \* the tables, as every connection reads them
    disk,    \* the tables without the newest commit
    losses   \* power losses so far

storeVars == <<db, disk, losses>>

\* The tables without the newest commit matter while a loss is still to come.
Commit(new) ==
    /\ db' = new
    /\ disk' = IF losses < MaxLosses THEN db ELSE new
    /\ UNCHANGED losses

\* Every process dies with the machine; the callers say which ones there are.
LoseNewestCommit ==
    /\ losses < MaxLosses
    /\ losses' = losses + 1
    /\ \E kept \in {db, disk} : db' = kept /\ disk' = kept

=============================================================================
