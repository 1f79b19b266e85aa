-------------------------- MODULE BindingAuthority --------------------------
(***************************************************************************)
(* What the binding protocol promises, without files, intents or crashes.  *)
(* A watcher instance has a ledger of binding decisions.  The newest one   *)
(* is in force, and a decision is a single atomic step.  A collection runs *)
(* under the decision in force, alone, and no decision is taken while it   *)
(* runs; it is committed under that same decision or abandoned.            *)
(***************************************************************************)
EXTENDS Naturals, Sequences

CONSTANTS Procs, Locks, NoLock

VARIABLES
    ledger,     \* the decisions: a lock, or NoLock for a revocation
    inflight,   \* the lock each engine is collecting under
    last        \* the most recent committed collection

vars == <<ledger, inflight, last>>

Current == IF ledger = <<>> THEN NoLock ELSE ledger[Len(ledger)]

Quiet == \A p \in Procs : inflight[p] = NoLock

Init ==
    /\ ledger = <<>>
    /\ inflight = [p \in Procs |-> NoLock]
    /\ last = [lock |-> NoLock, helper |-> NoLock, epoch |-> 0]

\* A lock is bound, or the one in force is revoked.
Bind(l) ==
    /\ Quiet
    /\ l = NoLock => Current # NoLock
    /\ ledger' = Append(ledger, l)
    /\ UNCHANGED <<inflight, last>>

Start(p) ==
    /\ Quiet
    /\ Current # NoLock
    /\ inflight' = [inflight EXCEPT ![p] = Current]
    /\ UNCHANGED <<ledger, last>>

\* The answer came from a helper bound to the lock in force, or from none.
Commit(p) ==
    /\ inflight[p] # NoLock
    /\ inflight[p] = Current
    /\ \E h \in {Current, NoLock} :
         last' = [lock |-> Current, helper |-> h, epoch |-> Len(ledger)]
    /\ inflight' = [inflight EXCEPT ![p] = NoLock]
    /\ UNCHANGED ledger

Abandon(p) ==
    /\ inflight[p] # NoLock
    /\ inflight' = [inflight EXCEPT ![p] = NoLock]
    /\ UNCHANGED <<ledger, last>>

Next ==
    \/ \E l \in Locks \cup {NoLock} : Bind(l)
    \/ \E p \in Procs : Start(p) \/ Commit(p) \/ Abandon(p)

Spec == Init /\ [][Next]_vars
=============================================================================
