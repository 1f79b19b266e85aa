------------------------------- MODULE Binding -------------------------------
(***************************************************************************)
(* The admission binding of one watcher instance: the append-only binding  *)
(* events in the store, the active lock file and its archived copies in    *)
(* the admissions directory, the per-instance guard, and the persistent    *)
(* helper each engine keeps bound to a lock.  Engines are `nqd`'s resident *)
(* collection task and the one-shot engines that `nq` commands and the     *)
(* daemon's freshness sweep open.                                          *)
(*                                                                         *)
(* The binding event and its materialization intent are one transaction;   *)
(* the lock file follows in separate steps and a completion closes them.   *)
(* A process may die, or a call may fail, between any two of those steps.  *)
(*                                                                         *)
(* Source: crates/nq-core/src/{engine,admission,coordination}.rs,          *)
(* crates/nq-store/src/lib.rs and crates/nq-app/src/daemon.rs.             *)
(***************************************************************************)
EXTENDS Integers, Sequences, FiniteSets

CONSTANTS
    Procs,      \* the engines that may operate on the instance
    Resident,   \* those that live in nqd and keep a helper between collections
    Locks,      \* admission locks (each stands for its id and binding digest)
    NoLock,     \* no lock: an absent file, an unset option, no helper
    NoProc,     \* the guard is free
    MaxEvents,  \* bound: binding transitions considered
    MaxFaults   \* bound: process deaths and failed calls considered

ASSUME BindingAssumption ==
    /\ Resident \subseteq Procs
    /\ NoLock \notin Locks
    /\ NoProc \notin Procs
    /\ MaxEvents \in Nat
    /\ MaxFaults \in Nat

VARIABLES
    admissions, \* locks with a row in watcher_admissions
    events,     \* instance_binding_events, each with its intent
    completed,  \* indices of events whose materialization is completed
    active,     \* the lock in <admissions_dir>/<instance>.json
    activeDisk, \* what that directory entry is on stable storage
    history,    \* locks with a file under <admissions_dir>/history
    guard,      \* holder of the instance's flock
    pc,         \* the step each engine takes next
    op,         \* the operation it performs
    plan,       \* index of the event it is materializing
    recon,      \* whether that is a replay of someone's pending intent
    lock,       \* the lock it collects under or is about to bind
    prev,       \* the authoritative lock it resolved
    runner,     \* the lock its persistent helper is bound to
    helper,     \* the lock of the helper that answered its exchange
    last,       \* the most recent committed collection
    faults      \* deaths and failures so far

db    == <<admissions, events, completed>>
files == <<active, activeDisk, history>>
local == <<op, plan, recon, lock, prev, helper>>
vars  == <<db, files, guard, pc, local, runner, last, faults>>

MaybeLock == Locks \cup {NoLock}

Kinds == {"activate", "rollback", "revoke"}

Ops == {"collect", "sweep", "test", "admit", "rollback", "revoke"}

NoOp == "none"

\* The operations that append a binding event.
Transitions == {"admit", "rollback", "revoke"}

Steps == {"idle", "reconcile", "check", "archive", "write", "sync", "complete",
          "resolve", "dry", "append", "begin", "exchange", "commit", "finish"}

Event == [kind : Kinds, desired : MaybeLock, previous : MaybeLock]

Init ==
    /\ admissions = {}
    /\ events = <<>>
    /\ completed = {}
    /\ active = NoLock
    /\ activeDisk = NoLock
    /\ history = {}
    /\ guard = NoProc
    /\ pc = [p \in Procs |-> "idle"]
    /\ op = [p \in Procs |-> NoOp]
    /\ plan = [p \in Procs |-> 0]
    /\ recon = [p \in Procs |-> FALSE]
    /\ lock = [p \in Procs |-> NoLock]
    /\ prev = [p \in Procs |-> NoLock]
    /\ runner = [p \in Procs |-> NoLock]
    /\ helper = [p \in Procs |-> NoLock]
    /\ last = [lock |-> NoLock, helper |-> NoLock, epoch |-> 0]
    /\ faults = 0

-----------------------------------------------------------------------------
(* What the store says. *)

\* Events whose intent has no completion.
Pending == (1 .. Len(events)) \ completed

\* pending_binding_materialization: the oldest of them.
OldestPending == CHOOSE i \in Pending : \A j \in Pending : i <= j

\* The lock that the binding ledger makes current; a revoke leaves none.
Bound == IF events = <<>> THEN NoLock ELSE events[Len(events)].desired

\* authoritative_active_lock succeeds (with Bound) exactly when the active
\* file is what the newest binding event calls for.
Authoritative == active = Bound

-----------------------------------------------------------------------------
(* Helpers of the actions. *)

Goto(p, step) == pc' = [pc EXCEPT ![p] = step]

StopRunner(p) == runner' = [runner EXCEPT ![p] = NoLock]

\* The operation's local state goes out of scope.
Forget(p) ==
    /\ Goto(p, "idle")
    /\ op' = [op EXCEPT ![p] = NoOp]
    /\ plan' = [plan EXCEPT ![p] = 0]
    /\ recon' = [recon EXCEPT ![p] = FALSE]
    /\ lock' = [lock EXCEPT ![p] = NoLock]
    /\ prev' = [prev EXCEPT ![p] = NoLock]
    /\ helper' = [helper EXCEPT ![p] = NoLock]

\* The operation returns and drops the guard.  A resident engine keeps the
\* helper r; a one-shot engine is dropped, and its helper with it.
Return(p, r) ==
    /\ Forget(p)
    /\ guard' = NoProc
    /\ runner' = [runner EXCEPT ![p] = IF p \in Resident THEN r ELSE NoLock]

\* ... or it goes on with its next step, changing no more than its pc.
Continue(p, step) ==
    /\ Goto(p, step)
    /\ UNCHANGED <<guard, local, runner>>

\* Mutation: the guard is not waited for.
GuardIgnored == TRUE

\* InstanceGuard::acquire blocks until no other process holds the flock.
GuardFree == guard = NoProc

\* Mutation: a collection does not take the guard.
EnterCollectUnguarded(p, o) ==
    /\ pc[p] = "idle"
    /\ o # "collect" => GuardFree
    /\ p \in Resident => o = "collect"
    /\ o \in Transitions => Len(events) < MaxEvents
    /\ o = "admit" => admissions # Locks
    /\ guard' = IF o = "collect" THEN guard ELSE p
    /\ Goto(p, "reconcile")
    /\ op' = [op EXCEPT ![p] = o]
    /\ UNCHANGED <<db, files, plan, recon, lock, prev, helper, runner, last, faults>>

\* A resident engine only collects; everything else is a one-shot engine.
\* The bounds are on the operations that would use them up.
Enter(p, o) ==
    /\ pc[p] = "idle"
    /\ GuardFree
    /\ p \in Resident => o = "collect"
    /\ o \in Transitions => Len(events) < MaxEvents
    /\ o = "admit" => admissions # Locks
    /\ guard' = p
    /\ Goto(p, "reconcile")
    /\ op' = [op EXCEPT ![p] = o]
    /\ UNCHANGED <<db, files, plan, recon, lock, prev, helper, runner, last, faults>>

\* Mutation: a pending intent is left for someone else.
ReconcileSkipped(p) ==
    /\ pc[p] = "reconcile"
    /\ Continue(p, "resolve")
    /\ UNCHANGED <<db, files, last, faults>>

\* reconcile_pending_binding: a pending intent is replayed first.
Reconcile(p) ==
    /\ pc[p] = "reconcile"
    /\ \/ /\ Pending = {}
          /\ Continue(p, "resolve")
       \/ /\ Pending # {}
          /\ Goto(p, "check")
          /\ plan' = [plan EXCEPT ![p] = OldestPending]
          /\ recon' = [recon EXCEPT ![p] = TRUE]
          /\ UNCHANGED <<guard, op, lock, prev, runner, helper>>
    /\ UNCHANGED <<db, files, last, faults>>

-----------------------------------------------------------------------------
(* apply_binding_materialization, one action per file system effect. *)

\* The active file must be absent, or the plan's desired or previous lock;
\* anything else is an error that leaves the intent pending.
CurrentAgrees(p) ==
    active \in {NoLock, events[plan[p]].desired, events[plan[p]].previous}

CheckCurrent(p) ==
    /\ pc[p] = "check"
    /\ IF CurrentAgrees(p) THEN Continue(p, "archive") ELSE Return(p, runner[p])
    /\ UNCHANGED <<db, files, last, faults>>

\* archive_active_lock: the previous lock is copied under history/.
Archived(p) == {events[plan[p]].previous} \ {NoLock}

Archive(p) ==
    /\ pc[p] = "archive"
    /\ history' = history \cup Archived(p)
    /\ Continue(p, "write")
    /\ UNCHANGED <<db, active, activeDisk, last, faults>>

\* Mutation: a revocation leaves the active file.
WriteKeepsRevoked(p) ==
    /\ pc[p] = "write"
    /\ active' = IF events[plan[p]].desired = NoLock THEN active ELSE events[plan[p]].desired
    /\ Continue(p, "sync")
    /\ UNCHANGED <<db, activeDisk, history, last, faults>>

\* AdmissionManager::activate renames the desired lock into place; a revoke
\* removes the file.  Removing a file that is already gone skips the
\* directory sync.
Write(p) ==
    /\ pc[p] = "write"
    /\ active' = events[plan[p]].desired
    /\ Continue(p, IF active' = NoLock /\ active = NoLock THEN "complete" ELSE "sync")
    /\ UNCHANGED <<db, activeDisk, history, last, faults>>

\* The fsync of the admissions directory.
SyncDirectory(p) ==
    /\ pc[p] = "sync"
    /\ activeDisk' = active
    /\ Continue(p, "complete")
    /\ UNCHANGED <<db, active, history, last, faults>>

\* complete_binding_materialization.  A replay then stops the engine's own
\* helper and goes on with its operation; a transition is finished.
Complete(p) ==
    /\ pc[p] = "complete"
    /\ completed' = completed \cup {plan[p]}
    /\ IF recon[p]
         THEN StopRunner(p) /\ Goto(p, "resolve")
         ELSE UNCHANGED runner /\ Goto(p, "finish")
    /\ plan' = [plan EXCEPT ![p] = 0]
    /\ recon' = [recon EXCEPT ![p] = FALSE]
    /\ UNCHANGED <<admissions, events, files, guard, op, lock, prev, helper, last, faults>>

-----------------------------------------------------------------------------
(* The operations proper, after reconciliation. *)

\* collect_internal: without an authoritative lock, or when the lock no
\* longer verifies against the executable, profile and configuration, the
\* helper is stopped, a refusal is recorded and the collection ends.
ResolveCollect(p) ==
    /\ pc[p] = "resolve"
    /\ op[p] = "collect"
    /\ \/ Return(p, NoLock)
       \/ /\ Authoritative
          /\ Bound # NoLock
          /\ lock' = [lock EXCEPT ![p] = Bound]
          /\ Goto(p, "exchange")
          /\ UNCHANGED <<guard, runner, op, plan, recon, prev, helper>>
    /\ UNCHANGED <<db, files, last, faults>>

\* freshness_sweep evaluates retained evidence or refuses; the binding and
\* the helper are untouched.
ResolveSweep(p) ==
    /\ pc[p] = "resolve"
    /\ op[p] = "sweep"
    /\ Return(p, runner[p])
    /\ UNCHANGED <<db, files, last, faults>>

\* What authoritative_active_lock returned is kept as the plan's previous lock.
ResolvePrevious(p, step) ==
    /\ Authoritative
    /\ prev' = [prev EXCEPT ![p] = Bound]
    /\ Goto(p, step)
    /\ UNCHANGED <<guard, runner, op, plan, recon, helper>>

\* watcher_action "test" does not consult the binding ...
ResolveTest(p) ==
    /\ pc[p] = "resolve"
    /\ op[p] = "test"
    /\ Continue(p, "dry")
    /\ UNCHANGED <<db, files, last, faults>>

\* ... "admit" and "rotate" do.
ResolveAdmit(p) ==
    /\ pc[p] = "resolve"
    /\ op[p] = "admit"
    /\ \/ ResolvePrevious(p, "dry") /\ UNCHANGED lock
       \/ ~Authoritative /\ Return(p, runner[p])
    /\ UNCHANGED <<db, files, last, faults>>

\* The dry exchange of test and admit runs a helper bound to no lock.  It
\* passes (test is then done) or its failure ends the operation.
DryExchange(p) ==
    /\ pc[p] = "dry"
    /\ \/ op[p] = "admit" /\ Continue(p, "append")
       \/ Return(p, NoLock)
    /\ UNCHANGED <<db, files, last, faults>>

\* append_admission: a candidate lock with a fresh identity becomes durable.
AppendAdmission(p) ==
    /\ pc[p] = "append"
    /\ \E l \in Locks \ admissions :
         /\ admissions' = admissions \cup {l}
         /\ lock' = [lock EXCEPT ![p] = l]
    /\ Goto(p, "begin")
    /\ UNCHANGED <<events, completed, files, guard, op, plan, recon, prev, runner, helper,
                   last, faults>>

\* rollback_binding: any lock file that equals its durable admission, from
\* history or the active file itself.  It may fail to load or to verify.
ResolveRollback(p) ==
    /\ pc[p] = "resolve"
    /\ op[p] = "rollback"
    /\ \/ /\ \E l \in (history \cup {active}) \cap admissions :
               lock' = [lock EXCEPT ![p] = l]
          /\ ResolvePrevious(p, "begin")
       \/ Return(p, runner[p])
    /\ UNCHANGED <<db, files, last, faults>>

\* revoke_binding needs an authoritative lock to revoke.
ResolveRevoke(p) ==
    /\ pc[p] = "resolve"
    /\ op[p] = "revoke"
    /\ \/ /\ Bound # NoLock
          /\ ResolvePrevious(p, "begin")
          /\ UNCHANGED lock
       \/ /\ Bound = NoLock \/ ~Authoritative
          /\ Return(p, runner[p])
    /\ UNCHANGED <<db, files, last, faults>>

EventKind(o) == CASE o = "admit"    -> "activate"
                  [] o = "rollback" -> "rollback"
                  [] o = "revoke"   -> "revoke"

\* transition_binding: the binding event and the intent to materialize it are
\* one transaction, refused while another intent is pending.
Begin(p) ==
    /\ pc[p] = "begin"
    /\ \/ /\ Pending = {}
          /\ events' = Append(events, [kind |-> EventKind(op[p]), desired |-> lock[p],
                                       previous |-> prev[p]])
          /\ plan' = [plan EXCEPT ![p] = Len(events) + 1]
          /\ Goto(p, "check")
          /\ UNCHANGED <<guard, runner, op, recon, lock, prev, helper>>
       \/ /\ Pending # {}
          /\ Return(p, runner[p])
          /\ UNCHANGED events
    /\ UNCHANGED <<admissions, completed, files, last, faults>>

\* After the transition the engine's helper is stopped.
Finish(p) ==
    /\ pc[p] = "finish"
    /\ Return(p, NoLock)
    /\ UNCHANGED <<db, files, last, faults>>

\* Mutation: a running helper is used whatever it is bound to.
KeptRunnerStale(p) == runner[p]

\* run_unix_capture stops a helper that is bound to another lock.
KeptRunner(p) == IF runner[p] = lock[p] THEN runner[p] ELSE NoLock

\* A helper is launched for the lock unless one is kept.  The launch may
\* fail, and only a helper that answered is kept for the next collection.
Exchange(p) ==
    /\ pc[p] = "exchange"
    /\ \E serving \in {IF KeptRunner(p) = NoLock THEN lock[p] ELSE KeptRunner(p)},
          answered \in BOOLEAN, launched \in BOOLEAN :
         /\ KeptRunner(p) # NoLock => launched
         /\ answered => launched
         /\ runner' = [runner EXCEPT ![p] = IF answered THEN serving ELSE NoLock]
         /\ helper' = [helper EXCEPT ![p] = IF launched THEN serving ELSE NoLock]
    /\ Goto(p, "commit")
    /\ UNCHANGED <<db, files, guard, op, plan, recon, lock, prev, last, faults>>

\* The collection commits in one transaction, which requires the lock to be
\* the newest binding event's (validate_provider_admission).
Commit(p) ==
    /\ pc[p] = "commit"
    /\ last' = IF lock[p] = Bound
                 THEN [lock |-> lock[p], helper |-> helper[p], epoch |-> Len(events)]
                 ELSE last
    /\ Return(p, runner[p])
    /\ UNCHANGED <<db, files, faults>>

-----------------------------------------------------------------------------
(* Faults and the daemon's binding watch. *)

\* Any call under the guard may fail; the error returns through `?`.
Fail(p) ==
    /\ pc[p] # "idle"
    /\ faults < MaxFaults
    /\ faults' = faults + 1
    /\ Return(p, runner[p])
    /\ UNCHANGED <<db, files, last>>

\* The process dies (and is restarted): the kernel drops its flock and kills
\* its helper.
Crash(p) ==
    /\ faults < MaxFaults
    /\ faults' = faults + 1
    /\ guard' = IF guard = p THEN NoProc ELSE guard
    /\ Forget(p)
    /\ StopRunner(p)
    /\ UNCHANGED <<db, files, last>>

\* quiesce_if_binding_changed, between collections and without the guard:
\* the helper is stopped when the active file no longer holds its lock.
Watch(p) ==
    /\ p \in Resident
    /\ pc[p] = "idle"
    /\ runner[p] \notin {NoLock, active}
    /\ StopRunner(p)
    /\ UNCHANGED <<db, files, guard, pc, local, last, faults>>

-----------------------------------------------------------------------------
Apply(p) == CheckCurrent(p) \/ Archive(p) \/ Write(p) \/ SyncDirectory(p) \/ Complete(p)

Resolve(p) ==
    \/ ResolveCollect(p)
    \/ ResolveSweep(p)
    \/ ResolveTest(p)
    \/ ResolveAdmit(p)
    \/ ResolveRollback(p)
    \/ ResolveRevoke(p)

\* What an engine that holds the guard does next.
Step(p) ==
    \/ Reconcile(p)
    \/ Apply(p)
    \/ Resolve(p)
    \/ DryExchange(p)
    \/ AppendAdmission(p)
    \/ Begin(p)
    \/ Finish(p)
    \/ Exchange(p)
    \/ Commit(p)

Next == \E p \in Procs :
    \/ \E o \in Ops : Enter(p, o)
    \/ Step(p)
    \/ Fail(p)
    \/ Crash(p)
    \/ Watch(p)

Spec == Init /\ [][Next]_vars

\* An engine that is running goes on; nqd collects at every interval, so its
\* flock request is granted again and again; the watch polls every 250 ms.
Fairness ==
    /\ \A p \in Procs : WF_vars(Step(p))
    /\ \A p \in Resident : SF_vars(Enter(p, "collect"))
    /\ \A p \in Resident : WF_vars(Watch(p))

FairSpec == Spec /\ Fairness

-----------------------------------------------------------------------------
(* Correctness. *)

\* Every variable stays in its domain.
TypeOK ==
    /\ admissions \subseteq Locks
    /\ events \in Seq(Event)
    /\ completed \subseteq 1 .. Len(events)
    /\ active \in MaybeLock
    /\ activeDisk \in MaybeLock
    /\ history \subseteq Locks
    /\ guard \in Procs \cup {NoProc}
    /\ pc \in [Procs -> Steps]
    /\ op \in [Procs -> Ops \cup {NoOp}]
    /\ plan \in [Procs -> Nat]
    /\ recon \in [Procs -> BOOLEAN]
    /\ lock \in [Procs -> MaybeLock]
    /\ prev \in [Procs -> MaybeLock]
    /\ runner \in [Procs -> MaybeLock]
    /\ helper \in [Procs -> MaybeLock]
    /\ last \in [lock : MaybeLock, helper : MaybeLock, epoch : Nat]
    /\ faults \in 0 .. MaxFaults

\* When no intent is pending, the active lock file is exactly what the newest
\* binding event calls for: a completion is never recorded over a file that
\* says something else (transition_binding, reconcile_pending_binding).
MaterializationAgrees == Pending = {} => Authoritative

\* Recovery never wedges.  However processes die, replaying an intent never
\* meets a foreign lock file ("changed outside its pending materialization"),
\* an engine that has reconciled never finds drift in
\* authoritative_active_lock, and none is refused a transition because of
\* someone's pending intent.
RecoveryNeverStuck == \A p \in Procs :
    /\ pc[p] = "check" => CurrentAgrees(p)
    /\ pc[p] = "resolve" => Authoritative
    /\ pc[p] = "begin" => Pending = {}

\* From the moment collect_internal has resolved its lock until it commits,
\* that lock stays the newest binding event's and the materialized one, and
\* no transition is half done.
CollectsUnderBinding == \A p \in Procs :
    pc[p] \in {"exchange", "commit"} =>
        /\ lock[p] = Bound
        /\ lock[p] = active
        /\ Pending = {}

\* A committed collection names the lock that was in force when it committed,
\* and the helper that answered, if one did, was bound to that very lock and
\* not to one that a rotation or revocation has since replaced.
CollectionIsGenuine ==
    last.epoch # 0 =>
        /\ last.lock # NoLock
        /\ last.lock = events[last.epoch].desired
        /\ last.helper \in {last.lock, NoLock}

\* No lock is lost: every lock whose binding was materialized still has a
\* file to roll back to, as the active lock or under history/.
LocksRetained == \A i \in completed :
    events[i].desired \in history \cup {active, NoLock}

\* The active file changes only under the guard, only while an intent is
\* pending, and only from its previous lock (or nothing) to its desired one.
ActiveFollowsLedger ==
    [][active' # active =>
        /\ guard # NoProc
        /\ Pending = {Len(events)}
        /\ active \in {NoLock, events[Len(events)].previous}
        /\ active' = Bound]_vars

\* A binding transition that some process left half done is completed by a
\* later holder of the guard.
PendingIsReplayed == Pending # {} ~> Pending = {}

\* A resident helper bound to a lock that is no longer in force is stopped,
\* by the binding watch or by the next collection.
StaleHelperStops == \A p \in Resident :
    runner[p] \notin {NoLock, Bound} ~> runner[p] \in {NoLock, Bound}

-----------------------------------------------------------------------------
\* The protocol implements the atomic binding ledger: the transaction that
\* inserts the event and the intent is the decision, and a collection is in
\* flight from the resolution of its lock to its commit.
Ledger == [i \in 1 .. Len(events) |-> events[i].desired]

Inflight == [p \in Procs |-> IF pc[p] \in {"exchange", "commit"} THEN lock[p] ELSE NoLock]

Authority == INSTANCE BindingAuthority WITH ledger <- Ledger, inflight <- Inflight

\* Every behaviour of the protocol, crashes included, is one of the ledger's.
ImplementsAuthority == Authority!Spec
=============================================================================
