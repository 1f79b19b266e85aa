--------------------------- MODULE LocalSuccessor ---------------------------
(***************************************************************************)
(* Diagnostic acquisition on one watcher instance: `diagnostics execute`,  *)
(* `diagnostics acquire-next-local` with its caller-named acquisition, its *)
(* read-only replay, and nqd's ordinary collections, run by several        *)
(* processes on one store.  The acquisition looks its identity up without  *)
(* the instance guard; the fence that precedes the helper is a transaction *)
(* of its own under the guard, the collection with its artifact is another *)
(* and the terminal event a third, after the guard is dropped.             *)
(*                                                                         *)
(* The store is the sequence of its committed transactions.  Each write    *)
(* first checkpoints the WAL, so all earlier commits are then on stable    *)
(* storage, but its own commit is `synchronous=NORMAL`: a process death    *)
(* loses nothing, a power loss may lose the newest commit.                 *)
(*                                                                         *)
(* Source: crates/nq-core/src/engine.rs, crates/nq-store/src/lib.rs.       *)
(***************************************************************************)
EXTENDS Integers, Sequences, FiniteSets

CONSTANTS
    Procs,      \* processes that may run a command
    Ids,        \* acquisition identities a caller may name
    Watchers,   \* revisions of the watcher's configuration
    Runs,       \* run identities (UUIDs drawn by collect_internal)
    NoProc,     \* the guard is free
    None,       \* no identity, no run
    MaxFaults,  \* bound: process deaths and failed calls considered
    MaxLosses   \* bound: power losses considered

ASSUME SuccessorAssumption ==
    /\ NoProc \notin Procs
    /\ None \notin Ids \cup Watchers \cup Runs
    /\ MaxFaults \in Nat
    /\ MaxLosses \in Nat

VARIABLES
    log,        \* committed transactions, in order
    synced,     \* how many of them are on stable storage
    guard,      \* holder of the instance's flock
    pc,         \* the step each process takes next
    op,         \* its command
    id,         \* the acquisition it names
    watcher,    \* the configuration it loaded
    run,        \* the run it drew
    drawn,      \* every run identity drawn so far
    invoked,    \* <<id, run>> for every helper invocation
    delivered,  \* artifacts handed to callers
    faults,
    losses

db    == <<log, synced>>
local == <<op, id, watcher, run>>
vars  == <<db, guard, pc, local, drawn, invoked, delivered, faults, losses>>

Ops == {"execute", "acquire", "replay", "collect"}

Steps == {"idle", "lookup", "guard", "prepare", "fence", "invoke", "commit", "complete"}

\* local_successor_acquisition_intents with its first event, the collection
\* transaction, and the terminal event.
Fence      == [kind : {"fence"}, id : Ids, watcher : Watchers, run : Runs]
Collection == [kind : {"collection"}, run : Runs, admitted : BOOLEAN, artifact : BOOLEAN]
Completion == [kind : {"complete"}, id : Ids, run : Runs]

Delivery == [id : Ids \cup {None}, watcher : Watchers, run : Runs]

Init ==
    /\ log = <<>>
    /\ synced = 0
    /\ guard = NoProc
    /\ pc = [p \in Procs |-> "idle"]
    /\ op = [p \in Procs |-> "collect"]
    /\ id = [p \in Procs |-> None]
    /\ watcher = [p \in Procs |-> None]
    /\ run = [p \in Procs |-> None]
    /\ drawn = {}
    /\ invoked = {}
    /\ delivered = {}
    /\ faults = 0
    /\ losses = 0

-----------------------------------------------------------------------------
(* What the store says. *)

Rows(kind) == {log[n] : n \in {m \in 1 .. Len(log) : log[m].kind = kind}}

\* local_successor_acquisition: the intents with this identity.
Intents(i) == {f \in Rows("fence") : f.id = i}

\* validate_local_successor_terminal_phases: started and completed.
Terminal(i) == \E c \in Rows("complete") : c.id = i

\* diagnostic_artifact_id_for_run.
HasArtifact(r) == \E c \in Rows("collection") : c.run = r /\ c.artifact

\* evaluation_context_rows: admitted reports that match the watcher.
Matching == {c \in Rows("collection") : c.admitted}

-----------------------------------------------------------------------------
(* Helpers of the actions. *)

Goto(p, step) == pc' = [pc EXCEPT ![p] = step]

Forget(p) ==
    /\ op' = [op EXCEPT ![p] = "collect"]
    /\ id' = [id EXCEPT ![p] = None]
    /\ watcher' = [watcher EXCEPT ![p] = None]
    /\ run' = [run EXCEPT ![p] = None]

\* The command ends; if it holds the guard, the guard is dropped.
Return(p) ==
    /\ Goto(p, "idle")
    /\ Forget(p)
    /\ guard' = IF guard = p THEN NoProc ELSE guard

Deliver(p, r) ==
    delivered' = delivered \cup {[id |-> id[p], watcher |-> watcher[p], run |-> r]}

\* Mutation: the WAL is not checkpointed before a write.
CommitsUnsynced(row) == log' = Append(log, row) /\ UNCHANGED synced

\* write_guard checkpoints the WAL, then an IMMEDIATE transaction commits.
Commits(row) == log' = Append(log, row) /\ synced' = Len(log)

-----------------------------------------------------------------------------
(* The commands. *)

\* An acquisition and a replay start with a look at the store, the others
\* with the guard.
Call(p, o, i, w) ==
    /\ pc[p] = "idle"
    /\ (i = None) <=> (o \in {"execute", "collect"})
    /\ op' = [op EXCEPT ![p] = o]
    /\ id' = [id EXCEPT ![p] = i]
    /\ watcher' = [watcher EXCEPT ![p] = w]
    /\ Goto(p, IF i = None THEN "guard" ELSE "lookup")
    /\ UNCHANGED <<db, guard, run, drawn, invoked, delivered, faults, losses>>

\* An existing acquisition is reopened only for the watcher configuration it
\* was bound to, with both its phases and with its artifact.
Reopens(p, f) ==
    /\ f.watcher = watcher[p]
    /\ Terminal(f.id)
    /\ HasArtifact(f.run)

\* The identity is in use: it is never dispatched again.
Known(i) == Intents(i) # {}

\* diagnostic_acquire_successor_local and diagnostic_replay_local_successor,
\* up to collect_internal.
Lookup(p) ==
    /\ pc[p] = "lookup"
    /\ \/ /\ Known(id[p])
          /\ \/ \E f \in Intents(id[p]) : Reopens(p, f) /\ Deliver(p, f.run)
             \/ /\ \A f \in Intents(id[p]) : ~Reopens(p, f)
                /\ UNCHANGED delivered
          /\ Return(p)
       \/ /\ ~Known(id[p])
          /\ op[p] = "replay"
          /\ Return(p)
          /\ UNCHANGED delivered
       \/ /\ ~Known(id[p])
          /\ op[p] = "acquire"
          /\ Goto(p, "guard")
          /\ UNCHANGED <<guard, local, delivered>>
    /\ UNCHANGED <<db, drawn, invoked, faults, losses>>

\* Mutation: the guard is not waited for.
GuardIgnored == TRUE

\* InstanceGuard::acquire.
GuardFree == guard = NoProc

Acquire(p) ==
    /\ pc[p] = "guard"
    /\ GuardFree
    /\ guard' = p
    /\ Goto(p, "prepare")
    /\ UNCHANGED <<db, local, drawn, invoked, delivered, faults, losses>>

\* require_empty_diagnostic_history, require_prior_diagnostic_history.
HistoryAllows(p) ==
    /\ op[p] = "execute" => Matching = {}
    /\ op[p] = "acquire" => Matching # {}

\* collect_internal up to the helper: the evaluator identity, the history,
\* the binding and the lock may each refuse, and nothing was dispatched then.
\* Run identities are random UUIDs, so one is never drawn twice.
Prepare(p) ==
    /\ pc[p] = "prepare"
    /\ \/ Return(p) /\ UNCHANGED drawn
       \/ /\ HistoryAllows(p)
          /\ \E r \in Runs \ drawn :
               /\ run' = [run EXCEPT ![p] = r]
               /\ drawn' = drawn \cup {r}
          /\ Goto(p, IF op[p] = "acquire" THEN "fence" ELSE "invoke")
          /\ UNCHANGED <<guard, op, id, watcher>>
    /\ UNCHANGED <<db, invoked, delivered, faults, losses>>

\* Mutation: a fence with the same identity is not looked for.
FenceFreeUnchecked(i, r) == TRUE

\* The fence's transaction finds no row with this identity; one that another
\* process inserted names another run and is a replay conflict.
FenceFree(i, r) == \A f \in Intents(i) : f.run = r

\* commit_local_successor_dispatch.
CommitDispatch(p) ==
    /\ pc[p] = "fence"
    /\ \/ /\ FenceFree(id[p], run[p])
          /\ Commits([kind |-> "fence", id |-> id[p], watcher |-> watcher[p], run |-> run[p]])
          /\ Goto(p, "invoke")
          /\ UNCHANGED <<guard, local>>
       \/ /\ ~FenceFree(id[p], run[p])
          /\ Return(p)
          /\ UNCHANGED db
    /\ UNCHANGED <<drawn, invoked, delivered, faults, losses>>

\* run_capture: the helper observes the host.
Invoke(p) ==
    /\ pc[p] = "invoke"
    /\ invoked' = invoked \cup {<<id[p], run[p]>>}
    /\ Goto(p, "commit")
    /\ UNCHANGED <<db, guard, local, drawn, delivered, faults, losses>>

\* require_fresh_diagnostic_snapshot, require_successor_diagnostic_snapshot:
\* what the history must still be inside the transaction of an admitted report.
SnapshotAllows(p) ==
    /\ op[p] = "execute" => Matching = {}
    /\ op[p] = "acquire" => Matching # {}

\* A diagnostic command emits an artifact whatever the outcome; a collection
\* emits none.
Emits(p, admitted) == op[p] # "collect"

\* collect_internal returns and drops the guard.  `execute` reopens its
\* artifact; an acquisition has its terminal event to append.
Collected(p) ==
    \/ /\ op[p] = "acquire"
       /\ Goto(p, "complete")
       /\ guard' = IF guard = p THEN NoProc ELSE guard
       /\ UNCHANGED <<local, delivered>>
    \/ /\ op[p] = "execute"
       /\ Deliver(p, run[p])
       /\ Return(p)
    \/ /\ op[p] = "collect"
       /\ UNCHANGED delivered
       /\ Return(p)

\* The collection commits with its result: an admitted report, or a refused
\* or failed acquisition.  A report that the history no longer allows is an
\* error, and the transaction rolls back.
CommitCollection(p) ==
    /\ pc[p] = "commit"
    /\ \/ /\ \E admitted \in BOOLEAN :
               /\ admitted => SnapshotAllows(p)
               /\ Commits([kind |-> "collection", run |-> run[p], admitted |-> admitted,
                           artifact |-> Emits(p, admitted)])
          /\ Collected(p)
       \/ /\ ~SnapshotAllows(p)
          /\ Return(p)
          /\ UNCHANGED <<db, delivered>>
    /\ UNCHANGED <<drawn, invoked, faults, losses>>

\* complete_local_successor_acquisition checks the intent, the artifact and
\* the intake of its run, appends the terminal event and reopens the artifact.
CompleteAcquisition(p) ==
    /\ pc[p] = "complete"
    /\ \/ /\ \E f \in Intents(id[p]) : f.run = run[p] /\ HasArtifact(f.run)
          /\ Commits([kind |-> "complete", id |-> id[p], run |-> run[p]])
          /\ Deliver(p, run[p])
       \/ /\ \A f \in Intents(id[p]) : ~(f.run = run[p] /\ HasArtifact(f.run))
          /\ UNCHANGED <<db, delivered>>
    /\ Return(p)
    /\ UNCHANGED <<drawn, invoked, faults, losses>>

-----------------------------------------------------------------------------
(* Faults. *)

\* The process dies, or a call of it fails: its guard is dropped, the store
\* keeps every committed transaction.
Stop(p) ==
    /\ pc[p] # "idle"
    /\ faults < MaxFaults
    /\ faults' = faults + 1
    /\ Return(p)
    /\ UNCHANGED <<db, drawn, invoked, delivered, losses>>

\* Any other write to the store, or `checkpoint_wal`, checkpoints the WAL.
Checkpoint ==
    /\ synced < Len(log)
    /\ synced' = Len(log)
    /\ UNCHANGED <<log, guard, pc, local, drawn, invoked, delivered, faults, losses>>

\* The host loses power: a commit after the last sync may be lost, and every
\* process is gone.
PowerLoss ==
    /\ losses < MaxLosses
    /\ losses' = losses + 1
    /\ \E n \in synced .. Len(log) : log' = SubSeq(log, 1, n) /\ synced' = n
    /\ guard' = NoProc
    /\ pc' = [p \in Procs |-> "idle"]
    /\ op' = [p \in Procs |-> "collect"]
    /\ id' = [p \in Procs |-> None]
    /\ watcher' = [p \in Procs |-> None]
    /\ run' = [p \in Procs |-> None]
    /\ UNCHANGED <<drawn, invoked, delivered, faults>>

-----------------------------------------------------------------------------
Step(p) ==
    \/ Lookup(p)
    \/ Acquire(p)
    \/ Prepare(p)
    \/ CommitDispatch(p)
    \/ Invoke(p)
    \/ CommitCollection(p)
    \/ CompleteAcquisition(p)

Next ==
    \/ \E p \in Procs :
         \/ \E o \in Ops, i \in Ids \cup {None}, w \in Watchers : Call(p, o, i, w)
         \/ Step(p)
         \/ Stop(p)
    \/ Checkpoint
    \/ PowerLoss

Spec == Init /\ [][Next]_vars

-----------------------------------------------------------------------------
(* Correctness. *)

\* Every variable stays in its domain.
TypeOK ==
    /\ log \in Seq(Fence \cup Collection \cup Completion)
    /\ synced \in 0 .. Len(log)
    /\ guard \in Procs \cup {NoProc}
    /\ pc \in [Procs -> Steps]
    /\ op \in [Procs -> Ops]
    /\ id \in [Procs -> Ids \cup {None}]
    /\ watcher \in [Procs -> Watchers \cup {None}]
    /\ run \in [Procs -> Runs \cup {None}]
    /\ drawn \subseteq Runs
    /\ invoked \subseteq (Ids \cup {None}) \X Runs
    /\ delivered \subseteq Delivery
    /\ faults \in 0 .. MaxFaults
    /\ losses \in 0 .. MaxLosses

Invocations(i) == {x \in invoked : x[1] = i}

\* A caller-named acquisition invokes its helper at most once, whichever
\* processes race for it or die, as long as the store keeps its commits; and
\* each power loss can add no more than one invocation.
InvocationsBounded == \A i \in Ids : Cardinality(Invocations(i)) <= 1 + losses

\* Every caller of one acquisition that gets an artifact, first or replaying,
\* before or after a power loss, gets that of the same run, under the same
\* watcher configuration, and the helper did run for it.
DeliveriesAgree == \A d, e \in delivered :
    /\ <<d.id, d.run>> \in invoked
    /\ d.id # None /\ d.id = e.id => d.run = e.run /\ d.watcher = e.watcher

\* The history that allowed a dispatch still allows the commit: no process
\* invokes a helper only to find that its report cannot be admitted.
HistoryStillAllows == \A p \in Procs : pc[p] \in {"fence", "invoke", "commit"} =>
    SnapshotAllows(p)

\* The acquisition whose collection committed can always be completed: its
\* intent is the one that this process inserted and its run has an artifact.
CompletionNeverRefused == \A p \in Procs : pc[p] = "complete" =>
    \E f \in Intents(id[p]) : f.run = run[p] /\ HasArtifact(f.run)
=============================================================================
