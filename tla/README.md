# A TLA+ verification of constellation-nq

NQ ("nq-ng") collects evidence from configured watchers, keeps it in one SQLite
store, evaluates it into findings, retires aged history, notifies, and lets an
operator bind, rotate and revoke the helper programs that produce the evidence.
This directory holds TLA+ models of its protocols, TLC configurations that check
them on small instances, and TLAPS proofs.  `PROJECT.json` maps every definition
to the source lines it models.

## The system and where it is modelled

Several processes work on one store: the daemon `nqd` (one collection loop per
watcher, a freshness sweep, a read API) and any number of one-shot `nq`
commands.  They meet in a per-instance `flock`, in the store's capacity lock and
its SQLite transactions, in the admissions directory with its lock files, and in
the validation watermark beside the database.  A collection launches or asks a
helper process, which reads its host and answers with one report.

| Part of the system | Source | Modules |
| --- | --- | --- |
| Admission binding of an instance | nq-core `engine.rs`, `admission.rs`, `coordination.rs` | `Binding`, abstract `BindingAuthority`, `BindingProofs` |
| Diagnostic execution and `acquire-next-local` | nq-core `engine.rs`, nq-store `lib.rs` | `LocalSuccessor`, `LocalSuccessorProofs` |
| Collections, evaluations, findings and the validation of a history | nq-core `engine.rs`, `provider_intake.rs`, nq-store `lib.rs` | `Outcomes`, `Evaluation`, `StoreRows`, `StoreValidation`, `EngineValidation`, composed in `Ledger` |
| Expiry and its validators | nq-store `retention.rs`, nq-core `engine.rs` | `Retention` |
| Validation watermark | nq-store `history_scope.rs`, `retention.rs`, nq-core `engine.rs` | `Certification` over `StoreCommit`, `CertificationProofs` |
| Notifications, saved checks, rollover eligibility | nq-app `notification.rs`, `saved_check.rs`, `rollover.rs`, nq-store `lib.rs` | `Notification`, `SavedCheck`, composed in `Custody` over `StoreCommit`; `CustodyProofs` |
| Identification and launch of helpers | nq-core `identity.rs`, `runtime.rs`, nq-helper-sandbox | `Runtime`, `Launch`, `LaunchProofs` |
| The stdio and Unix carriers | nq-core `runner.rs`, `unix_runner.rs` | `Carrier`, `CarrierProofs` |
| Capacity, upgrade, archive, backup, restore, carry, daemon stop | nq-store `capacity.rs`, `lib.rs`, nq-app `cli.rs`, `archive.rs`, `daemon.rs` | `Capacity`, `StoreFile`, `Maintenance`; `MaintenanceProofs`, `MaintenanceSizes` |
| Wire protocol, profiles, detectors, helper programs | nq-protocol, nq-profiles, the four helper crates | `Wire`, `Profiles`, `ProfileLaws`, `Detection`, `Helpers`, composed in `Testimony` |

An `MC` module gives the constants of its component for TLC.

Not modelled: read-only projections and rendering (API, CLI output, the fixed
queue, docket and purpose support), construction and validation of diagnostic
artifacts, the qualification documents, configuration parsing, account look-up
and file modes, the `nq.conformance` echo profile and the Git-status evidence
format.  They are pure functions of documents or system calls that share no
state with a protocol.  The components in `PROJECT.json` say what a part that is
modelled leaves out.

## The modules

### Binding, BindingAuthority

One instance, several engines (`Procs`; those in `Resident` live in `nqd` and
keep a helper between collections).  `events` are the rows of
`instance_binding_events`, each with its materialization intent, `completed`
those whose intent has a completion.  `active`, `activeDisk` and `history` are
the lock file, what its directory entry is on stable storage, and the archived
copies.  Every operation takes the guard (`Enter`), replays a pending intent
(`Reconcile`), resolves what it works on (`Resolve*`), and either collects
(`Exchange`, `Commit`) or binds (`AppendAdmission`, `Begin`, then `CheckCurrent`,
`Archive`, `Write`, `SyncDirectory`, `Complete`).  `Fail` is an error return and
`Crash` a process death between any two steps; `Watch` is the daemon's binding
watch, which runs without the guard.  There is no power loss in this model.

`BindingAuthority` is what the protocol promises: an atomic ledger of locks and
collections that start and finish under the newest one.  The mapping sends
`ledger` to the desired locks of the events and `inflight` to the lock of an
engine between its resolution and its commit.

### LocalSuccessor

`log` is the sequence of committed transactions of the store and `synced` how
many are on stable storage: each write transaction checkpoints the WAL first and
commits with `synchronous=NORMAL`, so a power loss may take the newest commit
and no other.  A call looks its identity up without the guard (`Lookup`), takes
it, reads the history, commits the fence, invokes the helper, commits the
collection with its artifact and, after the guard is dropped, the terminal
event.  Artifacts are abstracted to the run they describe.

### The Ledger group

`Outcomes` has the result carriers of a collection, `Evaluation` what an
evaluation computes and the replay that checks it, `StoreRows` the append
operations with what each refuses, `StoreValidation` and `EngineValidation` what
the two layers check of a committed history.  `Ledger` runs one worker per
instance, each with its own store handle and scope of validation, with
admissions and rotations at any time, either evaluator, sweeps, and a reader that takes a status
snapshot in several reads.  An admission is one append here.  A digest is the
value it is computed from.

### Retention

What a row says is recorded once (`runs`, `statuses`, `evals`); `db` is which
rows still exist, whole or compact, and the floors.  `CollectAdmitted`,
`CollectNonSuccess`, `Sweep` and `RecordStatus` append; `EnqueueNotification`
and `EndCustody` open and close a delivery; `Expire` plans (`PlanExpiry`,
a fixpoint as in `plan_expiry`), deletes and compacts, and validates the result
as the code does before it commits (`failed` records an integrity failure).
Rows are stamped in commit order; `Passed` is the assumption that the clock
does not go back between expiries, which `ClockSteps` drops.  Validation is the
unscoped one.  Saved-check roots and the retired lineage floors are left out.

### StoreCommit, Notification, SavedCheck, Custody

`StoreCommit` has the store's commit and the loss of its newest commit; `disk`
is tracked only while a loss is still to come.  `Notification` has the commands
`submit`, `deliver-local` and `resubmit`: retain the record, claim, send, record
the outcome, each its own transaction and no lock around them.  `sent` counts
the requests that may have left.  Clock readings strictly increase.  Submitting
merges reading the file, the identity look-up and the stamp; resubmitting
merges its status reads.  The owner's replay of a Nightshift record passes or
fails.  `SavedCheck` has `install` and `evaluate`: claim, read the target, append
the result.  A step that fails and a process that dies are one action.
`Custody` composes them and adds the rollover inspection, which is a function of
the records.  The bound is on the commands begun.

NOTIFICATIONS.md says a pending record means that no attempt was claimed; after a
power loss that took the claim this is not so, and `RecordsAreHonest` is stated
with that exception.

### Certification

A watermark is the generation it holds under, a frontier (the highest covered
rowid of each table), an accumulator (here the set of covered elements, in the
code the sum of their digests) and the evaluation heads.  Two tables stand for
the forty: `evaluations`, whose newest row of each lineage is never retired, and
`runs`, whose highest rows may be, so that their rowids are taken again.  `Open`
and `OpenValidatingFully` are the two writable opens (they hold the store's
operation lock throughout), `ValidateEngineOpenHistory` and
`ValidateFullyAndRecord` what follows; `ObserveRetentionBoundary` is read before
the write transaction of `CommitValidated` or of an expiry.  An expiry validates
and promotes in a read snapshot (`ExpireProve`), is refused if the store changed
(`ExpireCommit`), commits, and outside the guard checks and replaces the sidecar
(`PrepareCarried`, `PublishCarried`).  Which rows an expiry retires is left open,
within what `Retention` allows.  `proven` is a history variable: the rows that an
open or a promotion validated.  Finding-lineage heads and a failing semantic
validation are left out; store rules and genesis are constant.

### Runtime, Launch

`Runtime` finds the loader and the shared objects a program needs by reading the
objects, and refuses a host with a global preload file.  `Launch` identifies the configured command, compares it with the
admitted identity, copies every artifact into a sealed snapshot and forks a child
that isolates itself before it executes.  The closure is found of the snapshots of
the programs (`DiscoverForRetained`) and compared with what the loader lists for
each (`ListedAsFound`); before every spawn it is found again.  `Restart` reaps the
helper and spawns another from the snapshots already held; one that fails ends the
launch, as any failure does.  Several threads launch while a
deployment replaces files or rewrites them in place, and the daemon may die.  A
digest is the content; a time stamp is as coarse as the file system's, so a
rewrite need not move it.  An interpreter line
is followed at most twice (`MaxChainDepth`).

### Carrier

One watcher over either carrier.  The helper is an arbitrary program: it may be
late, answer twice or in pieces, flood, hang up, fork, let a descendant serve, or
exit.  `call` is where the daemon's thread is in an exchange, `up` and `down` the
bytes under way as pieces, `alive` the processes by group, `under` the lock each
group was launched under.

`files` are the inodes made for the socket path and `socket` the one it names.  The
helper's account may write to the directory, so the helper, a descendant, or a
helper of another watcher that runs as the same account (a sibling) may bind,
unlink and rename there between any two looks of the daemon, which are steps of
their own: the polling look, the three steps of `take_unix_socket_custody`, the
connect by path, and `verify_peer`.  Custody therefore does not bind the connect
that follows it; what the connection reached is settled by the peer's credentials
alone, which are those of the process that called `listen`.  They say that the
daemon's own child put the connection up.  They do not say who writes on it: a
descendant that inherited the descriptor may, and is of the same group, and bytes
the helper relays, or a connection it hands to a process outside, count as its own.
The directory is modelled while the daemon reads it.

### Capacity, StoreFile, Maintenance

`Capacity` has `derive` and `preflight` with the code's constants in bytes,
`StoreFile` the guard, the two rechecks and the fold before every write, and the
growth of main file, log and shared memory.  `Maintenance` runs the daemon and
one operator command (upgrade from version 3, archive or backup, restore, carry)
beside writers of an older version, a second operator, long readers and other
users of the device, with kills between any two steps.  A migration grows the store
by `MigrationPages`; only the copies of a store of version 5 or later are compared with
it, and only a store found at version 3, 4 or 5 is opened once more
by its configuration when the upgrade has validated it.  The second operator declares
a maintenance window beside a carry in three steps (`DeclareBegins`,
`DeclareTruncates`, `DeclareMaintenance`).  A command that fails may be run again.  SQLite's own limit of 2^32 - 2 pages is left out of the page ceiling:
no device of the models, or of today, reaches it before its bytes run out.

### Wire, Profiles, ProfileLaws, Detection, Helpers, Testimony

NQ sends a request; the helper refuses it or reads its host step by step while
the host changes, and answers once; NQ decodes the answer, checks exchange and
profile, and retains the report; a detector concludes from the newest report at a
later reading of the clock.  `Wire` has framing and the validation both ends
share, `Profiles` and `ProfileLaws` the descriptors and laws of the nine profiles
that read something, `Detection` the detectors, `Helpers` the reads of each helper
with the checks between them.  A read may fail with any code the helper has for it,
or come too late; the time a query of the system manager may take is found once and
counts from before its connect.  Clocks pass and are set, and can always be read.  Sizes are units, digests are the values themselves, and D-Bus and HTTP
replies are what they decode to.  The two clock readings at a build are one, and
the machine identity does not change while a host runs.

## What is checked

| Run | Instance | Shows |
| --- | --- | --- |
| `binding` | `nqd` and one `nq`, 2 locks, 3 events, 2 faults | with nothing pending the file is what the ledger calls for; replay is never stuck; a collection is answered by a helper of the lock in force; the protocol implements `BindingAuthority`; a pending intent is replayed; a helper of a replaced lock stops |
| `local_successor` | 2 processes, 1 identity, 2 configurations, 3 runs, 1 death, 1 power loss | invocations of an identity are at most one more than the power losses; callers of one identity get one artifact; the history that allowed an execution still allows it when it commits |
| `ledger` | 2 instances, 3 operations, 2 admissions, either evaluator | what is committed reopens; findings follow the evaluations; a snapshot is of one moment; an exchange that ended leaves its record |
| `retention` | 2 lineages, 3 commits, 1 without a report, 1 diagnostic run, 1 delivery, batches of 2 | an expiry leaves a boundary its validator accepts and never fails on its own plan; what is still read is kept; the next evaluation finds its evidence |
| `custody` | 2 delivering and 2 checking processes, 2 commands in all, 2 routes, 1 saved check with 2 targets, 1 power loss, a store that is empty or holds a failed page | nothing is sent or read twice, records say what happened, failures stay visible, inspection reads every history and passes only settled ones |
| `certification` | 2 handles, 2 appends, 1 expiry, 1 power loss | a watermark that is relied on covers validated rows only, and its accumulators are exact |
| `launch` | 2 threads, 1 change of a file, 1 death of the daemon | what runs is what was admitted, with its own descriptors, and outlives no daemon; the closure found is the one loaded |
| `carrier` | 2 exchanges, 2 locks, 2 misdeeds | captures are fresh and of a group launched under their lock, over a connection its leader put up; helpers are contained, every exchange ends |
| `maintenance` | 2 devices, 2 workers, 2 rows, 1 fault | one operation at a time; the store stays in its envelope and keeps its reserve; receipts, archives and carried declarations are anchored; a restored store is whole; an upgrade completes |
| `testimony` | one watcher of each of the 9 profiles, 1 or 2 exchanges, 1 or 2 changes of the host | what a helper sends is admitted; what a detector concludes was true of the bound resource at a moment of the collection |

The bounds are the smallest at which the cases of the hazards happen: a
transition after a rotation that died, a second caller of an identity whose
first one died, an evaluation that resolves a finding whose opening is aged, a
rowid that is freed and taken again while another handle is between its open and
its record, a mount that is replaced by one that reuses its numbers between two
reads.  Deadlock is checked where every process can always go on; the
`CHECK_DEADLOCK FALSE` runs end when their bound is used.  `ledger` explores
nothing beyond a captured snapshot (`UntilCaptured`).

### Fairness

Only three runs assume any, and none assumes it of faults.

- `binding`: weak fairness of every step of an engine in its operation (a running
  process is scheduled), strong fairness of a resident engine's entry into its
  next collection (the daemon retries on every tick, and others release the guard
  between), weak fairness of its watch.
- `carrier`: weak fairness of the daemon's thread and of its monotonic deadline.
  The helper owes nothing.
- `maintenance`: weak fairness of the upgrade (the operator runs it on, and again
  after an error or a kill) and of the removal of unrelated files that crowd the
  device.  The second is an assumption about the operator, not about the code.

### Disagreements found

Each is a run that TLC is expected to refute, and an entry under `findings`.

- `certification_heads`: a handle that committed evaluations after its open and
  then expires replays its heads only through the frontier of the open, and
  certifies them with the frontier of the expiry.
- `ledger_partial`: an exchange that fails by a timeout, an output limit or a
  carrier failure and left bytes behind becomes a rejected submission, which the
  matrix of outcomes does not allow for these failures; the commit is refused and
  nothing of the exchange is recorded.

### Known limits

What the models and the reading of the code showed, and no run or theorem claims:

- A revocation that unlinked the lock file and failed before the directory sync
  is completed by a replay that finds no file and syncs nothing (nq-core
  `engine.rs:3880`), while docs/OPERATIONS.md:359 lets completion follow a durable
  directory.
- The fence of an acquisition commits with `synchronous=NORMAL`; a power loss
  after the helper ran may take the record that docs/LOCAL_SUCCESSOR.md:31 calls
  durable.  `InvocationsBounded` therefore counts power losses.
- With `ClockSteps = TRUE` (a wall clock set back between expiries) an expiry may
  reject its own plan; with `AnyEvent = TRUE` (a delivery of a finding event that
  is not the latest) it may leave a boundary its validator refuses.
- An upgrade chain whose explicit ceiling equals the whole capacity is refused at
  the version 15 step when its version 14 backup is on the same device.
- `nq backup` may fail after the final name exists, when counts moved meanwhile;
  a restore killed between link and clean-up leaves two names; an upgrade killed
  in its chain leaves intermediate files.
- The first systemd helper (nq-operator-beta-helper) keeps no time in reserve for
  its report and reads a unit by two calls, so each part is true of some moment
  but not all of one; of the unit file only the length is compared after the read.
  The connect of the bus client (`systemd.rs:236` of nq-host-resource-helper) is not
  bounded by the budget.

## What is proved

Seven components have proofs, for every value of the constants that the named
assumptions allow: any number of processes, locks, identities, commands, faults
and power losses.

| Module | Theorems |
| --- | --- |
| `BindingProofs` | `TypeCorrect`, `Materialized`, `Recoverable`, `Fenced`, `Genuine`, `Retained`, the action property `FileFollowsLedger`, and `Implements`, the refinement of `BindingAuthority` |
| `LocalSuccessorProofs` | `TypeCorrect`, `BoundedInvocations`, `AgreedDeliveries`, `AllowedHistory`, `CompletionAccepted` |
| `CustodyProofs` | `TypeCorrect`, `NeverSentTwice`, `HonestRecords`, `OneEvaluation`, `SoundInspection`, `NewestStateIsShown` |
| `CertificationProofs` | `CertifiedRowsAreProven`, `CertificatesMatch` |
| `LaunchProofs` | `HelpersRunWhatWasAdmitted`, `ChildrenInheritTheirOwn`, `NoHelperOutlivesItsDaemon` |
| `CarrierProofs` | `FreshResponses`, `AdmittedGroupAnswers`, `ContainedHelpers` |
| `MaintenanceProofs` | `OneOperationAtATime`, `EvidenceIsAnchored`, `RestoredStoresAreWhole` |
| `MaintenanceSizes` | `StoresStayWithinTheirEnvelope`, `AdmissionsKeepTheReserve` |

Most assumptions only say that bounds are numbers and that the names for "none" are
not members of the sets they stand beside.  These say more:

- `CustodyAssumption`: a history the store starts with is one the commands can have
  written, and none of its times lies after its clock.
- `MaintenanceAssumption` and `InitialAssumption`: a store that already has an
  envelope lies within it at the start; only an upgrade starts from a schema
  before 14; the rows of a behaviour (`MaxRows`) and the pages a migration adds
  (`MigrationPages`) are together at most the smallest page ceiling, so that a log
  with a frame for each stays below every ceiling.

No property is inductive alone, so each component has an invariant `IInv`, one lemma
or named step per action that it is preserved, and frame lemmas for what an action
leaves alone.

- Binding.  That file and ledger agree depends on what an engine in the middle of
  a materialization has done.  `IInv` says that one engine at most is inside an
  operation and has the guard; that only the newest event may be pending, the file
  then being the previous or the desired lock; and what an engine knows at each of
  its steps.  `Implements` maps `Begin` to a ledger step, a resolution to a start,
  a commit to a finish and every other step to a stutter.
- LocalSuccessor.  `StoreInv` says how the rows of an identity hang together and
  that only the newest may be unsynced, `Guarded` and `Owned` that a process has
  its guard and its run alone, `ProcInv` what it knows at each step.  The bound on
  invocations is inductive only together with the invocation that an existing fence
  still allows (`BoundedInv`), and agreement of deliveries only with the fact that
  a delivered artifact belongs to a fence no power loss takes (`DeliveredInv`).
- Custody.  A power loss falls back to `disk`, so everything is said of `db` and of
  `disk`, with `disk` an earlier state of the same records (`OutboxPrefix`,
  `ChecksPrefix`).  `CourierInv` and `CheckerInv` say what a process relies on
  between its transactions; `SentInv`, `ReadsInv` and `AnsweredInv` tie what left
  the store to the rows that record it.  That the newest state is shown needs in
  addition `NewestInv`: no record and no process has a time the clock has not
  reached, and a resubmission copies the newest of the records it saw.
- Certification.  A watermark is tied to the rows by its retention generation alone.
  `IInv` says of every watermark, in a handle or in the sidecar, what holds of the
  store as long as that generation is the current one: its frontier is not beyond
  the rows, every row up to it is proven, its accumulators are those of these rows.
  Of the sidecar this is said only if its bounding rows are there, because a power
  loss may have taken them and a later append their rowids.
- Launch.  `LaunchOK` says how far the snapshots follow the identified chain and
  from which phase on that chain is the expected one, `GuardOK` that only the
  holder of the descriptor lock has inheritable snapshots, `ChildOK` what a child
  was forked with and that its death signal is armed when it checks its parent.
- Carrier.  `GroupInv` says that only the newest process group lives and when none
  does, `RunnerInv` that a resident runner's connection was put up by its own child
  and which lock the newest group was launched under, `FreshInv` from where on
  everything unread was written during this exchange and by that group.  The socket
  directory takes no part in the argument.
- Maintenance.  A behaviour runs one command; `IInv` has a part for each and
  `OwnInv` says that the others leave its state alone.  A carry that has not hashed
  the archive again knows what it read only of an archive that was not replaced,
  and the model has one replacement (`sealed.replaced`): with a second one that
  restores the first bytes, the second hash would not notice.  `SizeInv` bounds
  each file by the envelope the store carries or is about to carry.  A transaction
  appends up to the log's ceiling only from a log that is short or empty
  (`UpgradeSize`, `ArchiveSize`, `CarrySize`), a copy is within its envelope before
  it is published (`RestoreSize`), and an admission reserves the whole envelope
  (`Reserved`).  `DeriveIsEnvelope` is the arithmetic of the envelope with the code's
  constants.

Only model-checked:

- liveness under fairness (`PendingIsReplayed`, `StaleHelperStops`, `ExchangeEnds`,
  `UpgradeCompletes`), which the prover does not reach;
- `ClosureIsLoaded` of Launch, and Ledger and Retention: they rest on walks and
  folds over data, whose results for every input need an induction that the prover
  cannot do;
- Testimony, which is a case analysis over nine profiles and their helpers.
