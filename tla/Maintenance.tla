---------------------------- MODULE Maintenance ----------------------------
(***************************************************************************)
(* The resident daemon and the operator's commands on its store: upgrade,    *)
(* archive, restore and the carry of a maintenance declaration out of an     *)
(* archive, with writers, readers, unrelated files, a second operator and    *)
(* crashes between their steps.                                              *)
(*                                                                          *)
(* One behaviour runs one command (job), beside the daemon where the command *)
(* allows it.  A command that fails prints its error and ends; the operator  *)
(* may run it again.                                                         *)
(*                                                                          *)
(* Source: crates/nq-app/src/daemon.rs, cli.rs, archive.rs, rollover.rs,     *)
(* ownership.rs, crates/nq-store/src/lib.rs and capacity.rs.                 *)
(***************************************************************************)
EXTENDS StoreFile

CONSTANTS
    Workers,       \* the daemon's scheduled instances and freshness sweeps
    Deployments,   \* what behaviours start from: [job, schema, elsewhere, policy]
    BasePages,     \* pages of the store at the start
    WatermarkBytes,\* bytes of a validation watermark
    MigrationPages,\* pages a migration adds to the store
    MaxRows,       \* bound: history rows
    MaxReceipts,   \* bound: upgrade receipts
    MaxFaults,     \* bound: kills, crowded devices, long readers, lost results
    Snapshots,     \* archive version -> [unresolved, declaration, start, end]
    MaxNow         \* bound: the clock of the maintenance windows

VARIABLES
    job,        \* the operator's command
    op,         \* its progress: [pc, digest, envelope, declared, permits]; declared is the
                \* boundary of an archive, the time of a carry, the version an upgrade found
    owner,      \* holder of the database ownership lock
    daemon,     \* the resident service
    work,       \* worker -> "idle", "waiting", "running", "opened" or "writing"
    permit,     \* the daemon's writer permit: a worker or "free"
    aborted,    \* worker tasks cancelled by the stop
    sealed,     \* the archive at the destination: NoArchive or its content
    before,     \* the state each migration really started from
    now,        \* the clock
    initializing, \* the envelope an nq init has derived and not yet stored
    faults      \* kills, crowded devices, long readers and lost results so far

ASSUME MaintenanceAssumption ==
    /\ Workers \cap {"nqd", "operator", "declarer", "nobody", "free"} = {}
    /\ \A d \in Deployments : /\ d.job \in {"upgrade", "archive", "restore", "carry"}
                              /\ d.schema \in {3, 4, 5, 12, 13, 14, Current}
                              /\ d.job = "upgrade" \/ d.schema >= 14
                              /\ d.elsewhere \in DOMAIN Devices
                              /\ {d.policy.ceiling, d.policy.reserve, d.policy.auxiliary}
                                   \subseteq Nat \cup {Absent}
    /\ BasePages \in Nat /\ WatermarkBytes \in Nat
    /\ MaxRows \in Nat \ {0} /\ MigrationPages \in Nat /\ MaxRows + MigrationPages <= MinPages
    /\ 0 \notin DOMAIN Snapshots
    /\ \A v \in DOMAIN Snapshots : Snapshots[v].declaration # "none"

command == <<job, op, owner>>
service == <<daemon, work, permit, aborted>>
ledger == <<sealed, before, now, initializing>>
vars == <<storage, command, service, ledger, faults>>

NoArchive == [by |-> "nobody"]
NoDigest == <<>>
NoMembers == [main |-> 0, wal |-> 0, shm |-> 0]
Ready == [pc |-> "ready", digest |-> NoDigest, envelope |-> NoEnvelope,
          declared |-> -1, permits |-> "none"]

Content(schema, envelope) ==
    [schema |-> schema, rows |-> 0, generation |-> 0, gaps |-> 0, receipts |-> <<>>,
     carried |-> {}, envelope |-> envelope, pages |-> BasePages]

-----------------------------------------------------------------------------
(* Unrelated files, readers and the clock (external).                       *)

Crowd ==
    /\ job # "carry" /\ pressure = "none" /\ faults < MaxFaults /\ faults' = faults + 1
    /\ \E kind \in {"bytes", "inodes"} :
         /\ kind = "bytes" => \A d \in DOMAIN Devices : Used(d) + PressureBytes <= Devices[d]
         /\ pressure' = kind
    /\ UNCHANGED <<files, elsewhere, reader, litter, backups, config, txn, promise,
                   command, service, ledger>>

Clear ==
    /\ pressure # "none" /\ pressure' = "none"
    /\ UNCHANGED <<files, elsewhere, reader, litter, backups, config, txn, promise,
                   command, service, ledger, faults>>

\* A query of the read API pins the log for as long as it runs.
Read ==
    /\ job = "archive" /\ Present("live")
    /\ IF reader THEN UNCHANGED faults ELSE faults < MaxFaults /\ faults' = faults + 1
    /\ reader' = ~ reader
    /\ UNCHANGED <<files, elsewhere, pressure, litter, backups, config, txn, promise,
                   command, service, ledger>>

Tick ==
    /\ job = "carry" /\ now < MaxNow /\ now' = now + 1
    /\ UNCHANGED <<storage, command, service, sealed, before, initializing, faults>>

-----------------------------------------------------------------------------
(* The resident service.  Its ownership lock lives as long as run() does;    *)
(* blocking store operations live as long as the process.                    *)

Envelope == Visible("live").envelope
AddRow(db) == [db EXCEPT !.rows = @ + 1]
Quiet == <<job, op, ledger, faults>>

\* run(): ownership, open, startup validation and expiry.
DaemonStart ==
    /\ job = "archive" /\ daemon = "down" /\ owner = "free"
    /\ OpenConfigured("live") = "ok"
    /\ owner' = "nqd" /\ daemon' = "starting"
    /\ UNCHANGED <<storage, work, permit, aborted, Quiet>>

RunReturns == daemon' = "gone" /\ owner' = "free"

\* The status records of a start and of a stop, and the checkpoint of a stop,
\* each through the one write path.  A refused checkpoint is only a warning.
NqdBegin ==
    /\ daemon \in {"starting", "recording", "folding"} /\ txn.by # "nqd"
    /\ IF BeginVerdict(Envelope) = "ok"
       THEN BeginWrite("nqd") /\ UNCHANGED <<daemon, owner>>
       ELSE RunReturns /\ UNCHANGED storage
    /\ UNCHANGED <<work, permit, aborted, Quiet>>

NqdTruncate ==
    /\ TruncateLog("nqd", Envelope)
    /\ IF txn' = NoTxn THEN RunReturns ELSE UNCHANGED <<daemon, owner>>
    /\ UNCHANGED <<work, permit, aborted, Quiet>>

NqdCommit ==
    /\ txn = [by |-> "nqd", at |-> "writing"]
    /\ IF daemon = "folding" \/ ~ Fits(files["live"], 1)
       THEN Rollback /\ RunReturns
       ELSE /\ Commit(Visible("live"), 1)
            /\ daemon' = (IF daemon = "starting" THEN "up" ELSE "folding")
            /\ UNCHANGED owner
    /\ UNCHANGED <<work, permit, aborted, Quiet>>

\* A termination signal: every task is told to stop, one after the other.
Terminate ==
    /\ daemon = "up" /\ daemon' = "stopping"
    /\ UNCHANGED <<storage, owner, work, permit, aborted, Quiet>>

\* A task that fails ends run() at once; dropping the set cancels the others.
ServiceFails ==
    /\ daemon = "up" /\ faults < MaxFaults /\ faults' = faults + 1
    /\ RunReturns /\ aborted' = Workers
    /\ work' = [w \in Workers |-> IF work[w] = "waiting" THEN "idle" ELSE work[w]]
    /\ UNCHANGED <<storage, permit, job, op, ledger>>

AbortFreeingPermit(w) ==
    /\ daemon = "stopping" /\ w \notin aborted
    /\ aborted' = aborted \cup {w}
    /\ work' = [work EXCEPT ![w] = IF @ = "waiting" THEN "idle" ELSE @]
    /\ permit' = IF permit = w THEN "free" ELSE permit
    /\ UNCHANGED <<storage, owner, daemon, Quiet>>

\* Cancelling a task drops its wait for the permit, never a permit that its
\* blocking operation already holds.
AbortTask(w) ==
    /\ daemon = "stopping" /\ w \notin aborted
    /\ aborted' = aborted \cup {w}
    /\ work' = [work EXCEPT ![w] = IF @ = "waiting" THEN "idle" ELSE @]
    /\ UNCHANGED <<storage, owner, daemon, permit, Quiet>>

StopOpens ==
    /\ daemon = "stopping" /\ aborted = Workers
    /\ IF OpenConfigured("live") = "ok"
       THEN daemon' = "recording" /\ UNCHANGED owner ELSE RunReturns
    /\ UNCHANGED <<storage, work, permit, aborted, Quiet>>

\* The process ends once its blocking operations have.
ProcessEnds ==
    /\ daemon = "gone" /\ \A w \in Workers : work[w] \in {"idle", "waiting"}
    /\ daemon' = "down" /\ aborted' = {} /\ work' = [w \in Workers |-> "idle"]
    /\ UNCHANGED <<storage, owner, permit, Quiet>>

DaemonKilled ==
    /\ daemon # "down" /\ faults < MaxFaults /\ faults' = faults + 1
    /\ daemon' = "down" /\ aborted' = {} /\ permit' = "free"
    /\ work' = [w \in Workers |-> "idle"]
    /\ owner' = IF owner = "nqd" THEN "free" ELSE owner
    /\ txn' = IF txn.by \in Workers \cup {"nqd"} THEN NoTxn ELSE txn
    /\ UNCHANGED <<files, elsewhere, pressure, reader, litter, backups, config, promise,
                   job, op, ledger>>

-----------------------------------------------------------------------------
(* A scheduled collection or a freshness sweep: one blocking operation.      *)

Work(w, state) == work' = [work EXCEPT ![w] = state]
WorkEnds(w) == Work(w, "idle") /\ permit' = "free"
Steady == <<daemon, owner, aborted, Quiet>>

WorkerAsks(w) ==
    /\ daemon = "up" /\ work[w] = "idle" /\ Visible("live").rows < MaxRows
    /\ Work(w, "waiting")
    /\ UNCHANGED <<storage, permit, Steady>>

WorkerStarts(w) ==
    /\ work[w] = "waiting" /\ w \notin aborted /\ permit = "free" /\ daemon \in {"up", "stopping"}
    /\ Work(w, "running") /\ permit' = w
    /\ UNCHANGED <<storage, Steady>>

WorkerOpens(w) ==
    /\ work[w] = "running"
    /\ IF OpenConfigured("live") = "ok" THEN Work(w, "opened") /\ UNCHANGED permit ELSE WorkEnds(w)
    /\ UNCHANGED <<storage, Steady>>

WorkerBegins(w) ==
    /\ work[w] = "opened"
    /\ IF BeginVerdict(Envelope) = "ok"
       THEN BeginWrite(w) /\ Work(w, "writing") /\ UNCHANGED permit
       ELSE WorkEnds(w) /\ UNCHANGED storage
    /\ UNCHANGED Steady

WorkerTruncates(w) ==
    /\ TruncateLog(w, Envelope)
    /\ IF txn' = NoTxn THEN WorkEnds(w) ELSE UNCHANGED <<work, permit>>
    /\ UNCHANGED Steady

\* One transaction: a small commit, the largest one the page ceiling admits, or
\* an expiry, which advances the retention generation.
WorkerCommits(w) ==
    /\ txn = [by |-> w, at |-> "writing"]
    /\ \E kind \in {"small", "largest", "expiry"} :
         \E db \in {[AddRow(Visible("live")) EXCEPT
                        !.pages = IF kind = "largest" THEN Envelope.pages ELSE @,
                        !.generation = IF kind = "expiry" THEN @ + 1 ELSE @]},
            frames \in {IF kind = "largest" THEN Envelope.pages + PaddingFrames(Page) ELSE 1} :
           /\ kind = "expiry" => Visible("live").generation = 0
           /\ IF Fits(files["live"], frames) THEN Commit(db, frames) ELSE Rollback
    /\ WorkEnds(w)
    /\ UNCHANGED Steady

-----------------------------------------------------------------------------
(* The operator's commands.                                                 *)

Idle == <<service, ledger, faults>>

GoTo(pc) == op' = [op EXCEPT !.pc = pc]

\* A failing command removes its private copy and lets go of every lock.
Fail ==
    /\ op' = Ready
    /\ owner' = IF owner = "operator" THEN "free" ELSE owner
    /\ txn' = IF txn.by = "operator" THEN NoTxn ELSE txn
    /\ files' = [files EXCEPT !["copy"] = NoFile]
    /\ UNCHANGED <<elsewhere, pressure, reader, litter, backups, config, promise, job>>

\* A killed command leaves its private copy behind under a name nobody reuses.
OperatorKilled ==
    /\ op.pc \notin {"ready", "done"} /\ faults < MaxFaults /\ faults' = faults + 1
    /\ op' = Ready
    /\ owner' = IF owner = "operator" THEN "free" ELSE owner
    /\ txn' = IF txn.by = "operator" THEN NoTxn ELSE txn
    /\ litter' = litter + (IF Present("copy") THEN files["copy"].db.pages ELSE 0)
    /\ files' = [files EXCEPT !["copy"] = NoFile]
    /\ UNCHANGED <<elsewhere, pressure, reader, backups, config, promise, job,
                   service, ledger>>

\* A private copy of the live store's committed state, log included.
CopyLive ==
    /\ files' = [files EXCEPT !["copy"] = NewFile(Visible("live"))]
    /\ UNCHANGED <<elsewhere, pressure, reader, litter, backups, config, txn, promise>>

RoomForCopy == txn = NoTxn /\ AdmitBackupDestination(Visible("live").pages)

-----------------------------------------------------------------------------
(* nq admin upgrade: one verified backup and one migration per version.     *)

Schema == Visible("live").schema

UpgradeStarts ==
    /\ job = "upgrade" /\ op.pc = "ready" /\ owner = "free"
    /\ Len(Visible("live").receipts) < MaxReceipts
    /\ owner' = "operator" /\ op' = [op EXCEPT !.pc = "source", !.declared = Schema]
    /\ UNCHANGED <<storage, job, Idle>>

\* The source is validated and its logical digest taken, before any guard.
UpgradeReadsSource ==
    /\ job = "upgrade" /\ op.pc = "source"
    /\ IF Schema = Current /\ OpenConfigured("live") # "ok" THEN Fail
       ELSE /\ op' = [op EXCEPT !.pc = "copy", !.digest = LogicalDigest(Visible("live"))]
            /\ UNCHANGED <<storage, job, owner>>
    /\ UNCHANGED Idle

\* From version 5 on the copy must hold the state whose digest was taken; a backup
\* of version 3 or 4, or of the current schema, is its own reference.
CopyMatches == Schema \in {5, 12, 13, 14} => LogicalDigest(Visible("live")) = op.digest

UpgradeCopies ==
    /\ job = "upgrade" /\ op.pc = "copy"
    /\ IF RoomForCopy /\ CopyMatches
       THEN /\ CopyLive
            /\ op' = [op EXCEPT !.pc = "finalize", !.digest = LogicalDigest(Visible("live"))]
            /\ UNCHANGED <<job, owner>>
       ELSE Fail
    /\ UNCHANGED Idle

FinalizeRefusingExisting ==
    /\ job = "upgrade" /\ op.pc = "finalize"
    /\ IF op.digest \in backups THEN Fail
       ELSE /\ GoTo("admit") /\ UNCHANGED <<owner, job>>
            /\ backups' = backups \cup {op.digest} /\ litter' = litter + files["copy"].db.pages
            /\ files' = [files EXCEPT !["copy"] = NoFile]
            /\ UNCHANGED <<elsewhere, pressure, reader, config, txn, promise>>
    /\ UNCHANGED Idle

\* The copy takes its digest-addressed name; an earlier backup of the same state
\* stays.  A current backup must then open as a store where it lies.
FinalizeUpgradeBackup ==
    /\ job = "upgrade" /\ op.pc = "finalize"
    /\ IF Schema = Current /\ OpenWritable("copy") # "ok"
       THEN op' = Ready /\ owner' = "free" ELSE GoTo("admit") /\ UNCHANGED owner
    /\ backups' = backups \cup {op.digest}
    /\ litter' = litter + (IF op.digest \in backups THEN 0 ELSE files["copy"].db.pages)
    /\ files' = [files EXCEPT !["copy"] = NoFile]
    /\ UNCHANGED <<elsewhere, pressure, reader, config, txn, promise, job, Idle>>

\* The envelope a migration runs under: derived here before version 14, with the
\* configured policy from 13, and the persisted one from then on.
AdmitMaintenance(o) ==
    IF Schema >= 14 THEN Envelope
    ELSE Derive(IF Schema = 13 THEN ResolvePolicy(config.ceiling, config.reserve, config.auxiliary, o)
                ELSE ResolvePolicy(Absent, Absent, Absent, o), o, Page, Visible("live").pages)

UpgradeAdmits ==
    /\ job = "upgrade" /\ op.pc = "admit"
    /\ \E o \in {Observe("live")} : \E e \in {AdmitMaintenance(o)} :
         IF /\ BootstrapPreflight(Observe("live"), files["live"].frames)
            /\ e # Refused
            /\ BeginVerdict(e) = "ok"
            /\ op.digest \in backups
            /\ Schema < 14 => LogicalDigest(Visible("live")) = op.digest
         THEN /\ BeginWrite("operator")
              /\ op' = [op EXCEPT !.pc = "truncate", !.envelope = e] /\ UNCHANGED <<job, owner>>
         ELSE Fail
    /\ UNCHANGED Idle

UpgradeTruncates ==
    /\ op.pc = "truncate" /\ TruncateLog("operator", op.envelope)
    /\ IF txn' = NoTxn THEN op' = Ready /\ owner' = "free" ELSE GoTo("migrate") /\ UNCHANGED owner
    /\ UNCHANGED <<job, Idle>>

\* The receipt of one transition, which names the backup it started from.
Receipted(db, to, digest) ==
    [db EXCEPT !.schema = to,
               !.receipts = Append(@, [from |-> db.schema, to |-> to, backup |-> digest])]

\* What each migration makes of the store.  History is never synthesized: the
\* rows of version 3 get an explicit gap, and only version 14 adds an envelope.
UpgradeV3ToV4(db, digest) == [Receipted(db, 4, digest) EXCEPT !.gaps = db.rows]
UpgradeV4ToV5(db, digest) == Receipted(db, 5, digest)
UpgradeV5ToV12(db, digest) == Receipted(db, 12, digest)
UpgradeV12ToV13(db, digest) == Receipted(db, 13, digest)
UpgradeV13ToV14(db, digest, e) == [Receipted(db, 14, digest) EXCEPT !.envelope = e]
UpgradeV14ToV15(db, digest) == Receipted(db, 15, digest)
AlreadyCurrent(db, digest) == Receipted(db, Current, digest)

Migrated(db, e, digest) ==
    CASE db.schema = 3 -> UpgradeV3ToV4(db, digest)
      [] db.schema = 4 -> UpgradeV4ToV5(db, digest)
      [] db.schema = 5 -> UpgradeV5ToV12(db, digest)
      [] db.schema = 12 -> UpgradeV12ToV13(db, digest)
      [] db.schema = 13 -> UpgradeV13ToV14(db, digest, e)
      [] db.schema = 14 -> UpgradeV14ToV15(db, digest)
      [] db.schema = Current -> AlreadyCurrent(db, digest)

\* The source is an intact store of the version the command started from.
IntactSource(digest) == Schema = digest[1]

\* Inside the exclusive transaction the backup is hashed again and the source
\* compared with it once more.
SourceVerified(digest) ==
    /\ IntactSource(digest)
    /\ digest \in backups
    /\ Schema < Current => LogicalDigest(Visible("live")) = digest

\* A migration adds pages, each of them a frame of its transaction; a store that is
\* already current only gets its receipt.
Growth == IF Schema = Current THEN 0 ELSE MigrationPages

Grown(db, pages) == [db EXCEPT !.pages = @ + pages]

\* SQLite refuses a page above the ceiling that the envelope sets.
UpgradeMigrates ==
    /\ job = "upgrade" /\ op.pc = "migrate"
    /\ IF /\ SourceVerified(op.digest)
          /\ Visible("live").pages + Growth <= op.envelope.pages /\ Fits(files["live"], 1 + Growth)
       THEN /\ \E db \in {Migrated(Visible("live"), op.envelope, op.digest)} :
                 Commit(Grown(db, Growth), 1 + Growth)
            /\ before' = Append(before, LogicalDigest(Visible("live")))
            /\ GoTo(IF Schema \in {14, Current} THEN "certify" ELSE "source")
            /\ UNCHANGED <<job, owner>>
       ELSE Fail /\ UNCHANGED before
    /\ UNCHANGED <<service, sealed, now, initializing, faults>>

\* The complete history of the new store is validated and its first watermark
\* written beside it, then renamed.  An upgrade that found version 3, 4 or 5 first
\* opens the store under the configured policy.
RecordFullValidation ==
    /\ job = "upgrade" /\ op.pc = "certify"
    /\ IF /\ OpenWritable("live") = "ok"
          /\ op.declared \in {3, 4, 5} => OpenConfigured("live") = "ok"
          /\ PreflightWatermark(Envelope, Observe("live"), Members(files["live"]), WatermarkBytes) = "ok"
       THEN /\ Put("live", [files["live"] EXCEPT !.auxiliary = @ + WatermarkBytes])
            /\ GoTo("rename")
            /\ UNCHANGED <<elsewhere, pressure, reader, litter, backups, config, txn, promise, job, owner>>
       ELSE Fail
    /\ UNCHANGED Idle

UpgradeEnds ==
    /\ job = "upgrade" /\ op.pc = "rename"
    /\ GoTo("done") /\ owner' = "free"
    /\ UNCHANGED <<storage, job, Idle>>

\* A binary of the old version that takes no ownership still commits;
\* that of version 14 takes the guard.
OldWriter ==
    /\ job = "upgrade" /\ Schema < Current /\ Visible("live").rows < MaxRows
    /\ Schema = 14 => txn = NoTxn
    /\ Put("live", AppendFrames(files["live"], AddRow(Visible("live")), 1))
    /\ UNCHANGED <<elsewhere, pressure, reader, litter, backups, config, txn, promise,
                   command, service, ledger, faults>>

-----------------------------------------------------------------------------
(* nq archive and nq backup, beside a running service.                      *)

\* A store of this schema is opened and validated in full; one that cannot be
\* is preserved as it is.  A transient refusal ends the command.
ArchiveOpens ==
    /\ job = "archive" /\ op.pc = "ready" /\ sealed = NoArchive
    /\ OpenWritable("live") \in {"ok", "fault"}
    /\ GoTo(IF OpenWritable("live") = "ok" THEN "declare" ELSE "preserve")
    /\ UNCHANGED <<storage, job, owner, Idle>>

\* The retention boundary is declared from the open store.
RetentionDeclaration ==
    /\ op.pc = "declare"
    /\ op' = [op EXCEPT !.pc = "archive", !.declared = Visible("live").generation]
    /\ UNCHANGED <<storage, job, owner, Idle>>

\* backup_verified, or backup_incompatible, which declares nothing.
ArchiveCopies ==
    /\ op.pc \in {"archive", "preserve"}
    /\ IF RoomForCopy
       THEN /\ CopyLive /\ UNCHANGED <<job, owner>>
            /\ GoTo(IF op.pc = "archive" THEN "freeze" ELSE "seal")
       ELSE Fail
    /\ UNCHANGED Idle

\* The copy opens as a store, under the envelope it carries, and becomes one file.
PrepareArchiveCopy ==
    /\ op.pc = "freeze"
    /\ IF OpenWritable("copy") = "ok"
       THEN /\ Put("copy", Checkpointed(files["copy"])) /\ GoTo("seal")
            /\ UNCHANGED <<elsewhere, pressure, reader, litter, backups, config, txn, promise,
                           job, owner>>
       ELSE Fail
    /\ UNCHANGED Idle

VerifyNothing == TRUE

\* Verification opens the staged file and derives the declaration again.
VerifyRetentionDeclaration ==
    IF op.declared = -1 THEN files["copy"].db.schema # Current
    ELSE op.declared = files["copy"].db.generation

ArchiveSeals ==
    /\ op.pc = "seal"
    /\ IF VerifyRetentionDeclaration
       THEN /\ sealed' = [by |-> "archive", db |-> files["copy"].db, declared |-> op.declared]
            /\ Put("copy", NoFile) /\ GoTo("done")
            /\ UNCHANGED <<elsewhere, pressure, reader, litter, backups, config, txn, promise,
                           job, owner>>
       ELSE Fail /\ UNCHANGED sealed
    /\ UNCHANGED <<service, before, now, initializing, faults>>

\* nq backup counts the rows of the open store, copies it, and counts again.
BackupOpens ==
    /\ job = "archive" /\ op.pc = "ready" /\ backups = {}
    /\ OpenConfigured("live") = "ok"
    /\ op' = [op EXCEPT !.pc = "backup", !.digest = LogicalDigest(Visible("live"))]
    /\ UNCHANGED <<storage, job, owner, Idle>>

\* A count that moved fails the command after the copy has its final name.
BackupCopies ==
    /\ op.pc = "backup"
    /\ IF RoomForCopy
       THEN /\ backups' = {LogicalDigest(Visible("live"))}
            /\ litter' = litter + Visible("live").pages
            /\ op' = (IF LogicalDigest(Visible("live"))[2] = op.digest[2]
                       THEN [op EXCEPT !.pc = "done"] ELSE Ready)
            /\ UNCHANGED <<files, elsewhere, pressure, reader, config, txn, promise, job, owner>>
       ELSE Fail
    /\ UNCHANGED Idle

-----------------------------------------------------------------------------
(* nq restore: the live file is the backup, read only; dest is the store of  *)
(* the deployment.  Another operator may initialize a store there.          *)

RestoreOpens ==
    /\ job = "restore" /\ op.pc = "ready" /\ ~ Present("dest")
    /\ GoTo("copy")
    /\ UNCHANGED <<storage, job, owner, Idle>>

RestoreCopies ==
    /\ job = "restore" /\ op.pc = "copy"
    /\ IF RoomForCopy THEN CopyLive /\ GoTo("readmit") /\ UNCHANGED <<job, owner>> ELSE Fail
    /\ UNCHANGED Idle

\* A copy on its own filesystem keeps an envelope that still holds; otherwise a
\* new one is derived here and committed to the copy.
ReadmitRestoredCopy ==
    /\ op.pc = "readmit"
    /\ \E prior \in {files["copy"].log.envelope}, o \in {Observe("copy")} :
         \E e \in {Derive(PolicyForRestore(prior.policy, o), o, Page, files["copy"].db.pages)} :
           IF prior.observed.device = elsewhere /\ Preflight(prior, o, Members(files["copy"])) = "ok"
           THEN GoTo("publish") /\ UNCHANGED <<storage, job, owner>>
           ELSE IF e = Refused \/ Preflight(e, o, Members(files["copy"])) # "ok" THEN Fail
           ELSE /\ Put("copy", AppendFrames(files["copy"],
                                            [files["copy"].log EXCEPT !.envelope = e], 1))
                /\ GoTo("fold")
                /\ UNCHANGED <<elsewhere, pressure, reader, litter, backups, config, txn, promise,
                               job, owner>>
    /\ UNCHANGED Idle

RestoreWithoutFold ==
    /\ op.pc = "fold" /\ GoTo("publish")
    /\ UNCHANGED <<storage, job, owner, Idle>>

RestoreFolds ==
    /\ op.pc = "fold"
    /\ IF Preflight(files["copy"].log.envelope, Observe("copy"), Members(files["copy"])) = "ok"
       THEN /\ Put("copy", Checkpointed(files["copy"])) /\ GoTo("publish")
            /\ UNCHANGED <<elsewhere, pressure, reader, litter, backups, config, txn, promise,
                           job, owner>>
       ELSE Fail
    /\ UNCHANGED Idle

\* The main file alone gets its second name, which the copy's cleanup leaves.
LinkedFile == [NewFile(files["copy"].db) EXCEPT !.links = 2]

RestorePublishes ==
    /\ op.pc = "publish"
    /\ IF Present("dest") THEN Fail
       ELSE /\ files' = [files EXCEPT !["copy"] = NoFile, !["dest"] = LinkedFile]
            /\ GoTo("cleanup")
            /\ UNCHANGED <<elsewhere, pressure, reader, litter, backups, config, txn, promise,
                           job, owner>>
    /\ UNCHANGED Idle

RestoreEnds ==
    /\ op.pc = "cleanup"
    /\ Put("dest", [files["dest"] EXCEPT !.links = 1]) /\ GoTo("done")
    /\ UNCHANGED <<elsewhere, pressure, reader, litter, backups, config, txn, promise,
                   job, owner, Idle>>

\* nq init: the schema is one commit, the envelope the next, the genesis a third.
InitializeCreates ==
    /\ job = "restore" /\ ~ Present("dest") /\ initializing = NoEnvelope
    /\ \E o \in {Observe("dest")} :
       \E e \in {Derive(ResolvePolicy(config.ceiling, config.reserve, config.auxiliary, o), o, Page, 0)} :
         /\ IF e = Refused THEN FALSE ELSE Preflight(e, o, NoMembers) = "ok"
         /\ initializing' = e
    /\ Put("dest", NewFile(Content(Current, NoEnvelope)))
    /\ UNCHANGED <<elsewhere, pressure, reader, litter, backups, config, txn, promise,
                   command, service, sealed, before, now, faults>>

InitializeAdmits ==
    /\ initializing # NoEnvelope /\ initializing' = NoEnvelope
    /\ IF Preflight(initializing, Observe("dest"), Members(files["dest"])) = "ok"
       THEN Put("dest", AppendFrames(files["dest"],
                          [files["dest"].log EXCEPT !.envelope = initializing], 1))
       ELSE UNCHANGED files
    /\ UNCHANGED <<elsewhere, pressure, reader, litter, backups, config, txn, promise,
                   command, service, sealed, before, now, faults>>

-----------------------------------------------------------------------------
(* nq maintenance carry-from-archive: the live store is the successor, the   *)
(* sealed archive holds one version of its predecessor.  Someone may replace *)
(* the archive directory, and a second operator may declare the same id.     *)

Active(version) == Snapshots[version].start <= now /\ now < Snapshots[version].end

CarryVerifies ==
    /\ job = "carry" /\ op.pc = "ready"
    /\ op' = [op EXCEPT !.pc = "inspect", !.digest = sealed.version]
    /\ UNCHANGED <<storage, job, owner, Idle>>

\* The rollover inspection: what is active, if nothing is unresolved.
InspectRollover ==
    /\ op.pc = "inspect"
    /\ op' = [op EXCEPT !.pc = "read", !.permits =
                 IF Active(sealed.version) /\ ~ Snapshots[sealed.version].unresolved
                 THEN Snapshots[sealed.version].declaration ELSE "none"]
    /\ UNCHANGED <<storage, job, owner, Idle>>

\* The declaration is read again and must be active now and permitted then.
CarryReads ==
    /\ op.pc = "read"
    /\ IF Active(sealed.version) /\ op.permits = Snapshots[sealed.version].declaration
       THEN op' = [op EXCEPT !.pc = "rehash", !.declared = now] /\ UNCHANGED <<storage, job, owner>>
       ELSE Fail
    /\ UNCHANGED Idle

\* The archive database must still be the verified one.
CarryRehashes ==
    /\ op.pc = "rehash"
    /\ IF sealed.version = op.digest THEN GoTo("open") /\ UNCHANGED <<storage, job, owner>> ELSE Fail
    /\ UNCHANGED Idle

CarryBegins ==
    /\ op.pc = "open"
    /\ IF OpenConfigured("live") = "ok" /\ BeginVerdict(Envelope) = "ok"
       THEN BeginWrite("operator") /\ GoTo("trim") /\ UNCHANGED <<job, owner>>
       ELSE Fail
    /\ UNCHANGED Idle

CarryTruncates ==
    /\ op.pc = "trim" /\ TruncateLog("operator", Envelope)
    /\ op' = (IF txn' = NoTxn THEN Ready ELSE [op EXCEPT !.pc = "carry"])
    /\ UNCHANGED <<job, owner, Idle>>

\* One transaction stores the declaration and its reference; an existing pair
\* must be exactly this one, and anything else under the id is an error.
CarryMaintenance(db, declaration, version, at) ==
    IF db.carried = {}
    THEN [db EXCEPT !.carried = {[declaration |-> declaration, archive |-> version, at |-> at,
                                  by |-> "carry"]}]
    ELSE db

CarryAccepted(db, declaration, version) ==
    \A c \in db.carried : c.declaration = declaration /\ c.archive = version

CarryCommits ==
    /\ op.pc = "carry"
    /\ IF CarryAccepted(Visible("live"), op.permits, op.digest) /\ Fits(files["live"], 1)
       THEN /\ \E db \in {CarryMaintenance(Visible("live"), op.permits, op.digest, op.declared)} :
                 IF db = Visible("live") THEN Rollback ELSE Commit(db, 1)
            /\ GoTo("done") /\ UNCHANGED <<job, owner>>
       ELSE Fail
    /\ UNCHANGED Idle

\* nq maintenance declare under the same id, through the same guard.
DeclareBegins ==
    /\ job = "carry" /\ OpenConfigured("live") = "ok" /\ BeginVerdict(Envelope) = "ok"
    /\ Visible("live").carried = {}
    /\ BeginWrite("declarer")
    /\ UNCHANGED <<command, service, ledger, faults>>

DeclareTruncates ==
    /\ job = "carry" /\ TruncateLog("declarer", Envelope)
    /\ UNCHANGED <<command, service, ledger, faults>>

Declared(db, declaration) ==
    [db EXCEPT !.carried = {[declaration |-> declaration, archive |-> 0, at |-> now, by |-> "declare"]}]

DeclareMaintenance ==
    /\ job = "carry" /\ txn = [by |-> "declarer", at |-> "writing"]
    /\ IF Visible("live").carried = {} /\ Fits(files["live"], 1)
       THEN \E declaration \in {s.declaration : s \in {Snapshots[v] : v \in DOMAIN Snapshots}} :
              Commit(Declared(Visible("live"), declaration), 1)
       ELSE Rollback
    /\ UNCHANGED <<command, service, ledger, faults>>

ReplaceArchive ==
    /\ job = "carry" /\ ~ sealed.replaced
    /\ \E v \in DOMAIN Snapshots \ {sealed.version} :
         sealed' = [by |-> "operator", version |-> v, replaced |-> TRUE]
    /\ UNCHANGED <<storage, command, service, before, now, initializing, faults>>

\* The result of a carry was lost and the operator runs it again.
CarryAgain ==
    /\ job = "carry" /\ op.pc = "done" /\ faults < MaxFaults /\ faults' = faults + 1
    /\ op' = Ready
    /\ UNCHANGED <<storage, job, owner, service, ledger>>

-----------------------------------------------------------------------------

\* The envelope of a store that was initialized on an otherwise empty device.
InitialEnvelope(c) ==
    LET o == [device |-> "a", total |-> Devices["a"], available |-> Devices["a"],
              inodes |-> MinInodes, limit |-> FileLimit, occupied |-> 0, auxiliary |-> 0]
    IN Derive(ResolvePolicy(c.ceiling, c.reserve, c.auxiliary, o), o, Page, 0)

\* A store that has an envelope at the start lies within it.
ASSUME InitialAssumption ==
    \A d \in Deployments : d.schema >= 14 =>
        InitialEnvelope(d.policy) # Refused /\ BasePages <= InitialEnvelope(d.policy).pages

Init ==
    /\ \E d \in Deployments :
         /\ job = d.job /\ config = d.policy /\ elsewhere = d.elsewhere
         /\ files = [p \in Paths |-> IF p # "live" THEN NoFile
                     ELSE NewFile([Content(d.schema, IF d.schema < 14 THEN NoEnvelope
                                      ELSE InitialEnvelope(config)) EXCEPT !.rows = 1])]
    /\ pressure = "none" /\ reader = FALSE /\ litter = 0 /\ backups = {}
    /\ txn = NoTxn /\ promise = Absent
    /\ op = Ready /\ owner = "free"
    /\ daemon = "down" /\ work = [w \in Workers |-> "idle"] /\ permit = "free" /\ aborted = {}
    /\ \E v \in DOMAIN Snapshots :
         sealed = IF job = "carry" THEN [by |-> "operator", version |-> v, replaced |-> FALSE]
                  ELSE NoArchive
    /\ before = <<>> /\ now = 0 /\ initializing = NoEnvelope /\ faults = 0

UpgradeStep ==
    \/ UpgradeStarts \/ UpgradeReadsSource \/ UpgradeCopies \/ FinalizeUpgradeBackup
    \/ UpgradeAdmits \/ UpgradeTruncates \/ UpgradeMigrates \/ RecordFullValidation \/ UpgradeEnds

ArchiveStep ==
    \/ ArchiveOpens \/ RetentionDeclaration \/ ArchiveCopies \/ PrepareArchiveCopy \/ ArchiveSeals
    \/ BackupOpens \/ BackupCopies

RestoreStep ==
    \/ RestoreOpens \/ RestoreCopies \/ ReadmitRestoredCopy \/ RestoreFolds \/ RestorePublishes
    \/ RestoreEnds \/ InitializeCreates \/ InitializeAdmits

CarryStep ==
    \/ CarryVerifies \/ InspectRollover \/ CarryReads \/ CarryRehashes \/ CarryBegins
    \/ CarryTruncates \/ CarryCommits \/ CarryAgain \/ ReplaceArchive
    \/ DeclareBegins \/ DeclareTruncates \/ DeclareMaintenance

DaemonStep ==
    \/ DaemonStart \/ NqdBegin \/ NqdTruncate \/ NqdCommit \/ Terminate \/ ServiceFails \/ StopOpens
    \/ ProcessEnds \/ DaemonKilled
    \/ \E w \in Workers :
         \/ WorkerAsks(w) \/ WorkerStarts(w) \/ WorkerOpens(w) \/ WorkerBegins(w)
         \/ WorkerTruncates(w) \/ WorkerCommits(w) \/ AbortTask(w)

Next ==
    \/ Crowd \/ Clear \/ Read \/ Tick \/ OperatorKilled \/ OldWriter
    \/ UpgradeStep \/ ArchiveStep \/ RestoreStep \/ CarryStep \/ DaemonStep

\* The operator runs the upgrade on and again; crowding files go away.
Spec == Init /\ [][Next]_vars /\ WF_vars(UpgradeStep) /\ WF_vars(Clear)

-----------------------------------------------------------------------------
(* Properties.                                                              *)

\* The daemon's writer permit admits one blocking store operation at a time,
\* also while a stop cancels the tasks that wait for it or already hold it.
OneStoreOperation ==
    \A v, w \in Workers :
        {work[v], work[w]} \subseteq {"running", "opened", "writing"} => v = w

\* A store with an envelope never outgrows it: neither in total nor in any file,
\* at any moment of a fold, of the largest transaction or of a copy, on the
\* filesystem the envelope was derived for.
WithinEnvelope ==
    \A p \in {"live", "dest"} :
        Present(p) /\ Visible(p).envelope # NoEnvelope =>
            LET e == Visible(p).envelope
                m == Members(files[p])
            IN e.observed.device = Where(p) =>
                 /\ Occupied(files[p]) <= e.aggregate
                 /\ m.main <= e.main /\ m.wal <= e.wal
                 /\ m.shm <= ShmAllowance(WalFrameCeiling(e))

\* Admitted writes leave the reserve to the rest of the filesystem: what is free
\* falls below it only by what other files took since the newest admission.
ReserveKept ==
    promise # Absent /\ Envelope # NoEnvelope =>
        Devices["a"] - OccupiedAt("live") - promise >= Envelope.policy.reserve

\* Every migration left a receipt, receipts lead without a gap to the present
\* schema, and the backup a receipt names exists and is the very state that was
\* migrated, whatever old writers, crashes and reruns came between.
ReceiptsAnchored ==
    \A i \in 1..Len(Visible("live").receipts) :
        LET r == Visible("live").receipts[i]
            last == i = Len(Visible("live").receipts)
        IN /\ r.backup \in backups
           /\ r.from < r.to => r.backup = before[i]
           /\ r.to = IF last THEN Schema ELSE Visible("live").receipts[i + 1].from

\* A sealed archive declares the retention boundary of the database inside it,
\* even when history expired between the declaration and the copy.
ArchiveDeclaresItsDatabase ==
    sealed.by = "archive" /\ sealed.db.schema = Current => sealed.declared = sealed.db.generation

\* A restored store holds everything its source held in its main file alone, and
\* an envelope of the filesystem it was restored to.
RestoredIsWhole ==
    Present("dest") /\ files["dest"].db.rows > 0 =>
        /\ files["dest"].db = [Visible("live") EXCEPT !.envelope = files["dest"].db.envelope]
        /\ files["dest"].db.envelope.observed.device = elsewhere

\* A declaration that was carried names an archive, that archive had no
\* unresolved work, held this declaration, and the declaration was active when
\* it was carried, although another may be declared under its id, the archive
\* replaced once and the carry repeated meanwhile.
CarryIsAnchored ==
    \A c \in Visible("live").carried : c.by = "carry" =>
        /\ c.archive # 0
        /\ ~ Snapshots[c.archive].unresolved
        /\ Snapshots[c.archive].declaration = c.declaration
        /\ Snapshots[c.archive].start <= c.at /\ c.at < Snapshots[c.archive].end

\* What an upgrade, an archive and a maintenance carry leave behind as durable
\* evidence (receipts, the declared boundary, carried declarations) says only
\* what happened.
RecordsAreAnchored == ReceiptsAnchored /\ ArchiveDeclaresItsDatabase /\ CarryIsAnchored

\* An operator who keeps running the upgrade reaches the current schema, past
\* old writers, killed commands and a device that was full for a while.
UpgradeCompletes == (job = "upgrade") ~> (Schema = Current)
=============================================================================
