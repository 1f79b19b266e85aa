------------------------- MODULE MaintenanceProofs --------------------------
(***************************************************************************)
(* Proofs about Maintenance, for every set of workers, every deployment the  *)
(* operator may start from and every bound: the daemon's writer permit, the  *)
(* durable evidence of upgrades, archives and carried declarations, and the  *)
(* content of a restored store.                                              *)
(*                                                                           *)
(* A behaviour runs one command, so the invariant has a part for each; the   *)
(* part of the others says that the state they are about is untouched.       *)
(***************************************************************************)
EXTENDS Maintenance, TLAPS

-----------------------------------------------------------------------------
(* The invariant.                                                           *)

Busy == {"running", "opened", "writing"}

\* An operation that runs has the permit, and one in the store's guard runs.
PermitInv ==
    /\ work = [w \in Workers |-> work[w]]
    /\ \A w \in Workers : work[w] \in Busy => permit = w
    /\ txn.by \in Workers => work[txn.by] = "writing"

ContentFields == {"schema", "rows", "generation", "gaps", "receipts", "carried", "envelope", "pages"}
FileFields == {"db", "log", "frames", "shm", "auxiliary", "links"}
OpFields == {"pc", "digest", "envelope", "declared", "permits"}
Versions == {3, 4, 5, 12, 13, 14, Current}

IsFile(f) == DOMAIN f = FileFields
IsContent(db) == DOMAIN db = ContentFields

\* The live store as every connection reads it.
Log == files["live"].log

\* The steps of each command.
UpgradePcs == {"ready", "source", "copy", "finalize", "admit", "truncate", "migrate", "certify",
               "rename", "done"}
ArchivePcs == {"ready", "declare", "archive", "preserve", "freeze", "seal", "backup", "done"}
RestorePcs == {"ready", "copy", "readmit", "fold", "publish", "cleanup", "done"}
CarryPcs == {"ready", "inspect", "read", "rehash", "open", "trim", "carry", "done"}

\* A command is at one of its own steps.
StepInv ==
    /\ DOMAIN op = OpFields
    /\ \/ job = "upgrade" /\ op.pc \in UpgradePcs
       \/ job = "archive" /\ op.pc \in ArchivePcs
       \/ job = "restore" /\ op.pc \in RestorePcs
       \/ job = "carry" /\ op.pc \in CarryPcs

\* The live store is a file.
FileInv ==
    /\ files = [p \in Paths |-> files[p]]
    /\ IsFile(files["live"]) /\ IsContent(Log) /\ Log.schema \in Versions

\* Only an archive runs beside the service, and only its own command touches
\* an archive, a destination, the receipts and the carried declarations.
OwnInv ==
    /\ job # "archive" => /\ daemon = "down" /\ \A w \in Workers : work[w] = "idle"
                          /\ txn.by \notin Workers \cup {"nqd"}
                          /\ sealed.by # "archive"
    /\ job # "restore" => files["dest"] = NoFile /\ initializing = NoEnvelope
    /\ job # "upgrade" => Log.receipts = <<>> /\ before = <<>>
    /\ job # "carry" => Log.carried = {}

IsSeq(s) == Len(s) \in Nat /\ s = [i \in 1..Len(s) |-> s[i]]

\* One migration, one receipt.
ReceiptInv ==
    /\ IsSeq(Log.receipts) /\ IsSeq(before) /\ Len(before) = Len(Log.receipts)
    /\ ReceiptsAnchored

\* What a carry that may commit has established of the archive it names.
Carries(o) ==
    /\ o.digest \in DOMAIN Snapshots
    /\ ~ Snapshots[o.digest].unresolved /\ Snapshots[o.digest].declaration = o.permits
    /\ Snapshots[o.digest].start <= o.declared /\ o.declared < Snapshots[o.digest].end

\* Until it has hashed the archive again, this holds only of an archive that was
\* not replaced since it was verified.
Carrying ==
    /\ DOMAIN sealed = {"by", "version", "replaced"} /\ sealed.version \in DOMAIN Snapshots
    /\ op.pc \in {"inspect", "read", "rehash"} =>
         op.digest \in DOMAIN Snapshots /\ (sealed.version = op.digest \/ sealed.replaced)
    /\ op.pc = "read" /\ sealed.version = op.digest =>
         (op.permits = Snapshots[op.digest].declaration => ~ Snapshots[op.digest].unresolved)
    /\ op.pc = "rehash" /\ sealed.version = op.digest => Carries(op)
    /\ op.pc \in {"open", "trim", "carry"} => Carries(op)

CarryInv == (job = "carry" => Carrying) /\ CarryIsAnchored

\* The copy a restore works on is the live store, but for the envelope.
Restoring ==
    /\ Log = [Log EXCEPT !.envelope = Log.envelope]
    /\ op.pc \in {"readmit", "fold", "publish"} =>
         /\ IsFile(files["copy"]) /\ IsContent(files["copy"].log)
         /\ files["copy"].log = [Log EXCEPT !.envelope = files["copy"].log.envelope]
    /\ op.pc \in {"fold", "publish"} => files["copy"].log.envelope.observed.device = elsewhere
    /\ op.pc \in {"readmit", "publish"} => files["copy"].db = files["copy"].log
    /\ op.pc = "cleanup" \/ initializing # NoEnvelope => IsFile(files["dest"])

RestoreInv == (job = "restore" => Restoring) /\ RestoredIsWhole

IInv ==
    /\ PermitInv /\ StepInv /\ FileInv /\ OwnInv
    /\ ReceiptInv /\ ArchiveDeclaresItsDatabase /\ CarryInv /\ RestoreInv

-----------------------------------------------------------------------------
(* Operators of the store.                                                  *)

LEMMA FoldFacts ==
    ASSUME NEW f, IsFile(f)
    PROVE  IsFile(Fold(f)) /\ Fold(f).log = f.log /\ Fold(f).db = f.log
BY Zenon DEF Fold, IsFile, FileFields

LEMMA CheckpointedFacts ==
    ASSUME NEW f, IsFile(f)
    PROVE  IsFile(Checkpointed(f)) /\ Checkpointed(f).log = f.log /\ Checkpointed(f).db = f.log
BY FoldFacts, Zenon DEF Checkpointed, Truncate, Fold, IsFile, FileFields

\* A file is not the absence of one.
LEMMA FileIsPresent ==
    ASSUME NEW f, IsFile(f)
    PROVE  f # NoFile
BY DEF IsFile, FileFields, NoFile

\* What a step keeps of the live store.
LiveKept == files' = [p \in Paths |-> files'[p]] /\ IsFile(files'["live"]) /\ Log' = Log

LEMMA ReadyFacts == DOMAIN Ready = OpFields /\ Ready.pc = "ready"
BY Zenon DEF Ready, OpFields

\* The next step of a command.
LEMMA GoToFacts ==
    ASSUME DOMAIN op = OpFields, NEW pc, GoTo(pc)
    PROVE  /\ DOMAIN op' = OpFields /\ op'.pc = pc /\ op'.digest = op.digest
           /\ op'.permits = op.permits /\ op'.declared = op.declared /\ op'.envelope = op.envelope
BY Zenon DEF GoTo, OpFields

\* The steps each command meets.
LEMMA ByJob ==
    ASSUME IInv, Next
    PROVE  \/ job = "upgrade" /\ (Crowd \/ Clear \/ OperatorKilled \/ OldWriter \/ UpgradeStep)
           \/ job = "archive" /\ (Crowd \/ Clear \/ Read \/ OperatorKilled \/ ArchiveStep \/ DaemonStep)
           \/ job = "restore" /\ (Crowd \/ Clear \/ OperatorKilled \/ RestoreStep)
           \/ job = "carry" /\ (Clear \/ Tick \/ OperatorKilled \/ CarryStep)
<1>1. job \in {"upgrade", "archive", "restore", "carry"}
  BY Zenon DEF IInv, StepInv
<1>2. /\ Crowd => job # "carry"
      /\ Read => job = "archive"
      /\ Tick => job = "carry"
      /\ OldWriter => job = "upgrade"
  BY Zenon DEF Crowd, Read, Tick, OldWriter
<1>3. UpgradeStep => job = "upgrade"
  <2>1. op.pc = "truncate" => job = "upgrade"
    BY Zenon DEF IInv, StepInv, ArchivePcs, RestorePcs, CarryPcs
  <2> QED
    BY <2>1, Zenon DEF UpgradeStep, UpgradeStarts, UpgradeReadsSource, UpgradeCopies, FinalizeUpgradeBackup,
       UpgradeAdmits, UpgradeTruncates, UpgradeMigrates, RecordFullValidation, UpgradeEnds
<1>4. ArchiveStep => job = "archive"
  <2>1. op.pc \in {"declare", "archive", "preserve", "freeze", "seal", "backup"} => job = "archive"
    BY Zenon DEF IInv, StepInv, UpgradePcs, RestorePcs, CarryPcs
  <2> QED
    BY <2>1, Zenon DEF ArchiveStep, ArchiveOpens, RetentionDeclaration, ArchiveCopies, PrepareArchiveCopy,
       ArchiveSeals, BackupOpens, BackupCopies
<1>5. RestoreStep => job = "restore"
  <2>1. op.pc \in {"readmit", "fold", "publish", "cleanup"} => job = "restore"
    BY Zenon DEF IInv, StepInv, UpgradePcs, ArchivePcs, CarryPcs
  <2>2. initializing # NoEnvelope => job = "restore"
    BY Zenon DEF IInv, OwnInv
  <2> QED
    BY <2>1, <2>2, Zenon DEF RestoreStep, RestoreOpens, RestoreCopies, ReadmitRestoredCopy, RestoreFolds,
       RestorePublishes, RestoreEnds, InitializeCreates, InitializeAdmits
<1>6. CarryStep => job = "carry"
  <2>1. op.pc \in {"inspect", "read", "rehash", "open", "trim", "carry"} => job = "carry"
    BY Zenon DEF IInv, StepInv, UpgradePcs, ArchivePcs, RestorePcs
  <2> QED
    BY <2>1, Zenon DEF CarryStep, CarryVerifies, InspectRollover, CarryReads, CarryRehashes, CarryBegins,
       CarryTruncates, CarryCommits, CarryAgain, DeclareBegins, DeclareTruncates, DeclareMaintenance,
       ReplaceArchive
<1>7. DaemonStep => job = "archive"
  <2> SUFFICES ASSUME DaemonStep, job # "archive"
               PROVE  FALSE
    BY Zenon
  <2>1. daemon = "down" /\ (\A w \in Workers : work[w] = "idle") /\ txn.by \notin Workers \cup {"nqd"}
    BY Zenon DEF IInv, OwnInv
  <2>2. ~ (DaemonStart \/ Terminate \/ ServiceFails \/ StopOpens \/ ProcessEnds \/ DaemonKilled)
    BY <2>1, Zenon DEF DaemonStart, Terminate, ServiceFails, StopOpens, ProcessEnds, DaemonKilled
  <2>3. ~ (NqdBegin \/ NqdTruncate \/ NqdCommit)
    BY <2>1 DEF NqdBegin, NqdTruncate, NqdCommit, TruncateLog
  <2>4. ASSUME NEW w \in Workers
        PROVE  ~ (WorkerAsks(w) \/ WorkerStarts(w) \/ WorkerOpens(w) \/ WorkerBegins(w)
                    \/ WorkerTruncates(w) \/ WorkerCommits(w) \/ AbortTask(w))
    BY <2>1 DEF WorkerAsks, WorkerStarts, WorkerOpens, WorkerBegins, WorkerTruncates, WorkerCommits,
       AbortTask, TruncateLog
  <2> QED
    BY <2>2, <2>3, <2>4, Zenon DEF DaemonStep
<1> QED
  BY <1>1, <1>2, <1>3, <1>4, <1>5, <1>6, <1>7, Zenon DEF Next

\* A step of a command that leaves the content of the live store, the archive
\* and the destination alone.
Command ==
    /\ LiveKept /\ files'["dest"] = files["dest"]
    /\ UNCHANGED <<job, daemon, work, permit, sealed, before, initializing, elsewhere>>
    /\ DOMAIN op' = OpFields /\ txn'.by \in {txn.by, "nobody", "operator"}
    /\ job = "upgrade" => op'.pc \in UpgradePcs /\ backups \subseteq backups'
    /\ job = "archive" => op'.pc \in ArchivePcs
    /\ job = "restore" => op'.pc \in RestorePcs /\ Restoring'
    /\ job = "carry" => op'.pc \in CarryPcs /\ Carrying'

\* A migration of any version appends its receipt.
LEMMA ReceiptedFacts ==
    ASSUME NEW db, IsContent(db), NEW to, NEW digest
    PROVE  LET m == Receipted(db, to, digest) IN
           /\ IsContent(m) /\ m.schema = to /\ m.carried = db.carried
           /\ m.rows = db.rows /\ m.pages = db.pages /\ m.envelope = db.envelope
           /\ m.receipts = Append(db.receipts, [from |-> db.schema, to |-> to, backup |-> digest])
BY Zenon DEF Receipted, IsContent, ContentFields

LEMMA MigratedFacts ==
    ASSUME NEW db, IsContent(db), db.schema \in Versions, NEW e, NEW digest,
           NEW m, m = Migrated(db, e, digest)
    PROVE  /\ IsContent(m) /\ m.schema \in Versions /\ m.carried = db.carried
           /\ m.receipts = Append(db.receipts, [from |-> db.schema, to |-> m.schema, backup |-> digest])
           /\ db.schema < m.schema => db.schema < Current
           /\ m.rows = db.rows /\ m.pages = db.pages /\ m.envelope \in {db.envelope, e}
           /\ m.schema < 14 => db.schema < 14 /\ m.envelope = db.envelope
<1> DEFINE R(to) == Receipted(db, to, digest)
<1>1. \A to \in Versions :
        /\ IsContent(R(to)) /\ R(to).schema = to /\ R(to).carried = db.carried
        /\ R(to).rows = db.rows /\ R(to).pages = db.pages /\ R(to).envelope = db.envelope
        /\ R(to).receipts = Append(db.receipts, [from |-> db.schema, to |-> to, backup |-> digest])
  BY ReceiptedFacts
<1>2. \E to \in Versions :
        /\ \/ m = R(to)
           \/ m = [R(to) EXCEPT !.gaps = db.rows]
           \/ m = [R(to) EXCEPT !.envelope = e] /\ to = 14
        /\ db.schema = Current => to = Current
        /\ to < 14 => db.schema < 14
  <2> HIDE DEF R
  <2>1. CASE db.schema = 3
    BY <2>1 DEF Migrated, UpgradeV3ToV4, R, Versions, Current
  <2>2. CASE db.schema = 4
    BY <2>2 DEF Migrated, UpgradeV4ToV5, R, Versions, Current
  <2>3. CASE db.schema = 5
    BY <2>3 DEF Migrated, UpgradeV5ToV12, R, Versions, Current
  <2>4. CASE db.schema = 12
    BY <2>4 DEF Migrated, UpgradeV12ToV13, R, Versions, Current
  <2>5. CASE db.schema = 13
    BY <2>5 DEF Migrated, UpgradeV13ToV14, R, Versions, Current
  <2>6. CASE db.schema = 14
    BY <2>6 DEF Migrated, UpgradeV14ToV15, R, Versions, Current
  <2>7. CASE db.schema = Current
    BY <2>7 DEF Migrated, AlreadyCurrent, R, Versions, Current
  <2> QED
    BY <2>1, <2>2, <2>3, <2>4, <2>5, <2>6, <2>7, Zenon DEF Versions
<1>3. PICK to \in Versions :
        /\ \/ m = R(to)
           \/ m = [R(to) EXCEPT !.gaps = db.rows]
           \/ m = [R(to) EXCEPT !.envelope = e] /\ to = 14
        /\ db.schema = Current => to = Current
        /\ to < 14 => db.schema < 14
  BY <1>2, Zenon
<1> HIDE DEF R
<1>4. IsContent(m) /\ m.schema = to /\ m.carried = db.carried /\ m.receipts = R(to).receipts
  BY <1>1, <1>3, ZenonT(30) DEF IsContent, ContentFields
<1>5. db.schema < m.schema => db.schema < Current
  BY <1>3, <1>4 DEF Versions, Current
<1>6. m.rows = db.rows /\ m.pages = db.pages /\ m.envelope \in {db.envelope, e}
      /\ (to # 14 => m.envelope = db.envelope)
  BY <1>1, <1>3, ZenonT(30) DEF IsContent, ContentFields
<1>7. m.schema < 14 => db.schema < 14 /\ m.envelope = db.envelope
  BY <1>3, <1>4, <1>6
<1> QED
  BY <1>1, <1>4, <1>5, <1>6, <1>7, ZenonT(60)

LEMMA IdleFacts ==
    ASSUME UNCHANGED Idle
    PROVE  UNCHANGED <<daemon, work, permit, sealed, before, initializing>>
BY Zenon DEF Idle, service, ledger

LEMMA QuietFacts ==
    ASSUME UNCHANGED Quiet
    PROVE  UNCHANGED <<job, op, sealed, before, initializing>>
BY Zenon DEF Quiet, ledger

-----------------------------------------------------------------------------
\* IInv holds in every behaviour of the commands and the service.  The steps whose
\* names end in Facts say what an operator of the store does, the others that an
\* action, or a kind of action, preserves IInv; NextInv puts them together.
THEOREM Inductive == Spec => []IInv
<1>AppendFramesFacts.
      ASSUME NEW f, IsFile(f), NEW db, NEW n
      PROVE  /\ IsFile(AppendFrames(f, db, n))
             /\ AppendFrames(f, db, n).log = db /\ AppendFrames(f, db, n).db = f.db
  BY <1>AppendFramesFacts, Zenon DEF AppendFrames, IsFile, FileFields

<1>NewFileFacts.
      ASSUME NEW db
      PROVE  IsFile(NewFile(db)) /\ NewFile(db).log = db /\ NewFile(db).db = db
  BY <1>NewFileFacts, Zenon DEF NewFile, IsFile, FileFields

<1>PutFacts.
      ASSUME files = [p \in Paths |-> files[p]], NEW q \in Paths, NEW f, Put(q, f)
      PROVE  /\ files' = [p \in Paths |-> files'[p]] /\ files'[q] = f
             /\ \A p \in Paths \ {q} : files'[p] = files[p]
  BY <1>PutFacts, Zenon DEF Put

<1>BeginWriteFacts.
      ASSUME FileInv, NEW who, BeginWrite(who)
      PROVE  /\ LiveKept /\ files'["copy"] = files["copy"] /\ files'["dest"] = files["dest"]
             /\ txn'.by = who /\ UNCHANGED <<backups, elsewhere>>
  <2> USE <1>BeginWriteFacts
  <2>1. Put("live", Fold(files["live"])) /\ IsFile(files["live"]) /\ files = [p \in Paths |-> files[p]]
        /\ {"live", "copy", "dest"} \subseteq Paths
    BY Zenon DEF BeginWrite, FileInv, Paths
  <2>2. txn'.by = who /\ UNCHANGED <<backups, elsewhere>>
    BY Zenon DEF BeginWrite
  <2>3. files' = [p \in Paths |-> files'[p]] /\ files'["live"] = Fold(files["live"])
        /\ files'["copy"] = files["copy"] /\ files'["dest"] = files["dest"]
    BY <2>1, <1>PutFacts, ZenonT(60)
  <2> QED
    BY <2>1, <2>2, <2>3, FoldFacts, Zenon DEF LiveKept, Log

<1>TruncateLogFacts.
      ASSUME FileInv, NEW who, NEW e, TruncateLog(who, e)
      PROVE  /\ LiveKept /\ files'["copy"] = files["copy"] /\ files'["dest"] = files["dest"]
             /\ txn.by = who /\ txn'.by \in {who, "nobody"} /\ UNCHANGED <<backups, elsewhere>>
             /\ txn' # NoTxn => txn'.by = who
  <2> USE <1>TruncateLogFacts
  <2>1. Put("live", Checkpointed(files["live"])) /\ IsFile(files["live"])
        /\ files = [p \in Paths |-> files[p]] /\ {"live", "copy", "dest"} \subseteq Paths
    BY Zenon DEF TruncateLog, FileInv, Paths
  <2>2. txn.by = who /\ UNCHANGED <<backups, elsewhere>>
        /\ (txn' = [by |-> who, at |-> "writing"] \/ txn' = NoTxn)
    BY Zenon DEF TruncateLog
  <2>3. files' = [p \in Paths |-> files'[p]] /\ files'["live"] = Checkpointed(files["live"])
        /\ files'["copy"] = files["copy"] /\ files'["dest"] = files["dest"]
    BY <2>1, <1>PutFacts, ZenonT(60)
  <2>4. txn'.by \in {who, "nobody"} /\ (txn' # NoTxn => txn'.by = who)
    BY <2>2 DEF NoTxn
  <2> QED
    BY <2>1, <2>2, <2>3, <2>4, CheckpointedFacts, Zenon DEF LiveKept, Log

<1>CommitFacts.
      ASSUME FileInv, NEW db, NEW n, Commit(db, n)
      PROVE  /\ files' = [p \in Paths |-> files'[p]] /\ IsFile(files'["live"]) /\ Log' = db
             /\ files'["copy"] = files["copy"] /\ files'["dest"] = files["dest"]
             /\ txn'.by = "nobody" /\ UNCHANGED <<backups, elsewhere>>
  <2> USE <1>CommitFacts
  <2>1. Put("live", AppendFrames(files["live"], db, n)) /\ IsFile(files["live"])
        /\ files = [p \in Paths |-> files[p]] /\ {"live", "copy", "dest"} \subseteq Paths
    BY Zenon DEF Commit, FileInv, Paths
  <2>2. txn'.by = "nobody" /\ UNCHANGED <<backups, elsewhere>>
    BY Zenon DEF Commit, NoTxn
  <2>3. files' = [p \in Paths |-> files'[p]] /\ files'["live"] = AppendFrames(files["live"], db, n)
        /\ files'["copy"] = files["copy"] /\ files'["dest"] = files["dest"]
    BY <2>1, <1>PutFacts, ZenonT(60)
  <2> QED
    BY <2>1, <2>2, <2>3, <1>AppendFramesFacts DEF Log

\* The private copy goes away or is made.
<1>CopyChanges.
      ASSUME FileInv, NEW f, files' = [files EXCEPT !["copy"] = f]
      PROVE  LiveKept /\ files'["copy"] = f /\ files'["dest"] = files["dest"]
  BY <1>CopyChanges, ZenonT(30) DEF FileInv, LiveKept, Log, Paths

<1>FailFacts.
      ASSUME FileInv, Fail
      PROVE  /\ LiveKept /\ files'["dest"] = files["dest"] /\ op' = Ready
             /\ txn'.by \in {txn.by, "nobody"} /\ UNCHANGED <<backups, elsewhere, job>>
             /\ txn.by # "operator" => txn' = txn
  <2> USE <1>FailFacts
  <2>1. LiveKept /\ files'["dest"] = files["dest"]
    BY <1>CopyChanges, ZenonT(30) DEF Fail
  <2>2. txn'.by \in {txn.by, "nobody"} /\ (txn.by # "operator" => txn' = txn)
    BY Zenon DEF Fail, NoTxn
  <2> QED
    BY <2>1, <2>2, Zenon DEF Fail

<1>CopyLiveFacts.
      ASSUME FileInv, CopyLive
      PROVE  /\ LiveKept /\ files'["dest"] = files["dest"] /\ UNCHANGED <<txn, backups, elsewhere>>
             /\ IsFile(files'["copy"]) /\ files'["copy"].log = Log /\ files'["copy"].db = Log
  <2> USE <1>CopyLiveFacts
  <2>1. LiveKept /\ files'["dest"] = files["dest"] /\ files'["copy"] = NewFile(Log)
        /\ UNCHANGED <<txn, backups, elsewhere>>
    BY <1>CopyChanges, ZenonT(30) DEF CopyLive, Visible, Log
  <2> QED
    BY <2>1, <1>NewFileFacts, Zenon

(* One command at a time.                                                   *)
\* The parts of the invariant that belong to other commands.
<1>OthersHold.
      ASSUME OwnInv'
      PROVE  /\ job' # "upgrade" => ReceiptInv'
             /\ job' # "archive" => ArchiveDeclaresItsDatabase'
             /\ job' # "carry" => CarryInv'
             /\ job' # "restore" => RestoreInv'
  <2> USE <1>OthersHold
  <2>1. job' # "upgrade" => ReceiptInv'
    <3> SUFFICES ASSUME job' # "upgrade" PROVE ReceiptInv'
      BY Zenon
    <3>1. Log'.receipts = <<>> /\ before' = <<>>
      BY Zenon DEF OwnInv
    <3> QED
      BY <3>1 DEF ReceiptInv, IsSeq, ReceiptsAnchored, Log, Visible
  <2>2. job' # "archive" => ArchiveDeclaresItsDatabase'
    BY Zenon DEF OwnInv, ArchiveDeclaresItsDatabase
  <2>3. job' # "carry" => CarryInv'
    BY Zenon DEF OwnInv, CarryInv, CarryIsAnchored, Log, Visible
  <2>4. job' # "restore" => RestoreInv'
    BY Zenon DEF OwnInv, RestoreInv, RestoredIsWhole, Present
  <2> QED
    BY <2>1, <2>2, <2>3, <2>4, Zenon

\* A step of a command that has the store to itself.
<1>AloneInv.
      ASSUME IInv, job # "archive", job' = job, StepInv', FileInv',
             UNCHANGED <<daemon, work>>, txn'.by \in {txn.by, "nobody", "operator", "declarer"},
             sealed' = sealed \/ sealed'.by = "operator",
             job # "restore" => files'["dest"] = files["dest"] /\ initializing' = initializing,
             job # "upgrade" => Log'.receipts = Log.receipts /\ before' = before,
             job # "carry" => Log'.carried = Log.carried,
             job = "upgrade" => ReceiptInv', job = "carry" => CarryInv', job = "restore" => RestoreInv'
      PROVE  IInv'
  <2> USE <1>AloneInv
  <2>1. {"nobody", "operator", "declarer"} \cap (Workers \cup {"nqd"}) = {}
    BY MaintenanceAssumption, Zenon
  <2>2. OwnInv /\ PermitInv
    BY Zenon DEF IInv
  <2>3. /\ daemon' = "down" /\ \A w \in Workers : work'[w] = "idle"
        /\ txn'.by \notin Workers \cup {"nqd"} /\ sealed'.by # "archive"
    BY <2>1, <2>2, Zenon DEF OwnInv
  <2>4. OwnInv'
    BY <2>2, <2>3, Zenon DEF OwnInv
  <2>5. PermitInv'
    BY <2>2, <2>3, Zenon DEF PermitInv, Busy
  <2> QED
    BY <2>4, <2>5, <1>OthersHold, Zenon DEF IInv

<1>KeptFiles.
      ASSUME FileInv, LiveKept
      PROVE  FileInv'
  BY <1>KeptFiles, Zenon DEF FileInv, LiveKept, Log

<1>ReceiptFrame.
      ASSUME ReceiptInv, Log'.receipts = Log.receipts, Log'.schema = Log.schema, before' = before,
             backups \subseteq backups'
      PROVE  ReceiptInv'
  <2> USE <1>ReceiptFrame
  <2>1. IsSeq(Log.receipts)' /\ IsSeq(before)' /\ Len(before)' = Len(Log.receipts)'
    BY Zenon DEF ReceiptInv
  <2>2. ReceiptsAnchored'
    BY Zenon DEF ReceiptInv, ReceiptsAnchored, Log, Visible, Schema
  <2> QED
    BY <2>1, <2>2, Zenon DEF ReceiptInv

<1>CommandInv.
      ASSUME IInv, Command
      PROVE  IInv'
  <2> USE <1>CommandInv
  <2>1. /\ PermitInv /\ StepInv /\ FileInv /\ OwnInv
        /\ ReceiptInv /\ ArchiveDeclaresItsDatabase /\ CarryInv /\ RestoreInv
    BY Zenon DEF IInv
  <2>2. FileInv' /\ Log' = Log /\ StepInv'
    BY <2>1, <1>KeptFiles, Zenon DEF StepInv, LiveKept, Command
  <2>3. /\ UNCHANGED <<job, daemon, work, permit, sealed, before, initializing, elsewhere>>
        /\ files'["dest"] = files["dest"] /\ txn'.by \in {txn.by, "nobody", "operator"}
        /\ job = "upgrade" => backups \subseteq backups'
        /\ job = "restore" => Restoring'
        /\ job = "carry" => Carrying'
    BY Zenon DEF Command
  <2>4. job = "upgrade" => ReceiptInv'
    BY <2>1, <2>2, <2>3, <1>ReceiptFrame, Zenon
  <2>5. job = "carry" => CarryInv'
    BY <2>1, <2>2, <2>3, Zenon DEF CarryInv, CarryIsAnchored, Log, Visible
  <2>6. job = "restore" => RestoreInv'
    BY <2>1, <2>2, <2>3, Zenon DEF RestoreInv, RestoredIsWhole, Log, Visible, Present
  <2>7. CASE job # "archive"
    BY <2>2, <2>3, <2>4, <2>5, <2>6, <2>7, <1>AloneInv, Zenon
  <2>8. CASE job = "archive"
    <3>1. OwnInv'
      BY <2>1, <2>2, <2>3, <2>8, Zenon DEF OwnInv
    <3>2. ArchiveDeclaresItsDatabase'
      BY <2>1, <2>3, Zenon DEF ArchiveDeclaresItsDatabase
    <3>3. {"nobody", "operator"} \cap Workers = {}
      BY MaintenanceAssumption, Zenon
    <3>4. PermitInv'
      BY <2>1, <2>3, <3>3, Zenon DEF PermitInv
    <3> QED
      BY <2>2, <2>3, <2>8, <3>1, <3>2, <3>4, <1>OthersHold, Zenon DEF IInv
  <2> QED
    BY <2>7, <2>8, Zenon

\* A command that ends, by its own error or not, may start again.
<1>EndsInv.
      ASSUME IInv, LiveKept, files'["dest"] = files["dest"], op' = Ready, backups' = backups,
             UNCHANGED <<job, daemon, work, permit, sealed, before, initializing, elsewhere>>,
             txn'.by \in {txn.by, "nobody", "operator"}
      PROVE  IInv'
  <2> USE <1>EndsInv
  <2>1. DOMAIN op' = OpFields /\ op'.pc = "ready"
    BY ReadyFacts, Zenon
  <2>2. job = "restore" => Restoring'
    BY <2>1, Zenon DEF IInv, RestoreInv, Restoring, LiveKept
  <2>3. job = "carry" => Carrying'
    BY <2>1, Zenon DEF IInv, CarryInv, Carrying
  <2>4. Command
    BY <2>1, <2>2, <2>3, Zenon DEF Command, UpgradePcs, ArchivePcs, RestorePcs, CarryPcs
  <2> QED
    BY <2>4, <1>CommandInv, Zenon

<1>FailInv.
      ASSUME IInv, Fail, UNCHANGED <<daemon, work, permit, sealed, before, initializing>>
      PROVE  IInv'
  <2> USE <1>FailInv
  <2>1. FileInv
    BY Zenon DEF IInv
  <2> QED
    BY <2>1, <1>FailFacts, <1>EndsInv, Zenon

<1>OperatorKilledInv.
      ASSUME IInv, OperatorKilled
      PROVE  IInv'
  <2> USE <1>OperatorKilledInv
  <2>1. FileInv
    BY Zenon DEF IInv
  <2>2. LiveKept /\ files'["dest"] = files["dest"]
    BY <2>1, <1>CopyChanges, ZenonT(30) DEF OperatorKilled
  <2>3. txn'.by \in {txn.by, "nobody", "operator"}
    BY Zenon DEF OperatorKilled, NoTxn
  <2>4. /\ op' = Ready /\ backups' = backups
        /\ UNCHANGED <<job, daemon, work, permit, sealed, before, initializing, elsewhere>>
    BY Zenon DEF OperatorKilled, service, ledger
  <2> QED
    BY <2>2, <2>3, <2>4, <1>EndsInv, Zenon

\* Unrelated files, readers, the clock and stuttering.
<1>AsideInv.
      ASSUME IInv, UNCHANGED <<files, elsewhere, backups, txn, command, service, sealed, before, initializing>>
      PROVE  IInv'
  <2> USE <1>AsideInv
  <2>1. /\ UNCHANGED <<files, elsewhere, backups, txn, job, op, sealed, before, initializing>>
        /\ UNCHANGED <<daemon, work, permit>>
    BY Zenon DEF command, service
  <2>2. job = "restore" => Restoring'
    BY <2>1, Zenon DEF IInv, RestoreInv, Restoring, Log
  <2>3. job = "carry" => Carrying'
    BY <2>1, Zenon DEF IInv, CarryInv, Carrying, Carries
  <2>4. LiveKept
    BY <2>1, Zenon DEF IInv, FileInv, LiveKept, Log
  <2>5. Command
    BY <2>1, <2>2, <2>3, <2>4, Zenon DEF Command, IInv, StepInv
  <2> QED
    BY <2>5, <1>CommandInv, Zenon

(* nq admin upgrade.                                                        *)
<1>SeqIsSeq.
      ASSUME NEW S, NEW s \in Seq(S)
      PROVE  IsSeq(s)
  <2> USE <1>SeqIsSeq
  <2>1. Len(s) \in Nat /\ s \in [1..Len(s) -> S]
    OBVIOUS
  <2>2. s = [i \in 1..Len(s) |-> s[i]]
    BY <2>1, Zenon
  <2> QED
    BY <2>1, <2>2, Zenon DEF IsSeq

<1>AppendIsSeq.
      ASSUME NEW s, IsSeq(s), NEW e
      PROVE  /\ IsSeq(Append(s, e)) /\ Len(Append(s, e)) = Len(s) + 1
             /\ Append(s, e)[Len(s) + 1] = e
             /\ \A i \in 1..Len(s) : Append(s, e)[i] = s[i]
  <2> USE <1>AppendIsSeq
  <2> DEFINE S == {s[i] : i \in 1..Len(s)} \cup {e}
  <2>1. s \in Seq(S)
    <3>1. Len(s) \in Nat /\ s \in [1..Len(s) -> S]
      BY Zenon DEF IsSeq
    <3> QED
      BY <3>1
  <2>2. /\ Append(s, e) \in Seq(S) /\ Len(Append(s, e)) = Len(s) + 1
        /\ \A i \in 1..(Len(s) + 1) : Append(s, e)[i] = IF i <= Len(s) THEN s[i] ELSE e
    <3> HIDE DEF S
    <3>1. e \in S
      BY Zenon DEF S
    <3> QED
      BY <2>1, <3>1
  <2>3. Len(s) \in Nat
    BY Zenon DEF IsSeq
  <2>4. IsSeq(Append(s, e))
    BY <2>2, <1>SeqIsSeq, ZenonT(30)
  <2> QED
    BY <2>2, <2>3, <2>4

\* The receipt of a migration names the backup of the state it migrated.
<1>NewReceipt.
      ASSUME ReceiptInv, Log.schema \in Versions, NEW digest, NEW to \in Versions,
             Log'.schema = to,
             Log'.receipts = Append(Log.receipts, [from |-> Log.schema, to |-> to, backup |-> digest]),
             before' = Append(before, LogicalDigest(Log)), backups' = backups,
             digest \in backups,
             Log.schema < to => digest = LogicalDigest(Log)
      PROVE  ReceiptInv'
  <2> USE <1>NewReceipt
  <2> DEFINE n == Len(Log.receipts)
             r == [from |-> Log.schema, to |-> to, backup |-> digest]
  <2>1. /\ IsSeq(Log.receipts) /\ IsSeq(before) /\ Len(before) = n /\ n \in Nat /\ ReceiptsAnchored
    BY Zenon DEF ReceiptInv, IsSeq
  <2>2. /\ IsSeq(Log'.receipts) /\ Len(Log'.receipts) = n + 1 /\ Log'.receipts[n + 1] = r
        /\ \A i \in 1..n : Log'.receipts[i] = Log.receipts[i]
    BY <2>1, <1>AppendIsSeq
  <2>3. /\ IsSeq(before') /\ Len(before') = n + 1 /\ before'[n + 1] = LogicalDigest(Log)
        /\ \A i \in 1..n : before'[i] = before[i]
    BY <2>1, <1>AppendIsSeq
  <2>4. r.from = Log.schema /\ r.to = to /\ r.backup = digest
    BY Zenon
  <2> HIDE DEF r, n
  <2>5. ASSUME NEW i \in 1..Len(Log'.receipts)
        PROVE  /\ Log'.receipts[i].backup \in backups'
               /\ Log'.receipts[i].from < Log'.receipts[i].to => Log'.receipts[i].backup = before'[i]
               /\ Log'.receipts[i].to = IF i = Len(Log'.receipts) THEN Log'.schema
                                        ELSE Log'.receipts[i + 1].from
    <3>1. CASE i = n + 1
      BY <2>2, <2>3, <2>4, <3>1, Zenon
    <3>2. CASE i # n + 1
      <4>1. i \in 1..n /\ i # Len(Log'.receipts) /\ Log'.receipts[i] = Log.receipts[i] /\ before'[i] = before[i]
        BY <2>1, <2>2, <2>3, <3>2
      <4>2. /\ Log.receipts[i].backup \in backups
            /\ Log.receipts[i].from < Log.receipts[i].to => Log.receipts[i].backup = before[i]
            /\ Log.receipts[i].to = IF i = n THEN Log.schema ELSE Log.receipts[i + 1].from
        BY <2>1, <4>1, ZenonT(30) DEF ReceiptsAnchored, Log, Visible, Schema, n
      <4>3. Log'.receipts[i + 1].from = IF i = n THEN Log.schema ELSE Log.receipts[i + 1].from
        BY <2>1, <2>2, <2>4, <4>1
      <4> QED
        BY <4>1, <4>2, <4>3, Zenon
    <3> QED
      BY <3>1, <3>2, ZenonT(30)
  <2>6. ReceiptsAnchored'
    BY <2>5, ZenonT(30) DEF ReceiptsAnchored, Log, Visible, Schema
  <2> QED
    BY <2>2, <2>3, <2>6, Zenon DEF ReceiptInv

\* The steps of an upgrade that leave the content of the store alone.
<1>UpgradeGoes.
      ASSUME IInv, job = "upgrade", LiveKept, files'["dest"] = files["dest"], DOMAIN op' = OpFields,
             op'.pc \in UpgradePcs, txn'.by \in {txn.by, "nobody", "operator"},
             backups \subseteq backups',
             UNCHANGED <<job, daemon, work, permit, sealed, before, initializing, elsewhere>>
      PROVE  IInv'
  <2> USE <1>UpgradeGoes
  <2>1. Command
    BY Zenon DEF Command
  <2> QED
    BY <2>1, <1>CommandInv, Zenon

\* Nothing of the store is touched.
<1>StoredFacts.
      ASSUME FileInv, UNCHANGED storage
      PROVE  LiveKept /\ UNCHANGED <<files, txn, backups, elsewhere>>
  BY <1>StoredFacts, Zenon DEF FileInv, LiveKept, Log, storage

<1>UpgradeReadsInv.
      ASSUME IInv, UpgradeStarts \/ UpgradeReadsSource \/ UpgradeCopies \/ UpgradeEnds
      PROVE  IInv'
  <2> USE <1>UpgradeReadsInv
  <2>1. FileInv /\ DOMAIN op = OpFields /\ job = "upgrade" /\ UNCHANGED Idle
    BY Zenon DEF IInv, StepInv, UpgradeStarts, UpgradeReadsSource, UpgradeCopies, UpgradeEnds
  <2>2. CASE Fail
    BY <2>1, <2>2, <1>FailInv, IdleFacts, Zenon
  <2>3. CASE ~ Fail
    <3>1. /\ UNCHANGED storage \/ CopyLive
          /\ job' = job
          /\ \/ op' = [op EXCEPT !.pc = "source", !.declared = Schema] \/ GoTo("done")
             \/ op' = [op EXCEPT !.pc = "copy", !.digest = LogicalDigest(Visible("live"))]
             \/ op' = [op EXCEPT !.pc = "finalize", !.digest = LogicalDigest(Visible("live"))]
      BY <2>1, <2>3, Zenon DEF UpgradeStarts, UpgradeReadsSource, UpgradeCopies, UpgradeEnds
    <3>2. DOMAIN op' = OpFields /\ op'.pc \in UpgradePcs
      BY <2>1, <3>1, ZenonT(30) DEF GoTo, OpFields, UpgradePcs
    <3>3. LiveKept /\ files'["dest"] = files["dest"] /\ UNCHANGED <<txn, backups, elsewhere>>
      BY <2>1, <3>1, <1>StoredFacts, <1>CopyLiveFacts, Zenon
    <3> QED
      BY <2>1, <3>1, <3>2, <3>3, IdleFacts, <1>UpgradeGoes, Zenon
  <2> QED
    BY <2>2, <2>3, Zenon

<1>FinalizeInv.
      ASSUME IInv, FinalizeUpgradeBackup
      PROVE  IInv'
  <2> USE <1>FinalizeInv
  <2>1. FileInv /\ DOMAIN op = OpFields /\ job = "upgrade" /\ UNCHANGED Idle /\ job' = job
    BY Zenon DEF IInv, StepInv, FinalizeUpgradeBackup
  <2>2. LiveKept /\ files'["dest"] = files["dest"]
    BY <2>1, <1>CopyChanges, ZenonT(30) DEF FinalizeUpgradeBackup
  <2>3. backups \subseteq backups' /\ UNCHANGED <<txn, elsewhere>> /\ (op' = Ready \/ GoTo("admit"))
    BY Zenon DEF FinalizeUpgradeBackup
  <2>4. DOMAIN op' = OpFields /\ op'.pc \in UpgradePcs
    BY <2>1, <2>3, ReadyFacts, GoToFacts, Zenon DEF UpgradePcs
  <2> QED
    BY <2>1, <2>2, <2>3, <2>4, IdleFacts, <1>UpgradeGoes, Zenon

<1>UpgradeWritesInv.
      ASSUME IInv, UpgradeAdmits \/ UpgradeTruncates, job = "upgrade"
      PROVE  IInv'
  <2> USE <1>UpgradeWritesInv
  <2>1. FileInv /\ DOMAIN op = OpFields /\ UNCHANGED Idle
    BY Zenon DEF IInv, StepInv, UpgradeAdmits, UpgradeTruncates
  <2>2. CASE Fail
    BY <2>1, <2>2, <1>FailInv, IdleFacts, Zenon
  <2>3. CASE UpgradeAdmits /\ ~ Fail
    <3>1. BeginWrite("operator") /\ job' = job /\ \E e : op' = [op EXCEPT !.pc = "truncate", !.envelope = e]
      BY <2>3, Zenon DEF UpgradeAdmits
    <3>2. DOMAIN op' = OpFields /\ op'.pc \in UpgradePcs
      BY <2>1, <3>1, Zenon DEF OpFields, UpgradePcs
    <3> QED
      BY <2>1, <3>1, <3>2, <1>BeginWriteFacts, IdleFacts, <1>UpgradeGoes, Zenon
  <2>4. CASE UpgradeTruncates
    <3>1. TruncateLog("operator", op.envelope) /\ job' = job /\ (op' = Ready \/ GoTo("migrate"))
      BY <2>4, Zenon DEF UpgradeTruncates
    <3>2. DOMAIN op' = OpFields /\ op'.pc \in UpgradePcs
      BY <2>1, <3>1, ReadyFacts, GoToFacts, Zenon DEF UpgradePcs
    <3> QED
      BY <2>1, <3>1, <3>2, <1>TruncateLogFacts, IdleFacts, <1>UpgradeGoes, Zenon
  <2> QED
    BY <2>2, <2>3, <2>4, Zenon

<1>UpgradeMigratesInv.
      ASSUME IInv, UpgradeMigrates
      PROVE  IInv'
  <2> USE <1>UpgradeMigratesInv
  <2>1. FileInv /\ ReceiptInv /\ DOMAIN op = OpFields /\ job = "upgrade"
        /\ UNCHANGED <<daemon, work, permit, sealed, initializing>>
    BY Zenon DEF IInv, StepInv, UpgradeMigrates, service
  <2>2. CASE Fail /\ before' = before
    BY <2>1, <2>2, <1>FailInv, Zenon
  <2>3. CASE ~ (Fail /\ before' = before)
    <3> DEFINE t == Migrated(Log, op.envelope, op.digest)
               m == Grown(t, Growth)
               pc == IF Schema \in {14, Current} THEN "certify" ELSE "source"
    <3>1. /\ SourceVerified(op.digest) /\ Commit(m, 1 + Growth) /\ GoTo(pc) /\ job' = job
          /\ before' = Append(before, LogicalDigest(Log))
      BY <2>3, Zenon DEF UpgradeMigrates, Log, Visible
    <3>2. DOMAIN op' = OpFields /\ op'.pc \in UpgradePcs
      BY <2>1, <3>1, GoToFacts, Zenon DEF UpgradePcs
    <3>3. /\ files' = [p \in Paths |-> files'[p]] /\ IsFile(files'["live"]) /\ Log' = m
          /\ files'["dest"] = files["dest"] /\ txn'.by = "nobody" /\ backups' = backups
      BY <2>1, <3>1, <1>CommitFacts, Zenon
    <3>4. /\ IsContent(m) /\ m.schema \in Versions /\ m.carried = Log.carried
          /\ m.receipts = Append(Log.receipts, [from |-> Log.schema, to |-> m.schema, backup |-> op.digest])
          /\ Log.schema < m.schema => Log.schema < Current
      <4>1. /\ IsContent(t) /\ t.schema \in Versions /\ t.carried = Log.carried
            /\ t.receipts = Append(Log.receipts, [from |-> Log.schema, to |-> t.schema, backup |-> op.digest])
            /\ Log.schema < t.schema => Log.schema < Current
        BY <2>1, MigratedFacts DEF FileInv
      <4> HIDE DEF t
      <4>2. IsContent(m) /\ m.schema = t.schema /\ m.carried = t.carried /\ m.receipts = t.receipts
        BY <4>1, Zenon DEF Grown, IsContent, ContentFields
      <4> QED
        BY <4>1, <4>2, Zenon
    <3>5. /\ op.digest \in backups
          /\ Log.schema < Current => op.digest = LogicalDigest(Log)
      BY <3>1, Zenon DEF SourceVerified, Log, Visible, Schema
    <3> HIDE DEF t, m, pc
    <3>6. ReceiptInv'
      BY <2>1, <3>1, <3>3, <3>4, <3>5, <1>NewReceipt, Zenon DEF FileInv
    <3>7. FileInv' /\ StepInv'
      BY <2>1, <3>1, <3>2, <3>3, <3>4, Zenon DEF FileInv, StepInv
    <3> QED
      BY <2>1, <3>1, <3>3, <3>4, <3>6, <3>7, <1>AloneInv, Zenon
  <2> QED
    BY <2>2, <2>3, Zenon

<1>CertifyInv.
      ASSUME IInv, RecordFullValidation
      PROVE  IInv'
  <2> USE <1>CertifyInv
  <2>1. FileInv /\ DOMAIN op = OpFields /\ job = "upgrade" /\ UNCHANGED Idle
    BY Zenon DEF IInv, StepInv, RecordFullValidation
  <2>2. CASE Fail
    BY <2>1, <2>2, <1>FailInv, IdleFacts, Zenon
  <2>3. CASE ~ Fail
    <3> DEFINE f == [files["live"] EXCEPT !.auxiliary = @ + WatermarkBytes]
    <3>1. Put("live", f) /\ GoTo("rename") /\ UNCHANGED <<job, txn, backups, elsewhere>>
      BY <2>3, Zenon DEF RecordFullValidation
    <3>2. IsFile(f) /\ f.log = Log
      BY <2>1, Zenon DEF FileInv, IsFile, FileFields, Log
    <3> HIDE DEF f
    <3>3. LiveKept /\ files'["dest"] = files["dest"]
      BY <2>1, <3>1, <3>2, <1>PutFacts, Zenon DEF FileInv, LiveKept, Log, Paths
    <3>4. DOMAIN op' = OpFields /\ op'.pc \in UpgradePcs
      BY <2>1, <3>1, GoToFacts, Zenon DEF UpgradePcs
    <3> QED
      BY <2>1, <3>1, <3>3, <3>4, IdleFacts, <1>UpgradeGoes, Zenon
  <2> QED
    BY <2>2, <2>3, Zenon

\* A row more.
<1>AddRowFacts.
      ASSUME NEW db, IsContent(db)
      PROVE  /\ IsContent(AddRow(db)) /\ AddRow(db).schema = db.schema
             /\ AddRow(db).receipts = db.receipts /\ AddRow(db).carried = db.carried
  BY <1>AddRowFacts, Zenon DEF AddRow, IsContent, ContentFields

<1>OldWriterInv.
      ASSUME IInv, OldWriter
      PROVE  IInv'
  <2> USE <1>OldWriterInv
  <2>1. FileInv /\ StepInv /\ ReceiptInv /\ job = "upgrade"
        /\ UNCHANGED <<job, op, daemon, work, permit, sealed, before, initializing, txn, backups>>
    BY Zenon DEF IInv, OldWriter, command, service, ledger
  <2>2. /\ IsContent(AddRow(Log)) /\ AddRow(Log).schema = Log.schema
        /\ AddRow(Log).receipts = Log.receipts /\ AddRow(Log).carried = Log.carried
    BY <2>1, <1>AddRowFacts, Zenon DEF FileInv
  <2>3. /\ files' = [p \in Paths |-> files'[p]] /\ files'["dest"] = files["dest"]
        /\ files'["live"] = AppendFrames(files["live"], AddRow(Log), 1)
    BY <2>1, <1>PutFacts, Zenon DEF OldWriter, FileInv, Paths, Log, Visible
  <2>4. IsFile(files'["live"]) /\ Log' = AddRow(Log)
    BY <2>1, <2>3, <1>AppendFramesFacts DEF FileInv, Log
  <2>5. FileInv' /\ StepInv'
    BY <2>1, <2>2, <2>3, <2>4, Zenon DEF FileInv, StepInv
  <2>6. ReceiptInv'
    BY <2>1, <2>2, <2>4, <1>ReceiptFrame, Zenon
  <2> QED
    BY <2>1, <2>2, <2>3, <2>4, <2>5, <2>6, <1>AloneInv, Zenon

(* The resident service.                                                    *)
\* A step of the service keeps receipts and declarations, and is no command.
<1>ServiceInv.
      ASSUME IInv, job = "archive", PermitInv', FileInv',
             Log'.receipts = Log.receipts, Log'.carried = Log.carried,
             files'["dest"] = files["dest"], UNCHANGED <<job, op, sealed, before, initializing>>
      PROVE  IInv'
  <2> USE <1>ServiceInv
  <2>1. StepInv /\ OwnInv /\ ArchiveDeclaresItsDatabase
    BY Zenon DEF IInv
  <2>2. StepInv' /\ OwnInv' /\ ArchiveDeclaresItsDatabase'
    BY <2>1, Zenon DEF StepInv, OwnInv, ArchiveDeclaresItsDatabase
  <2> QED
    BY <2>2, <1>OthersHold, Zenon DEF IInv

\* The same for a step that keeps the whole content.
<1>ServiceKept.
      ASSUME IInv, job = "archive", PermitInv', LiveKept, files'["dest"] = files["dest"], UNCHANGED Quiet
      PROVE  IInv'
  <2> USE <1>ServiceKept
  <2>1. FileInv' /\ Log' = Log
    BY <1>KeptFiles, Zenon DEF IInv, LiveKept
  <2> QED
    BY <2>1, QuietFacts, <1>ServiceInv, Zenon

\* The guard in other hands.
<1>SamePermit.
      ASSUME PermitInv, UNCHANGED <<work, permit>>, txn'.by \in {txn.by, "nqd", "nobody"}
      PROVE  PermitInv'
  <2> USE <1>SamePermit
  <2>1. {"nqd", "nobody"} \cap Workers = {}
    BY MaintenanceAssumption, Zenon
  <2> QED
    BY <2>1, Zenon DEF PermitInv

\* Operations that do not run come and go.
<1>CalmPermit.
      ASSUME PermitInv, UNCHANGED <<permit, txn>>, work' = [w \in Workers |-> work'[w]],
             \A w \in Workers : work'[w] = work[w] \/ (work[w] \notin Busy /\ work'[w] \notin Busy)
      PROVE  PermitInv'
  BY <1>CalmPermit, Zenon DEF PermitInv, Busy

\* The operation that has the permit, or takes the free one, goes on.
<1>WorkPermit.
      ASSUME PermitInv, NEW w \in Workers, NEW s \in Busy, Work(w, s), permit' = w, permit \in {w, "free"},
             txn'.by \in Workers => txn'.by = w /\ s = "writing"
      PROVE  PermitInv'
  <2> USE <1>WorkPermit
  <2>1. "free" \notin Workers
    BY MaintenanceAssumption, Zenon
  <2>2. work' = [u \in Workers |-> work'[u]] /\ work'[w] = s /\ \A u \in Workers \ {w} : work'[u] = work[u]
    BY Zenon DEF PermitInv, Work
  <2>3. \A u \in Workers \ {w} : work[u] \notin Busy
    BY <2>1, Zenon DEF PermitInv
  <2> QED
    BY <2>2, <2>3, Zenon DEF PermitInv

\* It ends and frees the permit.
<1>EndsPermit.
      ASSUME PermitInv, NEW w \in Workers, work[w] \in Busy, WorkEnds(w),
             txn'.by \notin Workers \/ (txn' = txn /\ work[w] # "writing")
      PROVE  PermitInv'
  <2> USE <1>EndsPermit
  <2>1. work' = [u \in Workers |-> work'[u]] /\ work'[w] = "idle" /\ \A u \in Workers \ {w} : work'[u] = work[u]
    BY Zenon DEF PermitInv, WorkEnds, Work
  <2>2. \A u \in Workers \ {w} : work[u] \notin Busy
    BY Zenon DEF PermitInv
  <2>3. txn'.by \notin Workers
    <3>1. "writing" \in Busy
      BY Zenon DEF Busy
    <3> QED
      BY <2>2, <3>1, Zenon DEF PermitInv
  <2>4. "idle" \notin Busy
    BY Zenon DEF Busy
  <2> QED
    BY <2>1, <2>2, <2>3, <2>4, Zenon DEF PermitInv

\* Steps of the service itself.
<1>DaemonStartInv.
      ASSUME IInv, job = "archive", DaemonStart \/ Terminate \/ StopOpens
      PROVE  IInv'
  <2> USE <1>DaemonStartInv
  <2>1. UNCHANGED <<storage, work, permit, Quiet>> /\ FileInv /\ PermitInv
    BY Zenon DEF DaemonStart, Terminate, StopOpens, IInv
  <2>2. LiveKept /\ UNCHANGED <<files, txn>>
    BY <2>1, <1>StoredFacts, Zenon
  <2> QED
    BY <2>1, <2>2, <1>SamePermit, <1>ServiceKept, Zenon

<1>NqdInv.
      ASSUME IInv, job = "archive", NqdBegin \/ NqdTruncate
      PROVE  IInv'
  <2> USE <1>NqdInv
  <2>1. /\ UNCHANGED <<work, permit, Quiet>> /\ FileInv /\ PermitInv
        /\ BeginWrite("nqd") \/ UNCHANGED storage \/ TruncateLog("nqd", Envelope)
    BY Zenon DEF NqdBegin, NqdTruncate, IInv
  <2>2. LiveKept /\ files'["dest"] = files["dest"] /\ txn'.by \in {txn.by, "nqd", "nobody"}
    BY <2>1, <1>StoredFacts, <1>BeginWriteFacts, <1>TruncateLogFacts, Zenon
  <2> QED
    BY <2>1, <2>2, <1>SamePermit, <1>ServiceKept, Zenon

<1>RollbackFacts.
      ASSUME FileInv, Rollback
      PROVE  LiveKept /\ txn'.by = "nobody" /\ UNCHANGED <<files, backups, elsewhere>>
  BY <1>RollbackFacts, Zenon DEF Rollback, FileInv, LiveKept, Log, NoTxn

<1>NqdCommitInv.
      ASSUME IInv, job = "archive", NqdCommit
      PROVE  IInv'
  <2> USE <1>NqdCommitInv
  <2>1. /\ UNCHANGED <<work, permit, Quiet>> /\ FileInv /\ PermitInv
        /\ Rollback \/ Commit(Log, 1)
    BY Zenon DEF NqdCommit, IInv, Log, Visible
  <2>2. LiveKept /\ files'["dest"] = files["dest"] /\ txn'.by \in {txn.by, "nqd", "nobody"}
    BY <2>1, <1>RollbackFacts, <1>CommitFacts, Zenon DEF LiveKept
  <2> QED
    BY <2>1, <2>2, <1>SamePermit, <1>ServiceKept, Zenon

<1>ServiceFailsInv.
      ASSUME IInv, job = "archive", ServiceFails
      PROVE  IInv'
  <2> USE <1>ServiceFailsInv
  <2>1. /\ UNCHANGED <<storage, permit, job, op, ledger>> /\ FileInv /\ PermitInv
        /\ work' = [w \in Workers |-> IF work[w] = "waiting" THEN "idle" ELSE work[w]]
    BY Zenon DEF ServiceFails, IInv
  <2>2. LiveKept /\ UNCHANGED <<files, txn>>
    BY <2>1, <1>StoredFacts, Zenon
  <2>3. /\ work' = [w \in Workers |-> work'[w]]
        /\ \A w \in Workers : work'[w] = work[w] \/ (work[w] \notin Busy /\ work'[w] \notin Busy)
    BY <2>1, Zenon DEF Busy
  <2>4. PermitInv'
    BY <2>1, <2>2, <2>3, <1>CalmPermit, ZenonT(60)
  <2>5. FileInv' /\ Log' = Log
    BY <2>1, <2>2, <1>KeptFiles, Zenon DEF LiveKept
  <2> QED
    BY <2>1, <2>2, <2>4, <2>5, <1>ServiceInv, Zenon DEF ledger

<1>WaitingInv.
      ASSUME IInv, job = "archive", ProcessEnds \/ \E w \in Workers : AbortTask(w) \/ WorkerAsks(w)
      PROVE  IInv'
  <2> USE <1>WaitingInv
  <2>1. UNCHANGED <<storage, permit, Quiet>> /\ FileInv /\ PermitInv
    BY Zenon DEF ProcessEnds, AbortTask, WorkerAsks, Steady, IInv
  <2>2. LiveKept /\ UNCHANGED <<files, txn>>
    BY <2>1, <1>StoredFacts, Zenon
  <2>3. /\ work' = [w \in Workers |-> work'[w]]
        /\ \A w \in Workers : work'[w] = work[w] \/ (work[w] \notin Busy /\ work'[w] \notin Busy)
    <3>1. CASE ProcessEnds
      BY <3>1, Zenon DEF ProcessEnds, Busy
    <3>2. ASSUME NEW w \in Workers, AbortTask(w) \/ WorkerAsks(w)
          PROVE  /\ work' = [u \in Workers |-> work'[u]]
                 /\ \A u \in Workers : work'[u] = work[u] \/ (work[u] \notin Busy /\ work'[u] \notin Busy)
      BY <2>1, <3>2, ZenonT(60) DEF AbortTask, WorkerAsks, Work, Busy, PermitInv
    <3> QED
      BY <3>1, <3>2, Zenon
  <2> QED
    BY <2>1, <2>2, <2>3, <1>CalmPermit, <1>ServiceKept, Zenon

<1>DaemonKilledInv.
      ASSUME IInv, job = "archive", DaemonKilled
      PROVE  IInv'
  <2> USE <1>DaemonKilledInv
  <2>1. /\ UNCHANGED <<files, job, op, ledger>> /\ FileInv /\ work' = [w \in Workers |-> "idle"]
        /\ txn' = IF txn.by \in Workers \cup {"nqd"} THEN NoTxn ELSE txn
    BY Zenon DEF DaemonKilled, IInv
  <2>2. txn'.by \notin Workers
    BY <2>1, MaintenanceAssumption, Zenon DEF NoTxn
  <2>3. PermitInv'
    BY <2>1, <2>2, Zenon DEF PermitInv, Busy
  <2>4. LiveKept /\ FileInv'
    BY <2>1, Zenon DEF FileInv, LiveKept, Log
  <2> QED
    BY <2>1, <2>3, <2>4, <1>ServiceInv, Zenon DEF ledger, LiveKept

\* Steps of a worker.
<1>WorkerStartsInv.
      ASSUME IInv, job = "archive", NEW w \in Workers, WorkerStarts(w) \/ WorkerOpens(w)
      PROVE  IInv'
  <2> USE <1>WorkerStartsInv
  <2>1. UNCHANGED <<storage, Quiet>> /\ FileInv /\ PermitInv
    BY Zenon DEF WorkerStarts, WorkerOpens, Steady, IInv
  <2>2. LiveKept /\ UNCHANGED <<files, txn>>
    BY <2>1, <1>StoredFacts, Zenon
  <2>3. CASE WorkerStarts(w)
    <3>1. work[w] = "waiting" /\ permit = "free" /\ Work(w, "running") /\ permit' = w
      BY <2>3, ZenonT(60) DEF WorkerStarts
    <3>2. txn.by \notin Workers
      BY <2>1, <3>1, MaintenanceAssumption, ZenonT(60) DEF PermitInv, Busy
    <3>3. PermitInv'
      BY <2>1, <2>2, <3>1, <3>2, <1>WorkPermit, Zenon DEF Busy
    <3> QED
      BY <2>1, <2>2, <3>3, <1>ServiceKept, Zenon
  <2>4. CASE WorkerOpens(w)
    <3>1. work[w] = "running" /\ ((Work(w, "opened") /\ UNCHANGED permit) \/ WorkEnds(w))
      BY <2>4, ZenonT(60) DEF WorkerOpens
    <3>2. permit = w /\ txn.by \notin Workers
      BY <2>1, <3>1, ZenonT(60) DEF PermitInv, Busy
    <3>3. PermitInv'
      BY <2>1, <2>2, <3>1, <3>2, <1>WorkPermit, <1>EndsPermit, Zenon DEF Busy
    <3> QED
      BY <2>1, <2>2, <3>3, <1>ServiceKept, Zenon
  <2> QED
    BY <2>3, <2>4, Zenon

<1>WorkerBeginsInv.
      ASSUME IInv, job = "archive", NEW w \in Workers, WorkerBegins(w) \/ WorkerTruncates(w)
      PROVE  IInv'
  <2> USE <1>WorkerBeginsInv
  <2>1. UNCHANGED Quiet /\ FileInv /\ PermitInv
    BY Zenon DEF WorkerBegins, WorkerTruncates, Steady, IInv
  <2>2. CASE WorkerBegins(w)
    <3>1. /\ work[w] = "opened"
          /\ \/ BeginWrite(w) /\ Work(w, "writing") /\ UNCHANGED permit
             \/ WorkEnds(w) /\ UNCHANGED storage
      BY <2>2, Zenon DEF WorkerBegins
    <3>2. permit = w
      BY <2>1, <3>1, ZenonT(60) DEF PermitInv, Busy
    <3>3. CASE BeginWrite(w) /\ Work(w, "writing") /\ UNCHANGED permit
      <4>1. LiveKept /\ files'["dest"] = files["dest"] /\ txn'.by = w
        BY <2>1, <3>3, <1>BeginWriteFacts, Zenon
      <4>2. PermitInv'
        BY <2>1, <3>2, <3>3, <4>1, <1>WorkPermit, ZenonT(60) DEF Busy
      <4> QED
        BY <2>1, <4>1, <4>2, <1>ServiceKept, Zenon
    <3>4. CASE WorkEnds(w) /\ UNCHANGED storage
      <4>1. LiveKept /\ UNCHANGED <<files, txn>>
        BY <2>1, <3>4, <1>StoredFacts, Zenon
      <4>2. PermitInv'
        BY <2>1, <3>1, <3>4, <4>1, <1>EndsPermit, ZenonT(60) DEF Busy
      <4> QED
        BY <2>1, <4>1, <4>2, <1>ServiceKept, Zenon
    <3> QED
      BY <3>1, <3>3, <3>4, Zenon
  <2>3. CASE WorkerTruncates(w)
    <3>1. /\ TruncateLog(w, Envelope)
          /\ \/ txn' = NoTxn /\ WorkEnds(w)
             \/ txn' # NoTxn /\ UNCHANGED <<work, permit>>
      BY <2>3, Zenon DEF WorkerTruncates
    <3>2. /\ LiveKept /\ files'["dest"] = files["dest"] /\ txn.by = w
          /\ txn' # NoTxn => txn'.by = w
      BY <2>1, <3>1, <1>TruncateLogFacts, ZenonT(60)
    <3>3. work[w] = "writing" /\ NoTxn.by \notin Workers
      BY <2>1, <3>2, MaintenanceAssumption, Zenon DEF PermitInv, NoTxn
    <3>4. CASE txn' = NoTxn /\ WorkEnds(w)
      <4>1. PermitInv'
        BY <2>1, <3>3, <3>4, <1>EndsPermit, ZenonT(60) DEF Busy
      <4> QED
        BY <2>1, <3>2, <4>1, <1>ServiceKept, Zenon
    <3>5. CASE txn' # NoTxn /\ UNCHANGED <<work, permit>>
      <4>1. PermitInv'
        BY <2>1, <3>2, <3>5, <1>SamePermit, Zenon
      <4> QED
        BY <2>1, <3>2, <4>1, <1>ServiceKept, Zenon
    <3> QED
      BY <3>1, <3>4, <3>5, Zenon
  <2> QED
    BY <2>2, <2>3, Zenon

<1>WorkerCommitsInv.
      ASSUME IInv, job = "archive", NEW w \in Workers, WorkerCommits(w)
      PROVE  IInv'
  <2> USE <1>WorkerCommitsInv
  <2>1. UNCHANGED Quiet /\ FileInv /\ PermitInv /\ WorkEnds(w) /\ txn.by = w
    BY Zenon DEF WorkerCommits, Steady, IInv
  <2>2. work[w] = "writing" /\ work[w] \in Busy /\ "nobody" \notin Workers
    BY <2>1, MaintenanceAssumption, Zenon DEF PermitInv, Busy
  <2>3. \/ Rollback
        \/ \E kind, n :
             Commit([AddRow(Log) EXCEPT !.pages = IF kind = "largest" THEN Envelope.pages ELSE @,
                                        !.generation = IF kind = "expiry" THEN @ + 1 ELSE @], n)
    BY Zenon DEF WorkerCommits, Log, Visible
  <2>4. CASE Rollback
    <3>1. LiveKept /\ txn'.by = "nobody" /\ UNCHANGED files
      BY <2>1, <2>4, <1>RollbackFacts, Zenon
    <3>2. PermitInv'
      BY <2>1, <2>2, <3>1, <1>EndsPermit, ZenonT(60)
    <3> QED
      BY <2>1, <3>1, <3>2, <1>ServiceKept, Zenon
  <2>5. ASSUME NEW kind, NEW n,
               Commit([AddRow(Log) EXCEPT !.pages = IF kind = "largest" THEN Envelope.pages ELSE @,
                                          !.generation = IF kind = "expiry" THEN @ + 1 ELSE @], n)
        PROVE  IInv'
    <3> DEFINE db == [AddRow(Log) EXCEPT !.pages = IF kind = "largest" THEN Envelope.pages ELSE @,
                                         !.generation = IF kind = "expiry" THEN @ + 1 ELSE @]
    <3>1. IsContent(db) /\ db.receipts = Log.receipts /\ db.carried = Log.carried /\ db.schema = Log.schema
      BY <2>1, <1>AddRowFacts, ZenonT(60) DEF FileInv, IsContent, ContentFields
    <3> HIDE DEF db
    <3>2. /\ files' = [p \in Paths |-> files'[p]] /\ IsFile(files'["live"]) /\ Log' = db
          /\ files'["dest"] = files["dest"] /\ txn'.by = "nobody"
      BY <2>1, <2>5, <1>CommitFacts DEF db
    <3>3. FileInv'
      BY <2>1, <3>1, <3>2, Zenon DEF FileInv
    <3>4. PermitInv'
      BY <2>1, <2>2, <3>2, <1>EndsPermit, Zenon
    <3> QED
      BY <2>1, <3>1, <3>2, <3>3, <3>4, QuietFacts, <1>ServiceInv, Zenon
  <2> QED
    BY <2>3, <2>4, <2>5, ZenonT(30)

(* nq archive and nq backup.                                                *)
<1>ArchiveGoes.
      ASSUME IInv, job = "archive", LiveKept, files'["dest"] = files["dest"], DOMAIN op' = OpFields,
             op'.pc \in ArchivePcs, txn' = txn,
             UNCHANGED <<job, daemon, work, permit, sealed, before, initializing, elsewhere>>
      PROVE  IInv'
  <2> USE <1>ArchiveGoes
  <2>1. Command
    BY ZenonT(30) DEF Command
  <2> QED
    BY <2>1, <1>CommandInv, Zenon

<1>ArchiveOpensInv.
      ASSUME IInv, job = "archive", ArchiveOpens \/ RetentionDeclaration \/ BackupOpens
      PROVE  IInv'
  <2> USE <1>ArchiveOpensInv
  <2>1. FileInv /\ DOMAIN op = OpFields /\ UNCHANGED <<storage, job, Idle>>
    BY Zenon DEF IInv, StepInv, ArchiveOpens, RetentionDeclaration, BackupOpens
  <2>2. DOMAIN op' = OpFields /\ op'.pc \in ArchivePcs
    BY <2>1, ZenonT(30) DEF ArchiveOpens, RetentionDeclaration, BackupOpens, GoTo, OpFields, ArchivePcs
  <2> QED
    BY <2>1, <2>2, <1>StoredFacts, IdleFacts, <1>ArchiveGoes, ZenonT(30)

<1>ArchiveCopiesInv.
      ASSUME IInv, job = "archive", ArchiveCopies \/ PrepareArchiveCopy \/ BackupCopies
      PROVE  IInv'
  <2> USE <1>ArchiveCopiesInv
  <2>1. FileInv /\ DOMAIN op = OpFields /\ UNCHANGED Idle
    BY Zenon DEF IInv, StepInv, ArchiveCopies, PrepareArchiveCopy, BackupCopies
  <2>2. CASE Fail
    BY <2>1, <2>2, <1>FailInv, IdleFacts, Zenon
  <2>3. CASE ~ Fail
    <3>1. /\ job' = job
          /\ \/ GoTo("freeze") \/ GoTo("seal")
             \/ op' = [op EXCEPT !.pc = "done"] \/ op' = Ready
          /\ \/ CopyLive
             \/ Put("copy", Checkpointed(files["copy"])) /\ UNCHANGED <<txn, elsewhere>>
             \/ UNCHANGED <<files, txn, elsewhere>>
      BY <2>3, Zenon DEF ArchiveCopies, PrepareArchiveCopy, BackupCopies
    <3>2. DOMAIN op' = OpFields /\ op'.pc \in ArchivePcs
      BY <2>1, <3>1, ReadyFacts, Zenon DEF GoTo, OpFields, ArchivePcs
    <3>3. LiveKept /\ files'["dest"] = files["dest"] /\ UNCHANGED <<txn, elsewhere>>
      <4>1. CASE CopyLive
        BY <2>1, <4>1, <1>CopyLiveFacts, Zenon
      <4>2. CASE Put("copy", Checkpointed(files["copy"])) /\ UNCHANGED <<txn, elsewhere>>
        BY <2>1, <4>2, <1>CopyChanges, ZenonT(30) DEF Put
      <4>3. CASE UNCHANGED <<files, txn, elsewhere>>
        BY <2>1, <4>3, Zenon DEF LiveKept, FileInv, Log
      <4> QED
        BY <3>1, <4>1, <4>2, <4>3, Zenon
    <3> QED
      BY <2>1, <3>1, <3>2, <3>3, IdleFacts, <1>ArchiveGoes, Zenon
  <2> QED
    BY <2>2, <2>3, Zenon

\* Verification compares the declaration with the staged database itself.
<1>ArchiveSealsInv.
      ASSUME IInv, job = "archive", ArchiveSeals
      PROVE  IInv'
  <2> USE <1>ArchiveSealsInv
  <2>1. FileInv /\ DOMAIN op = OpFields /\ PermitInv /\ OwnInv
        /\ UNCHANGED <<daemon, work, permit, before, initializing>>
    BY Zenon DEF IInv, StepInv, ArchiveSeals, service
  <2>2. CASE Fail /\ sealed' = sealed
    BY <2>1, <2>2, <1>FailInv, Zenon
  <2>3. CASE ~ (Fail /\ sealed' = sealed)
    <3>1. /\ VerifyRetentionDeclaration /\ GoTo("done") /\ UNCHANGED <<job, txn>>
          /\ sealed' = [by |-> "archive", db |-> files["copy"].db, declared |-> op.declared]
          /\ files' = [files EXCEPT !["copy"] = NoFile]
      BY <2>3, Zenon DEF ArchiveSeals, Put
    <3>2. LiveKept /\ files'["dest"] = files["dest"]
      BY <2>1, <3>1, <1>CopyChanges, ZenonT(30)
    <3>3. FileInv' /\ Log' = Log
      BY <2>1, <3>2, <1>KeptFiles, Zenon DEF LiveKept
    <3>4. StepInv'
      BY <2>1, <3>1, GoToFacts, ZenonT(60) DEF StepInv, ArchivePcs
    <3>5. ArchiveDeclaresItsDatabase'
      BY <3>1, Zenon DEF VerifyRetentionDeclaration, ArchiveDeclaresItsDatabase
    <3>6. OwnInv' /\ PermitInv'
      BY <2>1, <3>1, <3>2, <3>3, Zenon DEF OwnInv, PermitInv
    <3> QED
      BY <3>1, <3>3, <3>4, <3>5, <3>6, <1>OthersHold, Zenon DEF IInv
  <2> QED
    BY <2>2, <2>3, Zenon

(* nq maintenance carry-from-archive.                                       *)
<1>CarryGoes.
      ASSUME IInv, job = "carry", LiveKept, files'["dest"] = files["dest"], DOMAIN op' = OpFields,
             op'.pc \in CarryPcs, txn'.by \in {txn.by, "nobody", "operator"}, Carrying',
             UNCHANGED <<job, daemon, work, permit, sealed, before, initializing, elsewhere>>
      PROVE  IInv'
  <2> USE <1>CarryGoes
  <2>1. Command
    BY Zenon DEF Command
  <2> QED
    BY <2>1, <1>CommandInv, ZenonT(60)

<1>CarryVerifiesInv.
      ASSUME IInv, CarryVerifies
      PROVE  IInv'
  <2> USE <1>CarryVerifiesInv
  <2>1. FileInv /\ DOMAIN op = OpFields /\ Carrying /\ job = "carry" /\ UNCHANGED <<storage, job, Idle>>
        /\ op' = [op EXCEPT !.pc = "inspect", !.digest = sealed.version]
    BY Zenon DEF IInv, StepInv, CarryInv, CarryVerifies
  <2>2. DOMAIN op' = OpFields /\ op'.pc = "inspect" /\ op'.digest = sealed.version
    BY <2>1, Zenon DEF OpFields
  <2>3. Carrying'
    BY <2>1, <2>2, IdleFacts, Zenon DEF Carrying
  <2>4. op'.pc \in CarryPcs
    BY <2>2, Zenon DEF CarryPcs
  <2> QED
    BY <2>1, <2>2, <2>3, <2>4, <1>StoredFacts, IdleFacts, <1>CarryGoes, Zenon

<1>InspectInv.
      ASSUME IInv, job = "carry", InspectRollover
      PROVE  IInv'
  <2> USE <1>InspectInv
  <2> DEFINE s == Snapshots[sealed.version]
             permits == IF Active(sealed.version) /\ ~ s.unresolved THEN s.declaration ELSE "none"
  <2>1. FileInv /\ DOMAIN op = OpFields /\ Carrying /\ UNCHANGED <<storage, job, Idle>>
        /\ op.pc = "inspect" /\ op' = [op EXCEPT !.pc = "read", !.permits = permits]
    BY Zenon DEF IInv, StepInv, CarryInv, InspectRollover
  <2>2. DOMAIN op' = OpFields /\ op'.pc = "read" /\ op'.digest = op.digest /\ op'.permits = permits
    BY <2>1, Zenon DEF OpFields
  <2>3. sealed.version \in DOMAIN Snapshots /\ s.declaration # "none"
    BY <2>1, MaintenanceAssumption, Zenon DEF Carrying
  <2>4. permits = s.declaration => ~ s.unresolved
    BY <2>3, Zenon
  <2>5. UNCHANGED <<sealed>>
    BY <2>1, IdleFacts, Zenon
  <2> HIDE DEF permits
  <2>6. Carrying'
    BY <2>1, <2>2, <2>4, <2>5, Zenon DEF Carrying
  <2>7. op'.pc \in CarryPcs
    BY <2>2, Zenon DEF CarryPcs
  <2> QED
    BY <2>1, <2>2, <2>6, <2>7, <1>StoredFacts, IdleFacts, <1>CarryGoes, Zenon

<1>CarryReadsInv.
      ASSUME IInv, job = "carry", CarryReads
      PROVE  IInv'
  <2> USE <1>CarryReadsInv
  <2>1. FileInv /\ DOMAIN op = OpFields /\ Carrying /\ UNCHANGED Idle /\ op.pc = "read"
    BY Zenon DEF IInv, StepInv, CarryInv, CarryReads
  <2>2. CASE Fail
    BY <2>1, <2>2, <1>FailInv, IdleFacts, Zenon
  <2>3. CASE ~ Fail
    <3>1. /\ Active(sealed.version) /\ op.permits = Snapshots[sealed.version].declaration
          /\ op' = [op EXCEPT !.pc = "rehash", !.declared = now] /\ UNCHANGED <<storage, job>>
      BY <2>3, Zenon DEF CarryReads
    <3>2. /\ DOMAIN op' = OpFields /\ op'.pc = "rehash" /\ op'.digest = op.digest
          /\ op'.permits = op.permits /\ op'.declared = now
      BY <2>1, <3>1, Zenon DEF OpFields
    <3>3. sealed.version = op.digest => Carries(op')
      BY <2>1, <3>1, <3>2, Zenon DEF Carrying, Carries, Active
    <3>4. UNCHANGED <<sealed>>
      BY <2>1, IdleFacts, Zenon
    <3>5. Carrying'
      BY <2>1, <3>2, <3>3, <3>4, Zenon DEF Carrying, Carries
    <3>6. op'.pc \in CarryPcs
      BY <3>2, Zenon DEF CarryPcs
    <3> QED
      BY <2>1, <3>1, <3>2, <3>5, <3>6, <1>StoredFacts, IdleFacts, <1>CarryGoes, ZenonT(60)
  <2> QED
    BY <2>2, <2>3, ZenonT(60)

\* A carry that goes on with what it has established.
<1>CarryKeeps.
      ASSUME Carries(op), Carrying, DOMAIN op = OpFields, NEW pc \in {"open", "trim", "carry", "done"},
             GoTo(pc), sealed' = sealed
      PROVE  DOMAIN op' = OpFields /\ op'.pc \in CarryPcs /\ Carrying'
  <2> USE <1>CarryKeeps
  <2>1. /\ DOMAIN op' = OpFields /\ op'.pc = pc /\ op'.digest = op.digest
        /\ op'.permits = op.permits /\ op'.declared = op.declared
    BY GoToFacts, Zenon
  <2>2. Carries(op)'
    BY <2>1, Zenon DEF Carries
  <2>3. Carrying'
    BY <2>1, <2>2, Zenon DEF Carrying
  <2> QED
    BY <2>1, <2>3, Zenon DEF CarryPcs

<1>CarryRehashesInv.
      ASSUME IInv, job = "carry", CarryRehashes
      PROVE  IInv'
  <2> USE <1>CarryRehashesInv
  <2>1. FileInv /\ DOMAIN op = OpFields /\ Carrying /\ UNCHANGED Idle /\ op.pc = "rehash"
    BY Zenon DEF IInv, StepInv, CarryInv, CarryRehashes
  <2>2. CASE Fail
    BY <2>1, <2>2, <1>FailInv, IdleFacts, ZenonT(60)
  <2>3. CASE ~ Fail
    <3>1. sealed.version = op.digest /\ GoTo("open") /\ UNCHANGED <<storage, job>>
      BY <2>3, Zenon DEF CarryRehashes
    <3>2. Carries(op)
      BY <2>1, <3>1, Zenon DEF Carrying
    <3>3. DOMAIN op' = OpFields /\ op'.pc \in CarryPcs /\ Carrying'
      BY <2>1, <3>1, <3>2, IdleFacts, <1>CarryKeeps, Zenon
    <3> QED
      BY <2>1, <3>1, <3>3, <1>StoredFacts, IdleFacts, <1>CarryGoes, Zenon
  <2> QED
    BY <2>2, <2>3, Zenon

<1>CarryWritesInv.
      ASSUME IInv, job = "carry", CarryBegins \/ CarryTruncates
      PROVE  IInv'
  <2> USE <1>CarryWritesInv
  <2>1. FileInv /\ DOMAIN op = OpFields /\ Carrying /\ UNCHANGED Idle /\ Carries(op)
    BY Zenon DEF IInv, StepInv, CarryInv, Carrying, CarryBegins, CarryTruncates
  <2>2. CASE Fail
    BY <2>1, <2>2, <1>FailInv, IdleFacts, Zenon
  <2>3. CASE ~ Fail
    <3>1. /\ job' = job
          /\ \/ BeginWrite("operator") /\ GoTo("trim")
             \/ TruncateLog("operator", Envelope) /\ (op' = Ready \/ GoTo("carry"))
      BY <2>3, Zenon DEF CarryBegins, CarryTruncates, GoTo
    <3>2. LiveKept /\ files'["dest"] = files["dest"] /\ txn'.by \in {txn.by, "nobody", "operator"}
          /\ UNCHANGED <<backups, elsewhere>>
      BY <2>1, <3>1, <1>BeginWriteFacts, <1>TruncateLogFacts, Zenon
    <3>3. CASE op' = Ready
      BY <2>1, <3>1, <3>2, <3>3, IdleFacts, <1>EndsInv, Zenon
    <3>4. CASE GoTo("trim") \/ GoTo("carry")
      <4>1. DOMAIN op' = OpFields /\ op'.pc \in CarryPcs /\ Carrying'
        BY <2>1, <3>4, IdleFacts, <1>CarryKeeps, Zenon
      <4> QED
        BY <2>1, <3>1, <3>2, <4>1, IdleFacts, <1>CarryGoes, ZenonT(60)
    <3> QED
      BY <3>1, <3>3, <3>4, Zenon
  <2> QED
    BY <2>2, <2>3, Zenon

\* A declaration stored in the live store.
<1>StoredInv.
      ASSUME IInv, job = "carry", job' = job, StepInv', Carrying', UNCHANGED <<daemon, work, sealed>>,
             UNCHANGED <<before, initializing>>, txn'.by \in {txn.by, "nobody", "operator"},
             files' = [p \in Paths |-> files'[p]], IsFile(files'["live"]),
             files'["dest"] = files["dest"], NEW carried, Log' = [Log EXCEPT !.carried = carried],
             \A c \in carried : c.by = "carry" =>
               /\ c.archive # 0 /\ ~ Snapshots[c.archive].unresolved
               /\ Snapshots[c.archive].declaration = c.declaration
               /\ Snapshots[c.archive].start <= c.at /\ c.at < Snapshots[c.archive].end
      PROVE  IInv'
  <2> USE <1>StoredInv
  <2>1. FileInv
    BY Zenon DEF IInv
  <2>2. /\ IsContent(Log') /\ Log'.schema = Log.schema /\ Log'.receipts = Log.receipts
        /\ Log'.carried = carried
    BY <2>1, Zenon DEF FileInv, IsContent, ContentFields
  <2>3. FileInv'
    BY <2>1, <2>2, Zenon DEF FileInv
  <2>4. CarryIsAnchored'
    BY <2>2, Zenon DEF CarryIsAnchored, Log, Visible
  <2> QED
    BY <2>2, <2>3, <2>4, <1>AloneInv, Zenon DEF CarryInv

<1>CarryCommitsInv.
      ASSUME IInv, job = "carry", CarryCommits
      PROVE  IInv'
  <2> USE <1>CarryCommitsInv
  <2>1. FileInv /\ DOMAIN op = OpFields /\ Carrying /\ UNCHANGED Idle /\ Carries(op)
    BY ZenonT(30) DEF IInv, StepInv, CarryInv, Carrying, CarryCommits
  <2>2. CASE Fail
    BY <2>1, <2>2, <1>FailInv, IdleFacts, Zenon
  <2>3. CASE ~ Fail
    <3> DEFINE db == CarryMaintenance(Log, op.permits, op.digest, op.declared)
    <3>1. GoTo("done") /\ job' = job /\ IF db = Log THEN Rollback ELSE Commit(db, 1)
      BY <2>3, Zenon DEF CarryCommits, Log, Visible
    <3>2. DOMAIN op' = OpFields /\ op'.pc \in CarryPcs /\ Carrying'
      BY <2>1, <3>1, IdleFacts, <1>CarryKeeps, ZenonT(30)
    <3>3. CASE db = Log
      <4>1. LiveKept /\ txn'.by = "nobody" /\ UNCHANGED <<files, elsewhere>>
        BY <2>1, <3>1, <3>3, <1>RollbackFacts, ZenonT(60)
      <4> QED
        BY <2>1, <3>1, <3>2, <4>1, IdleFacts, <1>CarryGoes, ZenonT(60)
    <3>4. CASE db # Log
      <4> DEFINE c == [declaration |-> op.permits, archive |-> op.digest, at |-> op.declared, by |-> "carry"]
      <4>1. db = [Log EXCEPT !.carried = {c}]
        BY <3>4, Zenon DEF CarryMaintenance
      <4>2. /\ files' = [p \in Paths |-> files'[p]] /\ IsFile(files'["live"]) /\ Log' = db
            /\ files'["dest"] = files["dest"] /\ txn'.by = "nobody"
        BY <2>1, <3>1, <3>4, <1>CommitFacts, Zenon
      <4>3. /\ c.archive # 0 /\ ~ Snapshots[c.archive].unresolved
            /\ Snapshots[c.archive].declaration = c.declaration
            /\ Snapshots[c.archive].start <= c.at /\ c.at < Snapshots[c.archive].end
        BY <2>1, MaintenanceAssumption, ZenonT(30) DEF Carries
      <4> HIDE DEF c, db
      <4>4. StepInv'
        BY <3>1, <3>2, Zenon DEF StepInv
      <4> QED
        BY <2>1, <3>1, <3>2, <4>1, <4>2, <4>3, <4>4, IdleFacts, <1>StoredInv, ZenonT(30)
    <3> QED
      BY <3>3, <3>4, Zenon
  <2> QED
    BY <2>2, <2>3, Zenon

<1>DeclareWritesInv.
      ASSUME IInv, DeclareBegins \/ DeclareTruncates
      PROVE  IInv'
  <2> USE <1>DeclareWritesInv
  <2>1. FileInv /\ Carrying /\ CarryIsAnchored /\ StepInv /\ job = "carry"
        /\ UNCHANGED <<job, op, daemon, work, sealed, before, initializing>>
    BY Zenon DEF IInv, CarryInv, DeclareBegins, DeclareTruncates, command, service, ledger
  <2>2. BeginWrite("declarer") \/ TruncateLog("declarer", Envelope)
    BY Zenon DEF DeclareBegins, DeclareTruncates
  <2>3. LiveKept /\ files'["dest"] = files["dest"] /\ txn'.by \in {"nobody", "declarer"}
    BY <2>1, <2>2, <1>BeginWriteFacts, <1>TruncateLogFacts, Zenon
  <2>4. StepInv' /\ Carrying'
    BY <2>1, ZenonT(30) DEF StepInv, Carrying, Carries
  <2>5. CarryIsAnchored'
    BY <2>1, <2>3, Zenon DEF CarryIsAnchored, Visible, LiveKept, Log
  <2>6. FileInv'
    BY <2>1, <2>3, <1>KeptFiles, Zenon
  <2> QED
    BY <2>1, <2>3, <2>4, <2>5, <2>6, <1>AloneInv, Zenon DEF CarryInv, LiveKept

<1>DeclareInv.
      ASSUME IInv, DeclareMaintenance
      PROVE  IInv'
  <2> USE <1>DeclareInv
  <2>1. FileInv /\ Carrying /\ CarryIsAnchored /\ StepInv /\ job = "carry"
        /\ UNCHANGED <<job, op, daemon, work, sealed, before, initializing>>
    BY Zenon DEF IInv, CarryInv, DeclareMaintenance, command, service, ledger
  <2>2. StepInv' /\ Carrying'
    BY <2>1, ZenonT(30) DEF StepInv, Carrying, Carries
  <2>3. CASE Rollback
    <3>1. LiveKept /\ txn'.by = "nobody" /\ UNCHANGED <<files, elsewhere>>
      BY <2>1, <2>3, <1>RollbackFacts, ZenonT(60)
    <3>2. FileInv' /\ CarryIsAnchored'
      BY <2>1, <3>1, <1>KeptFiles, Zenon DEF CarryIsAnchored, Visible
    <3> QED
      BY <2>1, <2>2, <3>1, <3>2, <1>AloneInv, Zenon DEF CarryInv, LiveKept
  <2>4. CASE ~ Rollback
    <3>1. PICK declaration : Commit(Declared(Log, declaration), 1)
      BY <2>4, Zenon DEF DeclareMaintenance, Log, Visible
    <3> DEFINE c == [declaration |-> declaration, archive |-> 0, at |-> now, by |-> "declare"]
               carried == {c}
               db == [Log EXCEPT !.carried = carried]
    <3>2. \A d \in carried : d.by # "carry"
      OBVIOUS
    <3> HIDE DEF carried
    <3>3. Commit(db, 1)
      BY <3>1, Zenon DEF Declared, carried
    <3> HIDE DEF db
    <3>4. /\ files' = [p \in Paths |-> files'[p]] /\ IsFile(files'["live"]) /\ Log' = db
          /\ files'["dest"] = files["dest"] /\ txn'.by = "nobody"
      BY <2>1, <3>3, <1>CommitFacts, Zenon
    <3> QED
      BY <2>1, <2>2, <3>2, <3>4, <1>StoredInv, ZenonT(60) DEF db
  <2> QED
    BY <2>3, <2>4, Zenon

\* A replaced archive is not the one that was verified.
<1>ReplaceArchiveInv.
      ASSUME IInv, ReplaceArchive
      PROVE  IInv'
  <2> USE <1>ReplaceArchiveInv
  <2>1. FileInv /\ Carrying /\ CarryIsAnchored /\ StepInv /\ job = "carry" /\ ~ sealed.replaced
        /\ UNCHANGED <<storage, job, op, daemon, work, before, initializing>>
    BY Zenon DEF IInv, CarryInv, ReplaceArchive, command, service
  <2>2. PICK v \in DOMAIN Snapshots \ {sealed.version} :
          sealed' = [by |-> "operator", version |-> v, replaced |-> TRUE]
    BY ZenonT(30) DEF ReplaceArchive
  <2>3. LiveKept /\ UNCHANGED <<files, txn>>
    BY <2>1, <1>StoredFacts, Zenon
  <2>4. Carrying'
    BY <2>1, <2>2, ZenonT(30) DEF Carrying, Carries
  <2>5. CarryIsAnchored'
    BY <2>1, <2>3, Zenon DEF CarryIsAnchored, Visible
  <2>6. FileInv' /\ StepInv'
    BY <2>1, <2>3, <1>KeptFiles, ZenonT(60) DEF StepInv
  <2> QED
    BY <2>1, <2>2, <2>3, <2>4, <2>5, <2>6, <1>AloneInv, Zenon DEF CarryInv, LiveKept

<1>CarryAgainInv.
      ASSUME IInv, CarryAgain
      PROVE  IInv'
  <2> USE <1>CarryAgainInv
  <2>1. FileInv /\ op' = Ready /\ UNCHANGED <<storage, job, daemon, work, permit, sealed, before, initializing>>
    BY ZenonT(60) DEF IInv, CarryAgain, service, ledger
  <2> QED
    BY <2>1, <1>StoredFacts, <1>EndsInv, Zenon

(* nq restore.                                                              *)
<1>DeriveFacts.
      ASSUME NEW policy, NEW o, NEW page, NEW existing, Derive(policy, o, page, existing) # Refused
      PROVE  Derive(policy, o, page, existing).observed = o
  <2> USE <1>DeriveFacts
  <2>1. Derive(policy, o, page, existing) = EnvelopeOf(policy, o, page, DerivedPages(policy, o, page))
    BY DEF Derive
  <2> QED
    BY <2>1 DEF EnvelopeOf

<1>RestoreGoes.
      ASSUME IInv, job = "restore", LiveKept, files'["dest"] = files["dest"], DOMAIN op' = OpFields,
             op'.pc \in RestorePcs, txn' = txn, Restoring',
             UNCHANGED <<job, daemon, work, permit, sealed, before, initializing, elsewhere>>
      PROVE  IInv'
  <2> USE <1>RestoreGoes
  <2>1. Command
    BY Zenon DEF Command
  <2> QED
    BY <2>1, <1>CommandInv, Zenon

<1>RestoreCopiesInv.
      ASSUME IInv, RestoreOpens \/ RestoreCopies
      PROVE  IInv'
  <2> USE <1>RestoreCopiesInv
  <2>1. FileInv /\ DOMAIN op = OpFields /\ Restoring /\ UNCHANGED Idle /\ job = "restore"
    BY Zenon DEF IInv, StepInv, RestoreInv, RestoreOpens, RestoreCopies
  <2>2. CASE Fail
    BY <2>1, <2>2, <1>FailInv, IdleFacts, Zenon
  <2>3. CASE ~ Fail /\ RestoreOpens
    <3>1. DOMAIN op' = OpFields /\ op'.pc = "copy" /\ UNCHANGED <<storage, job>>
      BY <2>1, <2>3, GoToFacts, ZenonT(60) DEF RestoreOpens
    <3>2. Restoring'
      <4>1. Log' = Log /\ UNCHANGED <<files, initializing>>
        BY <2>1, <3>1, <1>StoredFacts, IdleFacts, Zenon DEF LiveKept
      <4> QED
        BY <2>1, <3>1, <4>1, Zenon DEF Restoring
    <3>3. op'.pc \in RestorePcs
      BY <3>1, Zenon DEF RestorePcs
    <3> QED
      BY <2>1, <3>1, <3>2, <3>3, <1>StoredFacts, IdleFacts, <1>RestoreGoes, ZenonT(30)
  <2>4. CASE ~ Fail /\ RestoreCopies
    <3>1. DOMAIN op' = OpFields /\ op'.pc = "readmit" /\ CopyLive /\ job' = job
      BY <2>1, <2>4, GoToFacts, Zenon DEF RestoreCopies
    <3>2. /\ LiveKept /\ files'["dest"] = files["dest"] /\ UNCHANGED <<txn, elsewhere>>
          /\ IsFile(files'["copy"]) /\ files'["copy"].log = Log /\ files'["copy"].db = Log
      BY <2>1, <3>1, <1>CopyLiveFacts, Zenon
    <3>3. IsContent(Log) /\ Log = [Log EXCEPT !.envelope = Log.envelope]
      BY <2>1, Zenon DEF FileInv, Restoring
    <3>4. Restoring'
      BY <2>1, <3>1, <3>2, <3>3, IdleFacts, Zenon DEF Restoring, LiveKept
    <3>5. op'.pc \in RestorePcs
      BY <3>1, Zenon DEF RestorePcs
    <3> QED
      BY <2>1, <3>1, <3>2, <3>4, <3>5, IdleFacts, <1>RestoreGoes, ZenonT(60)
  <2> QED
    BY <2>2, <2>3, <2>4, Zenon

\* Either way the copy has an envelope of the filesystem it lies on.
<1>ReadmitInv.
      ASSUME IInv, job = "restore", ReadmitRestoredCopy
      PROVE  IInv'
  <2> USE <1>ReadmitInv
  <2>1. FileInv /\ DOMAIN op = OpFields /\ Restoring /\ UNCHANGED Idle /\ op.pc = "readmit"
    BY Zenon DEF IInv, StepInv, RestoreInv, ReadmitRestoredCopy
  <2>2. CASE Fail
    BY <2>1, <2>2, <1>FailInv, IdleFacts, Zenon
  <2>3. CASE ~ Fail
    <3> DEFINE copy == files["copy"]
               o == Observe("copy")
               e == Derive(PolicyForRestore(copy.log.envelope.policy, o), o, Page, copy.db.pages)
               log == [copy.log EXCEPT !.envelope = e]
    <3>1. \/ /\ copy.log.envelope.observed.device = elsewhere
             /\ GoTo("publish") /\ UNCHANGED <<storage, job>>
          \/ /\ e # Refused /\ Put("copy", AppendFrames(copy, log, 1)) /\ GoTo("fold")
             /\ UNCHANGED <<txn, elsewhere, job>>
      BY <2>3, ZenonT(60) DEF ReadmitRestoredCopy
    <3>2. IsFile(copy) /\ IsContent(copy.log) /\ copy.log = [Log EXCEPT !.envelope = copy.log.envelope]
          /\ copy.db = copy.log
      BY <2>1, Zenon DEF Restoring
    <3>3. CASE /\ copy.log.envelope.observed.device = elsewhere
               /\ GoTo("publish") /\ UNCHANGED <<storage, job>>
      <4>1. LiveKept /\ UNCHANGED <<files, txn, elsewhere, initializing>> /\ Log' = Log
        BY <2>1, <3>3, <1>StoredFacts, IdleFacts, Zenon DEF LiveKept
      <4>2. DOMAIN op' = OpFields /\ op'.pc = "publish"
        BY <2>1, <3>3, GoToFacts, Zenon
      <4>3. Restoring'
        BY <2>1, <3>2, <3>3, <4>1, <4>2, Zenon DEF Restoring
      <4>4. op'.pc \in RestorePcs
        BY <4>2, Zenon DEF RestorePcs
      <4> QED
        BY <2>1, <3>3, <4>1, <4>2, <4>3, <4>4, IdleFacts, <1>RestoreGoes, Zenon
    <3>4. CASE /\ e # Refused /\ Put("copy", AppendFrames(copy, log, 1)) /\ GoTo("fold")
               /\ UNCHANGED <<txn, elsewhere, job>>
      <4>1. e.observed.device = elsewhere
        <5>1. e.observed = o
          BY <3>4, <1>DeriveFacts, Zenon
        <5>2. o.device = elsewhere
          BY ZenonT(30) DEF Observe, Where
        <5> QED
          BY <5>1, <5>2, Zenon
      <4> HIDE DEF e
      <4>2. IsContent(log) /\ log.envelope = e /\ log = [Log EXCEPT !.envelope = e]
        <5>1. log = [[Log EXCEPT !.envelope = copy.log.envelope] EXCEPT !.envelope = e]
          BY <3>2, ZenonT(30)
        <5>2. IsContent(Log)
          BY <2>1, Zenon DEF FileInv
        <5> QED
          BY <5>1, <5>2, ZenonT(30) DEF IsContent, ContentFields
      <4> HIDE DEF log
      <4>3. LiveKept /\ files'["dest"] = files["dest"] /\ files'["copy"] = AppendFrames(copy, log, 1)
        BY <2>1, <3>4, <1>CopyChanges, ZenonT(30) DEF Put
      <4>4. IsFile(files'["copy"]) /\ files'["copy"].log = log /\ Log' = Log
        BY <3>2, <4>3, <1>AppendFramesFacts DEF LiveKept
      <4>5. DOMAIN op' = OpFields /\ op'.pc = "fold" /\ initializing' = initializing
        BY <2>1, <3>4, GoToFacts, IdleFacts, Zenon
      <4>6. Restoring'
        BY <2>1, <3>4, <4>1, <4>2, <4>3, <4>4, <4>5, ZenonT(30) DEF Restoring
      <4>7. op'.pc \in RestorePcs
        BY <4>5, Zenon DEF RestorePcs
      <4> QED
        BY <2>1, <3>4, <4>3, <4>5, <4>6, <4>7, IdleFacts, <1>RestoreGoes, Zenon
    <3> QED
      BY <3>1, <3>3, <3>4, Zenon
  <2> QED
    BY <2>2, <2>3, ZenonT(60)

<1>RestoreFoldsInv.
      ASSUME IInv, job = "restore", RestoreFolds
      PROVE  IInv'
  <2> USE <1>RestoreFoldsInv
  <2>1. FileInv /\ DOMAIN op = OpFields /\ Restoring /\ UNCHANGED Idle /\ op.pc = "fold"
    BY Zenon DEF IInv, StepInv, RestoreInv, RestoreFolds
  <2>2. CASE Fail
    BY <2>1, <2>2, <1>FailInv, IdleFacts, Zenon
  <2>3. CASE ~ Fail
    <3> DEFINE copy == files["copy"]
    <3>1. Put("copy", Checkpointed(copy)) /\ GoTo("publish") /\ UNCHANGED <<txn, elsewhere, job>>
      BY <2>3, Zenon DEF RestoreFolds
    <3>2. /\ IsFile(copy) /\ IsContent(copy.log) /\ copy.log = [Log EXCEPT !.envelope = copy.log.envelope]
          /\ copy.log.envelope.observed.device = elsewhere
      BY <2>1, Zenon DEF Restoring
    <3>3. LiveKept /\ files'["dest"] = files["dest"] /\ files'["copy"] = Checkpointed(copy)
      BY <2>1, <3>1, <1>CopyChanges, ZenonT(30) DEF Put
    <3>4. /\ IsFile(files'["copy"]) /\ files'["copy"].log = copy.log /\ files'["copy"].db = copy.log
          /\ Log' = Log
      BY <3>2, <3>3, CheckpointedFacts, Zenon DEF LiveKept
    <3>5. DOMAIN op' = OpFields /\ op'.pc = "publish" /\ initializing' = initializing
      BY <2>1, <3>1, GoToFacts, IdleFacts, Zenon
    <3>6. Restoring'
      BY <2>1, <3>1, <3>2, <3>3, <3>4, <3>5, Zenon DEF Restoring
    <3>7. op'.pc \in RestorePcs
      BY <3>5, Zenon DEF RestorePcs
    <3> QED
      BY <2>1, <3>1, <3>3, <3>5, <3>6, <3>7, IdleFacts, <1>RestoreGoes, ZenonT(30)
  <2> QED
    BY <2>2, <2>3, Zenon

\* A step that changes the destination.
<1>DestinationInv.
      ASSUME IInv, job = "restore", files' = [p \in Paths |-> files'[p]], files'["live"] = files["live"],
             DOMAIN op' = OpFields, op'.pc \in RestorePcs, txn' = txn,
             UNCHANGED <<job, daemon, work, sealed, before>>, Restoring', RestoredIsWhole'
      PROVE  IInv'
  <2> USE <1>DestinationInv
  <2>1. FileInv' /\ Log' = Log
    BY Zenon DEF IInv, FileInv, Log
  <2>2. StepInv'
    BY Zenon DEF StepInv
  <2>3. RestoreInv'
    BY Zenon DEF RestoreInv
  <2> QED
    BY <2>1, <2>2, <2>3, <1>AloneInv, Zenon

<1>RestorePublishesInv.
      ASSUME IInv, job = "restore", RestorePublishes
      PROVE  IInv'
  <2> USE <1>RestorePublishesInv
  <2>1. FileInv /\ DOMAIN op = OpFields /\ Restoring /\ UNCHANGED Idle /\ op.pc = "publish"
    BY Zenon DEF IInv, StepInv, RestoreInv, RestorePublishes
  <2>2. CASE Fail
    BY <2>1, <2>2, <1>FailInv, IdleFacts, Zenon
  <2>3. CASE ~ Fail
    <3> DEFINE copy == files["copy"]
    <3>1. /\ files' = [files EXCEPT !["copy"] = NoFile, !["dest"] = LinkedFile]
          /\ GoTo("cleanup") /\ UNCHANGED <<txn, elsewhere, job>>
      BY <2>3, Zenon DEF RestorePublishes
    <3>2. /\ copy.db = [Log EXCEPT !.envelope = copy.db.envelope]
          /\ copy.db.envelope.observed.device = elsewhere
      BY <2>1, Zenon DEF Restoring
    <3>3. IsFile(LinkedFile) /\ LinkedFile.db = copy.db
      BY ZenonT(60) DEF LinkedFile, NewFile, IsFile, FileFields
    <3>4. /\ files' = [p \in Paths |-> files'[p]] /\ files'["live"] = files["live"]
          /\ files'["dest"] = LinkedFile
      BY <2>1, <3>1, ZenonT(30) DEF FileInv, Paths
    <3>5. DOMAIN op' = OpFields /\ op'.pc = "cleanup"
      BY <2>1, <3>1, GoToFacts, Zenon
    <3>6. Log' = Log
      BY <3>4, ZenonT(60) DEF Log
    <3>7. Restoring'
      BY <2>1, <3>3, <3>4, <3>5, <3>6, Zenon DEF Restoring
    <3>8. RestoredIsWhole'
      BY <3>1, <3>2, <3>3, <3>4, <3>6, ZenonT(30) DEF RestoredIsWhole, Log, Visible
    <3>9. op'.pc \in RestorePcs
      BY <3>5, ZenonT(60) DEF RestorePcs
    <3> QED
      BY <2>1, <3>1, <3>4, <3>5, <3>7, <3>8, <3>9, IdleFacts, <1>DestinationInv, ZenonT(60)
  <2> QED
    BY <2>2, <2>3, Zenon

<1>RestoreEndsInv.
      ASSUME IInv, job = "restore", RestoreEnds
      PROVE  IInv'
  <2> USE <1>RestoreEndsInv
  <2> DEFINE f == [files["dest"] EXCEPT !.links = 1]
  <2>1. FileInv /\ DOMAIN op = OpFields /\ Restoring /\ RestoredIsWhole /\ UNCHANGED Idle
        /\ IsFile(files["dest"])
    BY Zenon DEF IInv, StepInv, RestoreInv, Restoring, RestoreEnds
  <2>2. Put("dest", f) /\ GoTo("done") /\ UNCHANGED <<txn, elsewhere, job>>
    BY Zenon DEF RestoreEnds
  <2>3. IsFile(f) /\ f.db = files["dest"].db
    BY <2>1, Zenon DEF IsFile, FileFields
  <2> HIDE DEF f
  <2>4. /\ files' = [p \in Paths |-> files'[p]] /\ files'["live"] = files["live"] /\ files'["dest"] = f
    BY <2>1, <2>2, <1>PutFacts, Zenon DEF FileInv, Paths
  <2>5. DOMAIN op' = OpFields /\ op'.pc = "done"
    BY <2>1, <2>2, GoToFacts, ZenonT(60)
  <2>6. Log' = Log
    BY <2>4, Zenon DEF Log
  <2>7. Restoring'
    BY <2>1, <2>3, <2>4, <2>5, <2>6, Zenon DEF Restoring
  <2>8. files["dest"] # NoFile
    BY <2>1, FileIsPresent, Zenon
  <2>9. RestoredIsWhole'
    BY <2>1, <2>2, <2>3, <2>4, <2>6, <2>8, Zenon DEF RestoredIsWhole, Log, Visible, Present
  <2>10. op'.pc \in RestorePcs
    BY <2>5, Zenon DEF RestorePcs
  <2> QED
    BY <2>1, <2>2, <2>4, <2>5, <2>7, <2>9, <2>10, IdleFacts, <1>DestinationInv, ZenonT(60)

\* A new store has no rows yet; its envelope does not reach its main file.
<1>InitializeInv.
      ASSUME IInv, job = "restore", InitializeCreates \/ InitializeAdmits
      PROVE  IInv'
  <2> USE <1>InitializeInv
  <2>1. FileInv /\ StepInv /\ Restoring /\ RestoredIsWhole
        /\ UNCHANGED <<job, op, daemon, work, sealed, before, txn, elsewhere>>
    BY Zenon DEF IInv, RestoreInv, InitializeCreates, InitializeAdmits, command, service
  <2>2. op'.pc \in RestorePcs /\ DOMAIN op' = OpFields
    BY <2>1, Zenon DEF StepInv
  <2>3. ASSUME files' = [p \in Paths |-> files'[p]], files'["live"] = files["live"],
               files'["copy"] = files["copy"], IsFile(files'["dest"]), RestoredIsWhole'
        PROVE  IInv'
    <3>1. Log' = Log
      BY <2>3, Zenon DEF Log
    <3>2. Restoring'
      BY <2>1, <2>3, <3>1, Zenon DEF Restoring
    <3> QED
      BY <2>1, <2>2, <2>3, <3>2, <1>DestinationInv, Zenon
  <2>4. CASE InitializeCreates
    <3> DEFINE db == Content(Current, NoEnvelope)
    <3>1. Put("dest", NewFile(db))
      BY <2>4, Zenon DEF InitializeCreates
    <3>2. db.rows = 0
      BY Zenon DEF Content
    <3> HIDE DEF db
    <3>3. /\ files' = [p \in Paths |-> files'[p]] /\ files'["live"] = files["live"]
          /\ files'["copy"] = files["copy"] /\ files'["dest"] = NewFile(db)
      BY <2>1, <3>1, <1>PutFacts, Zenon DEF FileInv, Paths
    <3>4. IsFile(files'["dest"]) /\ files'["dest"].db = db
      BY <3>3, <1>NewFileFacts, Zenon
    <3>5. RestoredIsWhole'
      BY <3>2, <3>4 DEF RestoredIsWhole
    <3> QED
      BY <2>3, <3>3, <3>4, <3>5, Zenon
  <2>5. CASE InitializeAdmits
    <3>1. initializing # NoEnvelope /\ IsFile(files["dest"])
      BY <2>1, <2>5, Zenon DEF InitializeAdmits, Restoring
    <3>2. files["dest"] # NoFile
      BY <3>1, FileIsPresent, Zenon
    <3>3. (\E db : Put("dest", AppendFrames(files["dest"], db, 1))) \/ UNCHANGED files
      BY <2>5, Zenon DEF InitializeAdmits
    <3>4. /\ files' = [p \in Paths |-> files'[p]] /\ files'["live"] = files["live"]
          /\ files'["copy"] = files["copy"] /\ IsFile(files'["dest"])
          /\ files'["dest"].db = files["dest"].db
      <4>1. CASE UNCHANGED files
        BY <2>1, <3>1, <4>1, Zenon DEF FileInv
      <4>2. ASSUME NEW db, Put("dest", AppendFrames(files["dest"], db, 1))
            PROVE  /\ files' = [p \in Paths |-> files'[p]] /\ files'["live"] = files["live"]
                   /\ files'["copy"] = files["copy"] /\ IsFile(files'["dest"])
                   /\ files'["dest"].db = files["dest"].db
        <5>1. /\ files' = [p \in Paths |-> files'[p]] /\ files'["live"] = files["live"]
              /\ files'["copy"] = files["copy"] /\ files'["dest"] = AppendFrames(files["dest"], db, 1)
          BY <2>1, <4>2, <1>PutFacts, Zenon DEF FileInv, Paths
        <5> QED
          BY <3>1, <5>1, <1>AppendFramesFacts
      <4> QED
        BY <3>3, <4>1, <4>2, Zenon
    <3>5. RestoredIsWhole'
      BY <2>1, <3>2, <3>4, ZenonT(60) DEF RestoredIsWhole, Log, Visible, Present
    <3> QED
      BY <2>3, <3>4, <3>5, Zenon
  <2> QED
    BY <2>4, <2>5, Zenon

(* Init and Next.                                                           *)
<1>InitInv.
      ASSUME Init
      PROVE  IInv
  <2> USE <1>InitInv
  <2>1. PICK d \in Deployments :
          /\ job = d.job
          /\ files = [p \in Paths |-> IF p # "live" THEN NoFile
                      ELSE NewFile([Content(d.schema, IF d.schema < 14 THEN NoEnvelope
                                       ELSE InitialEnvelope(config)) EXCEPT !.rows = 1])]
    BY Zenon DEF Init
  <2> DEFINE e == IF d.schema < 14 THEN NoEnvelope ELSE InitialEnvelope(config)
             db == [Content(d.schema, e) EXCEPT !.rows = 1]
  <2>2. /\ IsContent(db) /\ db.schema = d.schema /\ db.receipts = <<>> /\ db.carried = {}
        /\ db = [db EXCEPT !.envelope = db.envelope]
    <3> HIDE DEF e
    <3> QED
      BY ZenonT(30) DEF Content, IsContent, ContentFields
  <2>3. files = [p \in Paths |-> IF p # "live" THEN NoFile ELSE NewFile(db)]
    BY <2>1, Zenon
  <2> HIDE DEF db, e
  <2>4. files = [p \in Paths |-> files[p]] /\ files["live"] = NewFile(db) /\ files["dest"] = NoFile
    BY <2>3, Zenon DEF Paths
  <2>5. IsFile(files["live"]) /\ Log = db
    BY <2>4, <1>NewFileFacts, Zenon DEF Log
  <2>6. d.job \in {"upgrade", "archive", "restore", "carry"} /\ d.schema \in Versions
    BY MaintenanceAssumption, Zenon DEF Versions
  <2>7. FileInv
    BY <2>2, <2>4, <2>5, <2>6, Zenon DEF FileInv
  <2>8. op = Ready /\ txn = NoTxn /\ daemon = "down" /\ work = [w \in Workers |-> "idle"] /\ before = <<>>
        /\ initializing = NoEnvelope
    BY Zenon DEF Init
  <2>9. StepInv
    BY <2>1, <2>6, <2>8, ReadyFacts, Zenon DEF StepInv, UpgradePcs, ArchivePcs, RestorePcs, CarryPcs
  <2>10. txn.by \notin Workers \cup {"nqd"}
    BY <2>8, MaintenanceAssumption, Zenon DEF NoTxn
  <2>11. PICK v \in DOMAIN Snapshots :
          sealed = IF job = "carry" THEN [by |-> "operator", version |-> v, replaced |-> FALSE] ELSE NoArchive
    BY ZenonT(30) DEF Init
  <2>12. sealed.by # "archive"
    BY <2>11, Zenon DEF NoArchive
  <2>13. OwnInv
    BY <2>2, <2>4, <2>5, <2>8, <2>10, <2>12, Zenon DEF OwnInv
  <2>14. PermitInv
    BY <2>8, <2>10, Zenon DEF PermitInv, Busy
  <2>15. ReceiptInv
    BY <2>2, <2>5, <2>8 DEF ReceiptInv, IsSeq, ReceiptsAnchored, Log, Visible
  <2>16. ArchiveDeclaresItsDatabase
    BY <2>12, Zenon DEF ArchiveDeclaresItsDatabase
  <2>17. CarryInv
    <3>1. op.pc = "ready"
      BY <2>8, ReadyFacts, Zenon
    <3>2. job = "carry" => Carrying
      BY <2>11, <3>1, Zenon DEF Carrying
    <3>3. CarryIsAnchored
      BY <2>2, <2>5, Zenon DEF CarryIsAnchored, Log, Visible
    <3> QED
      BY <3>2, <3>3, Zenon DEF CarryInv
  <2>18. RestoreInv
    <3>1. op.pc = "ready"
      BY <2>8, ReadyFacts, Zenon
    <3>2. Restoring
      BY <2>2, <2>5, <2>8, <3>1, Zenon DEF Restoring
    <3>3. RestoredIsWhole
      BY <2>4, Zenon DEF RestoredIsWhole, Present
    <3> QED
      BY <3>2, <3>3, ZenonT(60) DEF RestoreInv
  <2> QED
    BY <2>7, <2>9, <2>13, <2>14, <2>15, <2>16, <2>17, <2>18, Zenon DEF IInv

<1>NextInv.
      ASSUME IInv, [Next]_vars
      PROVE  IInv'
  <2> USE <1>NextInv
  <2>1. CASE Crowd \/ Clear \/ Read \/ Tick \/ UNCHANGED vars
    <3>1. UNCHANGED <<files, elsewhere, backups, txn, command, service, sealed, before, initializing>>
      BY <2>1, ZenonT(30) DEF Crowd, Clear, Read, Tick, vars, storage, ledger
    <3> QED
      BY <3>1, <1>AsideInv, Zenon
  <2>2. CASE OperatorKilled
    BY <2>2, <1>OperatorKilledInv, Zenon
  <2>3. CASE job = "upgrade" /\ (OldWriter \/ UpgradeStep)
    BY <2>3, <1>OldWriterInv, <1>UpgradeReadsInv, <1>FinalizeInv, <1>UpgradeWritesInv, <1>UpgradeMigratesInv,
       <1>CertifyInv, Zenon DEF UpgradeStep
  <2>4. CASE job = "archive" /\ ArchiveStep
    BY <2>4, <1>ArchiveOpensInv, <1>ArchiveCopiesInv, <1>ArchiveSealsInv, ZenonT(60) DEF ArchiveStep
  <2>5. CASE job = "archive" /\ DaemonStep
    BY <2>5, <1>DaemonStartInv, <1>NqdInv, <1>NqdCommitInv, <1>ServiceFailsInv, <1>WaitingInv, <1>DaemonKilledInv,
       <1>WorkerStartsInv, <1>WorkerBeginsInv, <1>WorkerCommitsInv, Zenon DEF DaemonStep
  <2>6. CASE job = "restore" /\ RestoreStep
    BY <2>6, <1>RestoreCopiesInv, <1>ReadmitInv, <1>RestoreFoldsInv, <1>RestorePublishesInv, <1>RestoreEndsInv,
       <1>InitializeInv, Zenon DEF RestoreStep
  <2>7. CASE job = "carry" /\ CarryStep
    BY <2>7, <1>CarryVerifiesInv, <1>InspectInv, <1>CarryReadsInv, <1>CarryRehashesInv,
       <1>CarryWritesInv, <1>CarryCommitsInv,
       <1>CarryAgainInv, <1>DeclareWritesInv, <1>DeclareInv, <1>ReplaceArchiveInv, ZenonT(60) DEF CarryStep
  <2> QED
    BY <2>1, <2>2, <2>3, <2>4, <2>5, <2>6, <2>7, ByJob, Zenon

<1>1. Init => IInv
  BY <1>InitInv, Zenon
<1>2. IInv /\ [Next]_vars => IInv'
  BY <1>NextInv, Zenon
<1> QED
  BY <1>1, <1>2, PTL DEF Spec

\* The writer permit of the daemon admits one blocking store operation at a time,
\* for any number of scheduled instances and sweeps, also while a stop cancels
\* tasks that wait for it or hold it.
THEOREM OneOperationAtATime == Spec => []OneStoreOperation
<1>1. IInv => OneStoreOperation
  <2> SUFFICES ASSUME IInv PROVE OneStoreOperation
    BY ZenonT(60)
  <2> QED
    BY Zenon DEF IInv, PermitInv, Busy, OneStoreOperation
<1> QED
  BY <1>1, Inductive, PTL

\* Receipts, archives and carried declarations say only what happened: the
\* backup a receipt names is the state that was migrated, an archive declares the
\* boundary of its own database, and a carried declaration was active, in an
\* archive without unresolved work.
THEOREM EvidenceIsAnchored == Spec => []RecordsAreAnchored
<1>1. IInv => RecordsAreAnchored
  BY Zenon DEF IInv, ReceiptInv, CarryInv, RecordsAreAnchored
<1> QED
  BY <1>1, Inductive, PTL

\* A restored store is its source, but for the envelope, which is of the
\* filesystem it was restored to.
THEOREM RestoredStoresAreWhole == Spec => []RestoredIsWhole
<1>1. IInv => RestoredIsWhole
  BY Zenon DEF IInv, RestoreInv
<1> QED
  BY <1>1, Inductive, PTL

=============================================================================
