------------------------- MODULE MaintenanceSizes --------------------------
(***************************************************************************)
(* The sizes of the store: main file, log, shared memory and sidecars      *)
(* lie within the envelope the store carries, and a transaction that was   *)
(* admitted leaves the filesystem its reserve, for every device, pressure  *)
(* and number of rows and receipts.                                        *)
(*                                                                         *)
(* SizeInv relates each of the files to the envelope it will be held to.   *)
(* A transaction appends at most the frames its job has left below the     *)
(* ceiling of the log, which is why the log is known to be short, or       *)
(* empty, at the step before; and what is promised on the device includes  *)
(* the whole envelope from the admission on.                               *)
(***************************************************************************)
EXTENDS MaintenanceProofs

-----------------------------------------------------------------------------
(* The invariant.                                                          *)

Padding == PaddingFrames(Page)

\* A policy, an observation and an envelope with numbers for bytes.
IsPolicy(p) ==
    p.ceiling \in Int /\ p.reserve \in Nat /\ p.automatic \in BOOLEAN /\ p.auxiliary \in Nat

IsObservation(o) ==
    o.total \in Int /\ o.available \in Int /\ o.limit \in Int /\ o.occupied \in Int

Configured(c) == {c.ceiling, c.reserve, c.auxiliary} \subseteq Nat \cup {Absent}

\* What the derivation of an envelope guarantees: every file at its limit fits.
IsEnvelope(e) ==
    /\ IsPolicy(e.policy) /\ e.aggregate \in Int
    /\ e.page = Page /\ e.pages \in Nat /\ e.pages >= MinPages
    /\ e.main = e.pages * Page /\ e.wal = 32 + (e.pages + Padding) * FrameBytes(Page)
    /\ e.main + e.wal + ShmAllowance(e.pages + Padding) + FixedAllowance + e.policy.auxiliary
         <= e.aggregate

Sized(f) ==
    /\ IsFile(f) /\ IsContent(f.log)
    /\ {f.frames, f.shm, f.auxiliary, f.db.pages, f.log.pages} \subseteq Nat

\* The file group lies within the envelope, with something to spare.
Inside(f, e) ==
    /\ f.db.pages <= e.pages /\ f.log.pages <= e.pages
    /\ f.frames <= e.pages + Padding /\ f.shm <= e.pages + Padding
    /\ f.auxiliary <= FixedAllowance + e.policy.auxiliary
    /\ f.frames < e.pages + Padding \/ f.auxiliary = 0

Holds(f) == f.log.envelope = NoEnvelope \/ (IsEnvelope(f.log.envelope) /\ Inside(f, f.log.envelope))

\* What the newest admission found is enough for the whole envelope.
Reserved(e) == Devices["a"] - promise - e.aggregate >= e.policy.reserve

TypeInv ==
    /\ Sized(files["live"])
    /\ \A p \in {"copy", "dest"} : files[p] = NoFile \/ Sized(files[p])
    /\ litter \in Nat /\ elsewhere \in DOMAIN Devices /\ Configured(config) /\ promise \in Int

\* Since it was truncated, a log got a frame per row and those of one migration.
UpgradeSize ==
    /\ Log.rows \in 1..MaxRows /\ (Log.schema < 14 => Log.envelope = NoEnvelope)
    /\ files["live"].frames <= Log.rows + 1 + MigrationPages
    /\ files["live"].shm <= Log.rows + 1 + MigrationPages
    /\ op.pc = "finalize" => Sized(files["copy"])
    /\ op.pc \in {"truncate", "migrate"} =>
         /\ IsEnvelope(op.envelope) /\ Inside(files["live"], op.envelope)
         /\ Log.envelope # NoEnvelope => op.envelope = Log.envelope
    /\ op.pc = "migrate" => files["live"].frames <= Log.rows /\ Reserved(op.envelope)

\* A transaction starts with an empty log.
ArchiveSize ==
    /\ Log.envelope # NoEnvelope /\ files["live"].auxiliary = 0
    /\ txn = [by |-> txn.by, at |-> "writing"] => files["live"].frames = 0

CarrySize ==
    /\ Log.envelope # NoEnvelope /\ files["live"].auxiliary = 0
    /\ files["live"].frames <= 2 /\ files["live"].shm <= 2
    /\ op.pc = "carry" => files["live"].frames <= 1
    /\ txn = [by |-> txn.by, at |-> "writing"] => files["live"].frames = 0

\* A copy that may be published lies within the envelope it carries.
RestoreSize ==
    /\ Log.envelope # NoEnvelope
    /\ op.pc \in {"readmit", "fold", "publish"} =>
         /\ Sized(files["copy"]) /\ IsEnvelope(files["copy"].log.envelope)
         /\ files["copy"].log.pages <= files["copy"].log.envelope.pages
    /\ files["dest"] # NoFile => Holds(files["dest"])
    /\ initializing # NoEnvelope =>
         /\ IsEnvelope(initializing) /\ Sized(files["dest"])
         /\ files["dest"].db.pages = files["dest"].log.pages
         /\ files["dest"].frames = 0 /\ files["dest"].shm = 0 /\ files["dest"].auxiliary = 0

SizeInv ==
    /\ TypeInv /\ Holds(files["live"])
    /\ promise # Absent /\ Log.envelope # NoEnvelope => Reserved(Log.envelope)
    /\ job = "upgrade" => UpgradeSize
    /\ job = "archive" => ArchiveSize
    /\ job = "carry" => CarrySize
    /\ job = "restore" => RestoreSize

-----------------------------------------------------------------------------
(* The arithmetic of an envelope.                                           *)

LEMMA PaddingIs == Padding = 16 /\ Page = 4096 /\ FrameBytes(Page) = 4120 /\ MinPages = 256
                   /\ FixedAllowance = 4194304 /\ Absent = -1
BY DEF Padding, PaddingFrames, CeilDiv, MaxSectorBytes, FrameBytes, Page, MinPages, FixedAllowance,
   MiB, KiB, Absent

LEMMA ShmAllowanceFacts ==
    ASSUME NEW m \in Nat, NEW n \in Nat, m <= n
    PROVE  ShmAllowance(m) \in Nat /\ ShmAllowance(m) <= ShmAllowance(n)
<1>1. ShmAllowance(m) = ((m + 4129) \div 4096) * 32768 /\ ShmAllowance(n) = ((n + 4129) \div 4096) * 32768
  BY DEF ShmAllowance, CeilDiv, ShmFramesPerRegion, ShmFirstRegionFrames, ShmRegionBytes
<1>2. (m + 4129) \div 4096 \in Nat /\ (m + 4129) \div 4096 <= (n + 4129) \div 4096
  OBVIOUS
<1> QED
  BY <1>1, <1>2

LEMMA CeilingIs ==
    ASSUME NEW e, IsEnvelope(e)
    PROVE  WalFrameCeiling(e) = e.pages + Padding
<1>1. e.pages \in Nat /\ WalFrameCeiling(e) = (32 + (e.pages + 16) * 4120 - 32) \div 4120
  BY PaddingIs DEF IsEnvelope, WalFrameCeiling
<1>2. \A n \in Nat : (32 + (n + 16) * 4120 - 32) \div 4120 = n + 16
  OBVIOUS
<1> QED
  BY <1>1, <1>2, PaddingIs

LEMMA EnvelopeNumbers ==
    ASSUME NEW e, IsEnvelope(e)
    PROVE  /\ e.aggregate \in Int /\ e.policy.reserve \in Int /\ e.policy.auxiliary \in Nat
           /\ e.pages \in Nat /\ e.pages >= 256
<1>1. e.aggregate \in Int /\ e.policy.reserve \in Nat /\ e.policy.auxiliary \in Nat
      /\ e.pages \in Nat /\ e.pages >= MinPages
  BY Zenon DEF IsEnvelope, IsPolicy
<1> QED
  BY <1>1, PaddingIs

LEMMA OccupiedFacts ==
    ASSUME NEW f, Sized(f)
    PROVE  /\ Occupied(f) \in Nat
           /\ Occupied(f) = f.db.pages * 4096 + (IF f.frames = 0 THEN 0 ELSE 32 + f.frames * 4120)
                              + (IF f.shm = 0 THEN 0 ELSE ShmAllowance(f.shm)) + f.auxiliary
           /\ Members(f).main = f.db.pages * 4096
<1>1. f.db.pages \in Nat /\ f.frames \in Nat /\ f.shm \in Nat /\ f.auxiliary \in Nat
  BY DEF Sized
<1>2. ShmAllowance(f.shm) \in Nat
  BY <1>1, ShmAllowanceFacts
<1> QED
  BY <1>1, <1>2, PaddingIs DEF Occupied, Members

\* A file group inside an envelope takes less than the aggregate of the envelope,
\* and each of its files at most its share.
LEMMA InsideFacts ==
    ASSUME NEW f, NEW e, Sized(f), IsEnvelope(e), Inside(f, e)
    PROVE  /\ Occupied(f) < e.aggregate
           /\ Members(f).main <= e.main /\ Members(f).wal <= e.wal
           /\ Members(f).shm <= ShmAllowance(WalFrameCeiling(e))
<1> DEFINE ceiling == e.pages + 16
<1>1. f.db.pages \in Nat /\ f.frames \in Nat /\ f.shm \in Nat /\ f.auxiliary \in Nat
  BY DEF Sized
<1>2. e.pages \in Nat /\ e.policy.auxiliary \in Nat /\ e.aggregate \in Int
      /\ e.main = e.pages * 4096 /\ e.wal = 32 + ceiling * 4120
      /\ e.main + e.wal + ShmAllowance(ceiling) + 4194304 + e.policy.auxiliary <= e.aggregate
  BY PaddingIs DEF IsEnvelope, IsPolicy
<1>3. f.db.pages <= e.pages /\ f.frames <= ceiling /\ f.shm <= ceiling
      /\ f.auxiliary <= 4194304 + e.policy.auxiliary /\ (f.frames < ceiling \/ f.auxiliary = 0)
  BY PaddingIs DEF Inside
<1>4. /\ ShmAllowance(f.shm) \in Nat /\ ShmAllowance(ceiling) \in Nat
      /\ ShmAllowance(f.shm) <= ShmAllowance(ceiling)
  BY <1>1, <1>2, <1>3, ShmAllowanceFacts
<1>5. WalFrameCeiling(e) = ceiling
  BY CeilingIs, PaddingIs
<1> DEFINE wal == IF f.frames = 0 THEN 0 ELSE 32 + f.frames * 4120
           shm == IF f.shm = 0 THEN 0 ELSE ShmAllowance(f.shm)
<1>6. Members(f).main = f.db.pages * 4096 /\ Members(f).wal = wal /\ Members(f).shm = shm
      /\ Occupied(f) = f.db.pages * 4096 + wal + shm + f.auxiliary
  BY PaddingIs DEF Occupied, Members
<1>7. wal \in Nat /\ shm \in Nat /\ wal <= e.wal /\ shm <= ShmAllowance(ceiling)
      /\ (f.frames < ceiling => wal < e.wal)
  BY <1>1, <1>2, <1>3, <1>4
<1>8. f.db.pages * 4096 <= e.main /\ f.db.pages * 4096 \in Nat /\ e.main \in Nat /\ e.wal \in Nat
  BY <1>1, <1>2, <1>3
<1> HIDE DEF wal, shm, ceiling
<1>9. Occupied(f) < e.aggregate
  BY <1>1, <1>2, <1>3, <1>4, <1>6, <1>7, <1>8
<1> QED
  BY <1>5, <1>6, <1>7, <1>8, <1>9

LEMMA LimitedPagesIsInt ==
    ASSUME NEW pages \in Int, NEW limit \in Int
    PROVE  LimitedPages(pages, limit, Page) \in Int
<1>1. Larger(Page, 4096) = 4096 /\ PaddingFrames(Page) * FrameBytes(Page) = 65920
  BY PaddingIs DEF Larger, Padding
<1>2. \A n \in Int : FloorAtZero(n) \in Int
  BY DEF FloorAtZero, Larger
<1>3. \A m, n \in Int : Smaller(m, n) \in Int
  BY DEF Smaller
<1>4. PICK a : a = (limit - Larger(Page, 4096)) \div Page
  OBVIOUS
<1>5. PICK b : b = FloorAtZero(limit - Larger(Page, 4096) - 32 - PaddingFrames(Page) * FrameBytes(Page))
  OBVIOUS
<1>6. a \in Int /\ b \in Int /\ b \div FrameBytes(Page) \in Int
  BY <1>1, <1>2, <1>4, <1>5, PaddingIs
<1>7. LimitedPages(pages, limit, Page)
        = IF limit = Absent THEN pages ELSE Smaller(pages, Smaller(a, b \div FrameBytes(Page)))
  BY <1>4, <1>5 DEF LimitedPages
<1> QED
  BY <1>3, <1>6, <1>7, SMTT(30)

LEMMA DeriveShape ==
    ASSUME NEW policy, NEW o, NEW existing, NEW pages, pages = DerivedPages(policy, o, Page),
           NEW e, e = Derive(policy, o, Page, existing), e # Refused
    PROVE  /\ ~ (pages < MinPages) /\ ~ (existing > pages)
           /\ ~ (pages * Page + (32 + (pages + Padding) * FrameBytes(Page))
                   + ShmAllowance(pages + Padding) + FixedAllowance + policy.auxiliary
                   > Aggregate(policy, o))
           /\ e = [verdict |-> "ok", policy |-> policy, observed |-> o,
                   aggregate |-> Aggregate(policy, o), page |-> Page, pages |-> pages,
                   main |-> pages * Page, wal |-> 32 + (pages + Padding) * FrameBytes(Page)]
<1>1. PICK g : g = EnvelopeOf(policy, o, Page, pages)
  OBVIOUS
<1>2. /\ g.pages = pages /\ g.main = pages * Page /\ g.wal = 32 + (pages + Padding) * FrameBytes(Page)
      /\ g.aggregate = Aggregate(policy, o)
  BY <1>1 DEF EnvelopeOf, Padding
<1>3. e = g /\ ~ (g.pages < MinPages) /\ ~ (existing > g.pages)
      /\ ~ (g.main + g.wal + ShmAllowance(g.pages + Padding) + FixedAllowance + policy.auxiliary > g.aggregate)
  BY <1>1 DEF Derive, Padding
<1> QED
  BY <1>1, <1>2, <1>3 DEF EnvelopeOf, Padding

\* A derivation that is not refused gives an envelope of the observed filesystem
\* with room for the pages that exist.
LEMMA DeriveIsEnvelope ==
    ASSUME NEW policy, NEW o, NEW existing \in Nat, IsPolicy(policy), IsObservation(o),
           NEW e, e = Derive(policy, o, Page, existing), e # Refused
    PROVE  IsEnvelope(e) /\ existing <= e.pages /\ e.policy = policy
<1>2. Aggregate(policy, o) \in Int
  BY DEF Aggregate, IsPolicy, IsObservation
<1>3. Overhead(policy, Page) \in Int
  BY PaddingIs DEF Overhead, Padding, IsPolicy, ShmRegionBytes, ShmFramesPerRegion, ShmFirstRegionFrames
<1>4. (Aggregate(policy, o) - Overhead(policy, Page) - 32) \div (2 * Page + 32) \in Int
  BY <1>2, <1>3, PaddingIs
<1>5. PICK pages : pages = DerivedPages(policy, o, Page)
  OBVIOUS
<1>6. pages \in Int
  <2>1. o.limit \in Int
    BY DEF IsObservation
  <2> QED
    BY <1>4, <1>5, <2>1, LimitedPagesIsInt, ZenonT(60) DEF DerivedPages
<1>7. PICK aggregate : aggregate = Aggregate(policy, o)
  OBVIOUS
<1>8. /\ ~ (pages < MinPages) /\ ~ (existing > pages)
      /\ ~ (pages * Page + (32 + (pages + Padding) * FrameBytes(Page))
              + ShmAllowance(pages + Padding) + FixedAllowance + policy.auxiliary
              > aggregate)
      /\ e = [verdict |-> "ok", policy |-> policy, observed |-> o,
              aggregate |-> aggregate, page |-> Page, pages |-> pages,
              main |-> pages * Page, wal |-> 32 + (pages + Padding) * FrameBytes(Page)]
  BY <1>5, <1>7, DeriveShape
<1>9. pages \in Nat /\ pages >= MinPages /\ existing <= pages
  BY <1>6, <1>8, PaddingIs
<1>10. ShmAllowance(pages + Padding) \in Int
  BY <1>9, PaddingIs, ShmAllowanceFacts
<1>11. pages * Page + (32 + (pages + Padding) * FrameBytes(Page))
         + ShmAllowance(pages + Padding) + FixedAllowance + policy.auxiliary <= aggregate
  BY <1>2, <1>7, <1>8, <1>9, <1>10, PaddingIs DEF IsPolicy
<1>12. e.policy = policy /\ e.aggregate = aggregate /\ e.page = Page /\ e.pages = pages
      /\ e.main = pages * Page /\ e.wal = 32 + (pages + Padding) * FrameBytes(Page)
  BY <1>8
<1>13. IsEnvelope(e)
  BY <1>2, <1>7, <1>9, <1>11, <1>12 DEF IsEnvelope
<1> QED
  BY <1>9, <1>12, <1>13

-----------------------------------------------------------------------------
(* What the filesystem offers, and what an admission has established.        *)

LEMMA ObserveFacts ==
    ASSUME TypeInv
    PROVE  /\ \A p \in Paths : OccupiedAt(p) \in Nat /\ IsObservation(Observe(p))
           /\ Used("a") \in Int /\ Devices["a"] \in Int
<1>1. \A p \in Paths : OccupiedAt(p) \in Nat
  BY OccupiedFacts DEF TypeInv, OccupiedAt, Present, Paths
<1>2. \A d : Used(d) \in Int
  <2>1. OccupiedAt("live") \in Int /\ OccupiedAt("copy") \in Int /\ OccupiedAt("dest") \in Int
    BY <1>1 DEF Paths
  <2>2. litter * Page \in Int /\ PressureBytes \in Int
    BY PaddingIs, StoreFileAssumption DEF TypeInv
  <2> QED
    BY <2>1, <2>2 DEF Used
<1>3. \A p \in Paths : Where(p) \in DOMAIN Devices
  BY StoreFileAssumption DEF Where, TypeInv
<1>4. \A p \in Paths : Devices[Where(p)] \in Int /\ FileLimit \in Int
  BY <1>3, StoreFileAssumption DEF Absent
<1>5. \A n \in Int : FloorAtZero(n) \in Int
  BY DEF FloorAtZero, Larger
<1>6. ASSUME NEW p \in Paths PROVE IsObservation(Observe(p))
  <2>1. Devices[Where(p)] - Used(Where(p)) \in Int
    BY <1>2, <1>4
  <2> QED
    BY <1>1, <1>4, <1>5, <2>1 DEF Observe, IsObservation
<1>7. Devices["a"] \in Int
  BY StoreFileAssumption
<1> QED
  BY <1>1, <1>2, <1>6, <1>7

LEMMA ResolveFacts ==
    ASSUME NEW ceiling \in Int, NEW reserve \in Nat \cup {Absent}, NEW auxiliary \in Nat \cup {Absent},
           NEW o, o.total \in Int
    PROVE  IsPolicy(ResolvePolicy(ceiling, reserve, auxiliary, o))
<1>1. CeilDiv(o.total, 5) \in Int
  BY DEF CeilDiv
<1>2. Larger(1024 * MiB, CeilDiv(o.total, 5)) \in Nat /\ 64 * MiB \in Nat
  BY <1>1 DEF Larger, MiB, KiB
<1> QED
  BY <1>2, ZenonT(60) DEF ResolvePolicy, IsPolicy

LEMMA ConfiguredPolicy ==
    ASSUME NEW c, Configured(c), NEW o, o.total \in Int
    PROVE  IsPolicy(ResolvePolicy(c.ceiling, c.reserve, c.auxiliary, o))
<1>1. c.ceiling \in Int /\ c.reserve \in Nat \cup {Absent} /\ c.auxiliary \in Nat \cup {Absent}
  BY PaddingIs DEF Configured
<1> QED
  BY <1>1, ResolveFacts, ZenonT(60)

LEMMA RestorePolicy ==
    ASSUME NEW prior, IsPolicy(prior), NEW o, o.total \in Int
    PROVE  IsPolicy(PolicyForRestore(prior, o))
<1>1. prior.ceiling \in Int /\ prior.auxiliary \in Nat \cup {Absent}
      /\ (IF prior.automatic THEN Absent ELSE prior.reserve) \in Nat \cup {Absent}
  BY ZenonT(60) DEF IsPolicy
<1> QED
  BY <1>1, ResolveFacts, ZenonT(60) DEF PolicyForRestore

LEMMA PreflightFacts ==
    ASSUME NEW e, NEW o, NEW m, Preflight(e, o, m) = "ok"
    PROVE  /\ ~ (o.auxiliary > FixedAllowance + e.policy.auxiliary)
           /\ ~ (o.available < e.policy.reserve + (e.aggregate - o.occupied))
           /\ ~ (m.main > e.main)
BY ZenonT(60) DEF Preflight

\* The files that pass a preflight are inside the envelope but for the log.
LEMMA PreflightInside ==
    ASSUME TypeInv, NEW p \in Paths, Sized(files[p]), NEW e, IsEnvelope(e),
           Preflight(e, Observe(p), Members(files[p])) = "ok"
    PROVE  /\ files[p].db.pages <= e.pages
           /\ files[p].auxiliary <= FixedAllowance + e.policy.auxiliary
<1>1. files[p].db.pages \in Nat /\ files[p].auxiliary \in Nat /\ Members(files[p]).main = files[p].db.pages * 4096
  BY OccupiedFacts DEF Sized
<1>2. Observe(p).auxiliary = files[p].auxiliary
  BY FileIsPresent, ZenonT(60) DEF Observe, Present, Sized
<1>3. e.pages \in Nat /\ e.main = e.pages * 4096 /\ e.policy.auxiliary \in Nat
  BY PaddingIs DEF IsEnvelope, IsPolicy
<1>4. ~ (files[p].auxiliary > FixedAllowance + e.policy.auxiliary)
      /\ ~ (files[p].db.pages * 4096 > e.pages * 4096)
  BY <1>1, <1>2, <1>3, PreflightFacts
<1> QED
  BY <1>1, <1>3, <1>4, PaddingIs, SMTT(30)

\* What is admitted leaves the reserve, whatever the envelope is filled with.
LEMMA AdmissionReserves ==
    ASSUME TypeInv, NEW e, IsEnvelope(e), Inside(files["live"], e), NEW k \in Int,
           ~ (Observe("live").available + OccupiedAt("live") - k
                < e.policy.reserve + (e.aggregate - k))
    PROVE  Others \in Int /\ Devices["a"] - Others - e.aggregate >= e.policy.reserve
<1>1. OccupiedAt("live") \in Nat /\ Used("a") \in Int /\ Devices["a"] \in Int
  BY ObserveFacts, Zenon DEF Paths
<1>2. e.aggregate \in Int /\ e.policy.reserve \in Nat
  BY Zenon DEF IsEnvelope, IsPolicy
<1>3. OccupiedAt("live") < e.aggregate
  BY InsideFacts, FileIsPresent, Zenon DEF OccupiedAt, Present, TypeInv, Sized
<1>4. Observe("live").available = IF Devices["a"] - Used("a") < 0 THEN 0 ELSE Devices["a"] - Used("a")
  BY Zenon DEF Observe, Where, FloorAtZero, Larger
<1> QED
  BY <1>1, <1>2, <1>3, <1>4 DEF Others

-----------------------------------------------------------------------------
(* How the steps of a writer change the sizes.                              *)

LEMMA FoldSizes ==
    ASSUME NEW f, Sized(f)
    PROVE  /\ Sized(Fold(f)) /\ Fold(f).frames = f.frames /\ Fold(f).shm = f.shm
           /\ Fold(f).auxiliary = f.auxiliary
BY Zenon DEF Fold, Sized, IsFile, FileFields

LEMMA CheckpointedSizes ==
    ASSUME NEW f, Sized(f)
    PROVE  /\ Sized(Checkpointed(f)) /\ Checkpointed(f).frames = 0 /\ Checkpointed(f).shm = f.shm
           /\ Checkpointed(f).auxiliary = f.auxiliary
BY DEF Checkpointed, Truncate, Fold, Sized, IsFile, FileFields

LEMMA AppendSizes ==
    ASSUME NEW f, Sized(f), NEW db, IsContent(db), db.pages \in Nat, NEW n \in Nat,
           NEW g, g = AppendFrames(f, db, n)
    PROVE  /\ Sized(g) /\ g.frames = f.frames + n /\ g.auxiliary = f.auxiliary
           /\ g.shm = (IF f.shm < f.frames + n THEN f.frames + n ELSE f.shm)
           /\ g.log = db /\ g.db = f.db
BY DEF AppendFrames, Larger, Sized, IsFile, FileFields

LEMMA AppendOne ==
    ASSUME NEW f, Sized(f), NEW db, IsContent(db), db.pages \in Nat, NEW g, g = AppendFrames(f, db, 1)
    PROVE  /\ Sized(g) /\ g.frames = f.frames + 1 /\ g.auxiliary = f.auxiliary
           /\ g.shm = (IF f.shm < f.frames + 1 THEN f.frames + 1 ELSE f.shm)
           /\ g.log = db /\ g.db = f.db
BY DEF AppendFrames, Larger, Sized, IsFile, FileFields

LEMMA NewFileSizes ==
    ASSUME NEW db, IsContent(db), db.pages \in Nat, NEW f, f = NewFile(db)
    PROVE  Sized(f) /\ f.frames = 0 /\ f.shm = 0 /\ f.auxiliary = 0 /\ f.log = db /\ f.db = db
BY DEF NewFile, Sized, IsFile, FileFields

\* A fold and a truncation stay inside an envelope.
LEMMA FoldedInside ==
    ASSUME NEW f, NEW e, Sized(f), IsEnvelope(e), Inside(f, e)
    PROVE  Inside(Fold(f), e) /\ Inside(Checkpointed(f), e)
<1>1. Fold(f).db = f.log /\ Fold(f).log = f.log /\ Checkpointed(f).db = f.log /\ Checkpointed(f).log = f.log
  BY FoldFacts, CheckpointedFacts, Zenon DEF Sized
<1>2. e.pages \in Nat /\ e.pages >= 256
  BY PaddingIs DEF IsEnvelope
<1> QED
  BY <1>1, <1>2, FoldSizes, CheckpointedSizes, PaddingIs DEF Inside

-----------------------------------------------------------------------------
(* Steps that leave the live store alone.                                   *)

\* The steps of a command before which something was established about sizes.
Prepared == {"truncate", "migrate", "carry", "readmit", "fold", "publish"}

LEMMA AsideSize ==
    ASSUME SizeInv, job' = job, files'["live"] = files["live"], files'["dest"] = files["dest"],
           files'["copy"] = NoFile \/ Sized(files'["copy"]),
           litter' \in Nat, UNCHANGED <<elsewhere, config, promise, initializing>>,
           txn' = txn \/ txn' # [by |-> txn'.by, at |-> "writing"],
           \/ op' = op /\ files'["copy"] = files["copy"]
           \/ op'.pc \notin Prepared /\ (op'.pc = "finalize" => Sized(files'["copy"]))
    PROVE  SizeInv'
<1>1. Log' = Log
  BY Zenon DEF Log
<1>2. TypeInv'
  BY Zenon DEF SizeInv, TypeInv
<1>3. job = "upgrade" => UpgradeSize'
  BY <1>1, Zenon DEF SizeInv, UpgradeSize, Reserved, Prepared
<1>4. job = "archive" => ArchiveSize'
  BY <1>1, Zenon DEF SizeInv, ArchiveSize
<1>5. job = "carry" => CarrySize'
  BY <1>1, Zenon DEF SizeInv, CarrySize, Prepared
<1>6. job = "restore" => RestoreSize'
  BY <1>1, Zenon DEF SizeInv, RestoreSize, Prepared
<1>7. promise' # Absent /\ Log'.envelope # NoEnvelope => Reserved(Log.envelope)'
  BY <1>1, Zenon DEF SizeInv, Reserved
<1>8. Holds(files'["live"])
  BY Zenon DEF SizeInv
<1> QED
  BY <1>2, <1>3, <1>4, <1>5, <1>6, <1>7, <1>8, Zenon DEF SizeInv

LEMMA QuietSize ==
    ASSUME SizeInv, UNCHANGED <<files, elsewhere, litter, config, promise, job, initializing>>,
           txn' = txn \/ txn' = NoTxn,
           op' = op \/ op'.pc \notin Prepared \cup {"finalize"}
    PROVE  SizeInv'
<1>1. files'["copy"] = NoFile \/ Sized(files'["copy"])
  BY Zenon DEF SizeInv, TypeInv
<1>2. litter' \in Nat
  BY Zenon DEF SizeInv, TypeInv
<1>3. txn' = txn \/ txn' # [by |-> txn'.by, at |-> "writing"]
  BY DEF NoTxn
<1> QED
  BY <1>1, <1>2, <1>3, AsideSize, Zenon

\* A private copy that goes away or is made, and backups that take its place.
LEMMA CopySize ==
    ASSUME FileInv, SizeInv, NEW f, files' = [files EXCEPT !["copy"] = f], f = NoFile \/ Sized(f),
           litter' \in Nat, UNCHANGED <<elsewhere, config, promise, job, initializing>>,
           txn' = txn \/ txn' = NoTxn, op'.pc \notin Prepared, op'.pc = "finalize" => Sized(f)
    PROVE  SizeInv'
<1>1. files'["copy"] = f /\ files'["live"] = files["live"] /\ files'["dest"] = files["dest"]
  BY Zenon DEF FileInv, Paths
<1>2. txn' = txn \/ txn' # [by |-> txn'.by, at |-> "writing"]
  BY DEF NoTxn
<1> QED
  BY <1>1, <1>2, AsideSize, Zenon

LEMMA FailSize ==
    ASSUME FileInv, SizeInv, Fail, UNCHANGED initializing
    PROVE  SizeInv'
<1>1. litter' \in Nat
  BY Zenon DEF Fail, SizeInv, TypeInv
<1>2. op'.pc = "ready" /\ (txn' = txn \/ txn' = NoTxn)
  BY ReadyFacts, Zenon DEF Fail
<1> QED
  BY <1>1, <1>2, CopySize, ZenonT(60) DEF Fail, Prepared

LEMMA OperatorKilledSize ==
    ASSUME FileInv, SizeInv, OperatorKilled
    PROVE  SizeInv'
<1>1. litter' \in Nat
  <2>1. Present("copy") => files["copy"].db.pages \in Nat
    BY Zenon DEF SizeInv, TypeInv, Present, Sized
  <2> QED
    BY <2>1 DEF OperatorKilled, SizeInv, TypeInv
<1>2. op'.pc = "ready" /\ (txn' = txn \/ txn' = NoTxn)
  BY ReadyFacts, Zenon DEF OperatorKilled
<1> QED
  BY <1>1, <1>2, CopySize, ZenonT(60) DEF OperatorKilled, Prepared, ledger

\* A copy of the live store has the size of its content.
LEMMA CopyLiveSize ==
    ASSUME FileInv, SizeInv, CopyLive, UNCHANGED <<job, initializing>>, op'.pc \notin Prepared
    PROVE  SizeInv'
<1>1. Sized(NewFile(Log))
  BY NewFileSizes DEF SizeInv, TypeInv, Sized, Log
<1>2. litter' \in Nat
  BY Zenon DEF CopyLive, SizeInv, TypeInv
<1> QED
  BY <1>1, <1>2, CopySize, ZenonT(60) DEF CopyLive, Visible, Log

-----------------------------------------------------------------------------
(* Steps that write the live store.                                         *)

\* Only the live store and what was promised of it change.
LiveOnly ==
    /\ files'["copy"] = files["copy"] /\ files'["dest"] = files["dest"]
    /\ UNCHANGED <<litter, elsewhere, config>>

LEMMA LiveSize ==
    ASSUME SizeInv, LiveOnly, job' = job, job # "restore",
           Sized(files'["live"]), Holds(files'["live"]), promise' \in Int,
           promise' # Absent /\ Log'.envelope # NoEnvelope => Reserved(Log.envelope)',
           job = "upgrade" => UpgradeSize', job = "archive" => ArchiveSize', job = "carry" => CarrySize'
    PROVE  SizeInv'
<1>1. TypeInv'
  BY Zenon DEF SizeInv, TypeInv, LiveOnly
<1> QED
  BY <1>1, Zenon DEF SizeInv

\* What was promised of an envelope stays promised.
LEMMA KeptReserve ==
    ASSUME SizeInv, promise' = promise, Log'.envelope = Log.envelope
    PROVE  /\ promise' \in Int
           /\ promise' # Absent /\ Log'.envelope # NoEnvelope => Reserved(Log.envelope)'
BY Zenon DEF SizeInv, TypeInv, Reserved

LEMMA BeginSize ==
    ASSUME FileInv, SizeInv, NEW who, BeginWrite(who)
    PROVE  /\ LiveOnly /\ Log' = Log /\ Sized(files'["live"]) /\ Holds(files'["live"])
           /\ files'["live"].frames = files["live"].frames /\ files'["live"].shm = files["live"].shm
           /\ files'["live"].auxiliary = files["live"].auxiliary
           /\ \A e : IsEnvelope(e) /\ Inside(files["live"], e) => Inside(files'["live"], e)
           /\ txn' = [by |-> who, at |-> "folding"] /\ promise' = promise
<1>1. files'["live"] = Fold(files["live"]) /\ files'["copy"] = files["copy"] /\ files'["dest"] = files["dest"]
  BY Zenon DEF BeginWrite, Put, FileInv, Paths
<1>2. Sized(files["live"]) /\ Holds(files["live"]) /\ Fold(files["live"]).log = files["live"].log
  BY FoldFacts, Zenon DEF SizeInv, TypeInv, Sized
<1>3. \A e : IsEnvelope(e) /\ Inside(files["live"], e) => Inside(files'["live"], e)
  BY <1>1, <1>2, FoldedInside, Zenon
<1>4. Holds(files'["live"]) /\ Log' = Log
  BY <1>1, <1>2, <1>3, ZenonT(60) DEF Holds, Log
<1> QED
  BY <1>1, <1>2, <1>3, <1>4, FoldSizes, Zenon DEF LiveOnly, BeginWrite

LEMMA TruncateSize ==
    ASSUME FileInv, SizeInv, NEW who, NEW e, TruncateLog(who, e), IsEnvelope(e), Inside(files["live"], e)
    PROVE  /\ LiveOnly /\ Log' = Log /\ Sized(files'["live"]) /\ Holds(files'["live"])
           /\ files'["live"].frames = 0 /\ files'["live"].shm = files["live"].shm
           /\ files'["live"].auxiliary = files["live"].auxiliary
           /\ \A d : IsEnvelope(d) /\ Inside(files["live"], d) => Inside(files'["live"], d)
           /\ promise' \in Int
           /\ \/ txn' = NoTxn /\ promise' = promise
              \/ /\ txn' = [by |-> who, at |-> "writing"]
                 /\ Devices["a"] - promise' - e.aggregate >= e.policy.reserve
<1>1. /\ files'["live"] = Checkpointed(files["live"]) /\ files'["copy"] = files["copy"]
      /\ files'["dest"] = files["dest"]
  BY Zenon DEF TruncateLog, Put, FileInv, Paths
<1>2. /\ Sized(files["live"]) /\ Holds(files["live"]) /\ TypeInv /\ promise \in Int
      /\ Checkpointed(files["live"]).log = files["live"].log
  BY CheckpointedFacts, ZenonT(60) DEF SizeInv, TypeInv, Sized
<1>3. \A d : IsEnvelope(d) /\ Inside(files["live"], d) => Inside(files'["live"], d)
  BY <1>1, <1>2, FoldedInside, Zenon
<1>4. Holds(files'["live"]) /\ Log' = Log
  BY <1>1, <1>2, <1>3, Zenon DEF Holds, Log
<1>5. ASSUME ~ (txn' = NoTxn /\ promise' = promise)
      PROVE  /\ promise' \in Int /\ txn' = [by |-> who, at |-> "writing"]
             /\ Devices["a"] - promise' - e.aggregate >= e.policy.reserve
  <2> DEFINE k == Occupied(Checkpointed(files["live"]))
             o == [Observe("live") EXCEPT !.occupied = k,
                       !.available = @ + OccupiedAt("live") - k]
  <2>1. Preflight(e, o, Members(Checkpointed(files["live"]))) = "ok"
        /\ txn' = [by |-> who, at |-> "writing"] /\ promise' = Others
    BY <1>5, Zenon DEF TruncateLog
  <2>2. o.occupied = k /\ o.available = Observe("live").available + OccupiedAt("live") - k
    BY Zenon DEF Observe
  <2>3. ~ (o.available < e.policy.reserve + (e.aggregate - o.occupied))
    BY <2>1, PreflightFacts, ZenonT(60)
  <2>4. k \in Int
    BY <1>2, CheckpointedSizes, OccupiedFacts, SMTT(30)
  <2> HIDE DEF o, k
  <2> QED
    BY <1>2, <2>1, <2>2, <2>3, <2>4, AdmissionReserves, Zenon
<1> QED
  BY <1>1, <1>2, <1>3, <1>4, <1>5, CheckpointedSizes, ZenonT(60) DEF LiveOnly, TruncateLog

LEMMA CommitSize ==
    ASSUME FileInv, SizeInv, NEW db, IsContent(db), db.pages \in Nat, NEW n \in Nat, Commit(db, n)
    PROVE  /\ LiveOnly /\ Log' = db /\ Sized(files'["live"]) /\ files'["live"].db = files["live"].db
           /\ files'["live"].frames = files["live"].frames + n
           /\ files'["live"].auxiliary = files["live"].auxiliary
           /\ files'["live"].shm = IF files["live"].shm < files["live"].frames + n
                                   THEN files["live"].frames + n ELSE files["live"].shm
           /\ txn' = NoTxn /\ promise' = promise
<1>1. /\ files'["live"] = AppendFrames(files["live"], db, n) /\ files'["copy"] = files["copy"]
      /\ files'["dest"] = files["dest"]
  BY Zenon DEF Commit, Put, FileInv, Paths
<1>2. Sized(files["live"])
  BY Zenon DEF SizeInv, TypeInv
<1> QED
  BY <1>1, <1>2, AppendSizes DEF LiveOnly, Commit, Log

LEMMA AddRowSizes ==
    ASSUME NEW db, IsContent(db)
    PROVE  /\ IsContent(AddRow(db)) /\ AddRow(db).rows = db.rows + 1 /\ AddRow(db).pages = db.pages
           /\ AddRow(db).envelope = db.envelope /\ AddRow(db).schema = db.schema
BY Zenon DEF AddRow, IsContent, ContentFields

LEMMA StorageSize ==
    ASSUME SizeInv, UNCHANGED <<storage, job, initializing>>,
           op' = op \/ op'.pc \notin Prepared \cup {"finalize"}
    PROVE  SizeInv'
BY QuietSize, Zenon DEF storage

-----------------------------------------------------------------------------
(* The upgrade.                                                             *)

\* The log of an upgrade is short, so only its pages count.
LEMMA ShortLog ==
    ASSUME NEW f, Sized(f), NEW e, IsEnvelope(e), NEW rows \in 1..MaxRows,
           f.frames <= rows + 1 + MigrationPages, f.shm <= rows + 1 + MigrationPages,
           f.db.pages <= e.pages, f.log.pages <= e.pages,
           f.auxiliary <= FixedAllowance + e.policy.auxiliary
    PROVE  Inside(f, e)
<1>1. rows \in Nat /\ MigrationPages \in Nat /\ rows + MigrationPages <= 256
  BY MaintenanceAssumption, PaddingIs
<1>2. e.pages \in Nat /\ e.pages >= 256 /\ f.frames \in Nat /\ f.shm \in Nat
  BY PaddingIs DEF IsEnvelope, Sized
<1> QED
  BY <1>1, <1>2, PaddingIs DEF Inside

LEMMA UpgradeReadsSize ==
    ASSUME IInv, SizeInv, UpgradeStarts \/ UpgradeReadsSource \/ UpgradeCopies \/ UpgradeEnds
    PROVE  SizeInv'
<1>1. FileInv /\ DOMAIN op = OpFields /\ UNCHANGED initializing
  BY IdleFacts, Zenon DEF IInv, StepInv, UpgradeStarts, UpgradeReadsSource, UpgradeCopies, UpgradeEnds
<1>2. CASE Fail
  BY <1>1, <1>2, FailSize, Zenon
<1>3. CASE ~ Fail
  <2>1. /\ job' = job
        /\ \/ UNCHANGED storage
              /\ \/ op' = [op EXCEPT !.pc = "source", !.declared = Schema] \/ GoTo("done")
                 \/ op' = [op EXCEPT !.pc = "copy", !.digest = LogicalDigest(Visible("live"))]
           \/ CopyLive /\ op' = [op EXCEPT !.pc = "finalize", !.digest = LogicalDigest(Visible("live"))]
    BY <1>3, Zenon DEF UpgradeStarts, UpgradeReadsSource, UpgradeCopies, UpgradeEnds
  <2>2. \/ UNCHANGED storage /\ op'.pc \in {"source", "done", "copy"}
        \/ CopyLive /\ op'.pc = "finalize"
    BY <1>1, <2>1, Zenon DEF GoTo, OpFields
  <2> QED
    BY <1>1, <2>1, <2>2, StorageSize, CopyLiveSize, Zenon DEF Prepared
<1> QED
  BY <1>2, <1>3, Zenon

LEMMA FinalizeSize ==
    ASSUME IInv, SizeInv, FinalizeUpgradeBackup
    PROVE  SizeInv'
<1>1. FileInv /\ DOMAIN op = OpFields /\ UNCHANGED initializing
  BY IdleFacts, ZenonT(60) DEF IInv, StepInv, FinalizeUpgradeBackup
<1>2. files["copy"].db.pages \in Nat
  BY Zenon DEF SizeInv, UpgradeSize, FinalizeUpgradeBackup, Sized
<1>3. litter' \in Nat
  BY <1>2 DEF FinalizeUpgradeBackup, SizeInv, TypeInv
<1>4. op'.pc \in {"ready", "admit"}
  BY <1>1, ReadyFacts, GoToFacts, ZenonT(60) DEF FinalizeUpgradeBackup
<1> QED
  BY <1>1, <1>3, <1>4, CopySize, ZenonT(60) DEF FinalizeUpgradeBackup, Prepared

\* The envelope a migration is admitted under holds the store.
LEMMA AdmittedEnvelope ==
    ASSUME FileInv, SizeInv, job = "upgrade", NEW e, e = AdmitMaintenance(Observe("live")), e # Refused,
           BeginVerdict(e) = "ok"
    PROVE  /\ IsEnvelope(e) /\ Inside(files["live"], e)
           /\ Log.envelope # NoEnvelope => e = Log.envelope
<1>1. CASE Log.schema >= 14
  <2>1. e = Log.envelope /\ e # NoEnvelope
    BY <1>1, ZenonT(60) DEF AdmitMaintenance, Schema, Envelope, Visible, Log, NoEnvelope
  <2> QED
    BY <2>1, ZenonT(60) DEF SizeInv, Holds, Log
<1>2. CASE ~ (Log.schema >= 14)
  <2>1. Log.envelope = NoEnvelope
    BY <1>2 DEF SizeInv, UpgradeSize, FileInv, Versions, Current
  <2>2. TypeInv /\ Configured(config) /\ IsObservation(Observe("live")) /\ Sized(files["live"])
        /\ Log.pages \in Nat /\ Observe("live").total \in Int
    BY ObserveFacts, ZenonT(60) DEF SizeInv, TypeInv, Sized, Log, Paths, IsObservation
  <2>3. PICK policy : IsPolicy(policy) /\ e = Derive(policy, Observe("live"), Page, Log.pages)
    <3>1. IsPolicy(ResolvePolicy(config.ceiling, config.reserve, config.auxiliary, Observe("live")))
      BY <2>2, ConfiguredPolicy, Zenon
    <3>2. IsPolicy(ResolvePolicy(Absent, Absent, Absent, Observe("live")))
      BY <2>2, ResolveFacts, PaddingIs
    <3>3. ~ (Schema >= 14) /\ Visible("live").pages = Log.pages
      BY <1>2, Zenon DEF Schema, Visible, Log
    <3> QED
      BY <3>1, <3>2, <3>3, Zenon DEF AdmitMaintenance
  <2>4. IsEnvelope(e) /\ Log.pages <= e.pages
    BY <2>2, <2>3, DeriveIsEnvelope
  <2>5. Preflight(e, Observe("live"), Members(files["live"])) = "ok"
    BY Zenon DEF BeginVerdict
  <2>6. /\ files["live"].db.pages <= e.pages
        /\ files["live"].auxiliary <= FixedAllowance + e.policy.auxiliary
    BY <2>2, <2>4, <2>5, PreflightInside, Zenon DEF Paths
  <2>7. Inside(files["live"], e)
    BY <2>2, <2>4, <2>6, ShortLog, Zenon DEF SizeInv, UpgradeSize, Log
  <2> QED
    BY <2>1, <2>4, <2>7, Zenon
<1> QED
  BY <1>1, <1>2, Zenon

LEMMA UpgradeAdmitsSize ==
    ASSUME IInv, SizeInv, UpgradeAdmits
    PROVE  SizeInv'
<1>1. FileInv /\ DOMAIN op = OpFields /\ UNCHANGED initializing /\ job = "upgrade"
  BY IdleFacts, Zenon DEF IInv, StepInv, UpgradeAdmits
<1>2. CASE Fail
  BY <1>1, <1>2, FailSize, Zenon
<1>3. CASE ~ Fail
  <2>1. PICK e : /\ e = AdmitMaintenance(Observe("live")) /\ e # Refused /\ BeginVerdict(e) = "ok"
                 /\ BeginWrite("operator") /\ job' = job
                 /\ op' = [op EXCEPT !.pc = "truncate", !.envelope = e]
    BY <1>3, Zenon DEF UpgradeAdmits
  <2>2. op'.pc = "truncate" /\ op'.envelope = e
    BY <1>1, <2>1, Zenon DEF OpFields
  <2>3. IsEnvelope(e) /\ Inside(files["live"], e) /\ (Log.envelope # NoEnvelope => e = Log.envelope)
    BY <1>1, <2>1, AdmittedEnvelope, Zenon
  <2>4. UpgradeSize'
    BY <1>1, <2>1, <2>2, <2>3, BeginSize, Zenon DEF UpgradeSize, SizeInv
  <2> QED
    BY <1>1, <2>1, <2>4, BeginSize, KeptReserve, LiveSize, ZenonT(60)
<1> QED
  BY <1>2, <1>3, Zenon

LEMMA LiveSized ==
    ASSUME SizeInv
    PROVE  /\ Sized(files["live"]) /\ IsContent(Log) /\ Log.pages \in Nat
           /\ files["live"].frames \in Nat /\ files["live"].shm \in Nat /\ files["live"].auxiliary \in Nat
BY Zenon DEF SizeInv, TypeInv, Sized, Log

LEMMA UpgradeRows ==
    ASSUME UpgradeSize
    PROVE  /\ Log.rows \in Nat /\ Log.rows >= 1 /\ Log.rows \in 1..MaxRows /\ MaxRows \in Nat
           /\ MigrationPages \in Nat /\ files["live"].frames <= Log.rows + 1 + MigrationPages
           /\ files["live"].shm <= Log.rows + 1 + MigrationPages
<1>1. /\ Log.rows \in 1..MaxRows /\ files["live"].frames <= Log.rows + 1 + MigrationPages
      /\ files["live"].shm <= Log.rows + 1 + MigrationPages
  BY Zenon DEF UpgradeSize
<1>2. MaxRows \in Nat \ {0} /\ MigrationPages \in Nat
  BY MaintenanceAssumption, Zenon
<1> QED
  BY <1>1, <1>2

LEMMA UpgradeTruncatesSize ==
    ASSUME IInv, SizeInv, UpgradeTruncates, job = "upgrade"
    PROVE  SizeInv'
<1>1. FileInv /\ DOMAIN op = OpFields /\ op.pc = "truncate" /\ job' = job
      /\ TruncateLog("operator", op.envelope)
  BY Zenon DEF IInv, StepInv, UpgradeTruncates
<1>2. /\ UpgradeSize /\ IsEnvelope(op.envelope) /\ Inside(files["live"], op.envelope)
      /\ Log.envelope # NoEnvelope => op.envelope = Log.envelope
  BY <1>1, ZenonT(60) DEF SizeInv, UpgradeSize
<1>3. CASE txn' = NoTxn
  <2>1. op' = Ready /\ op'.pc = "ready"
    BY <1>3, ReadyFacts, Zenon DEF UpgradeTruncates
  <2>2. promise' = promise
    BY <1>1, <1>2, <1>3, TruncateSize, ZenonT(60) DEF NoTxn
  <2>3. UpgradeSize'
    <3>1. /\ Log' = Log /\ files'["live"].frames = 0 /\ files'["live"].shm = files["live"].shm
      BY <1>1, <1>2, TruncateSize, ZenonT(60)
    <3>2. Log.rows \in Nat /\ MigrationPages \in Nat
      BY <1>2, UpgradeRows, Zenon
    <3> QED
      BY <1>2, <2>1, <3>1, <3>2 DEF UpgradeSize
  <2> QED
    BY <1>1, <1>2, <2>2, <2>3, TruncateSize, KeptReserve, LiveSize, ZenonT(60)
<1>4. CASE txn' # NoTxn
  <2>1. op'.pc = "migrate" /\ op'.envelope = op.envelope
    BY <1>1, <1>4, GoToFacts, Zenon DEF UpgradeTruncates
  <2>2. Devices["a"] - promise' - op.envelope.aggregate >= op.envelope.policy.reserve
    BY <1>1, <1>2, <1>4, TruncateSize, Zenon
  <2>3. UpgradeSize'
    <3>1. /\ Log' = Log /\ files'["live"].frames = 0 /\ files'["live"].shm = files["live"].shm
          /\ Inside(files'["live"], op.envelope)
      BY <1>1, <1>2, TruncateSize, ZenonT(60)
    <3>2. Log.rows \in Nat /\ MigrationPages \in Nat
      BY <1>2, UpgradeRows, Zenon
    <3> QED
      BY <1>2, <2>1, <2>2, <3>1, <3>2 DEF UpgradeSize, Reserved
  <2>4. Log'.envelope # NoEnvelope => Reserved(Log.envelope)'
    BY <1>1, <1>2, <2>2, TruncateSize, Zenon DEF Reserved
  <2> QED
    BY <1>1, <1>2, <2>3, <2>4, TruncateSize, LiveSize, ZenonT(60)
<1> QED
  BY <1>3, <1>4, Zenon

LEMMA UpgradeMigratesSize ==
    ASSUME IInv, SizeInv, UpgradeMigrates
    PROVE  SizeInv'
<1>1. FileInv /\ DOMAIN op = OpFields /\ UNCHANGED initializing /\ job = "upgrade" /\ op.pc = "migrate"
  BY Zenon DEF IInv, StepInv, UpgradeMigrates
<1>2. CASE Fail
  BY <1>1, <1>2, FailSize, ZenonT(60)
<1>3. CASE ~ Fail
  <2> DEFINE t == Migrated(Log, op.envelope, op.digest)
             m == Grown(t, Growth)
  <2>1. /\ Commit(m, 1 + Growth) /\ job' = job /\ Log.pages + Growth <= op.envelope.pages
        /\ GoTo(IF Schema \in {14, Current} THEN "certify" ELSE "source")
    BY <1>3, Zenon DEF UpgradeMigrates, Log, Visible
  <2>2. op'.pc \in {"certify", "source"}
    BY <1>1, <2>1, GoToFacts, ZenonT(60)
  <2>3. /\ IsContent(m) /\ m.rows = Log.rows /\ m.pages = Log.pages + Growth
        /\ m.envelope \in {Log.envelope, op.envelope}
        /\ m.schema < 14 => Log.schema < 14 /\ m.envelope = Log.envelope
    <3>1. /\ IsContent(t) /\ t.schema \in Versions /\ t.carried = Log.carried
          /\ t.receipts = Append(Log.receipts, [from |-> Log.schema, to |-> t.schema, backup |-> op.digest])
          /\ Log.schema < t.schema => Log.schema < Current
          /\ t.rows = Log.rows /\ t.pages = Log.pages /\ t.envelope \in {Log.envelope, op.envelope}
          /\ t.schema < 14 => Log.schema < 14 /\ t.envelope = Log.envelope
      BY <1>1, MigratedFacts DEF FileInv
    <3> HIDE DEF t
    <3>2. /\ IsContent(m) /\ m.rows = t.rows /\ m.pages = t.pages + Growth /\ m.envelope = t.envelope
          /\ m.schema = t.schema
      BY <3>1, Zenon DEF Grown, IsContent, ContentFields
    <3> HIDE DEF m
    <3> QED
      BY <3>1, <3>2, Zenon
  <2> HIDE DEF t, m
  <2>g. MigrationPages \in Nat /\ Growth \in Nat /\ Growth <= MigrationPages
    BY MaintenanceAssumption DEF Growth
  <2>4. /\ UpgradeSize /\ IsEnvelope(op.envelope) /\ Inside(files["live"], op.envelope)
        /\ Log.envelope # NoEnvelope => op.envelope = Log.envelope
        /\ files["live"].frames <= Log.rows /\ Reserved(op.envelope)
    BY <1>1, Zenon DEF SizeInv, UpgradeSize
  <2>5. m.pages \in Nat /\ Log.rows \in 1..MaxRows /\ Sized(files["live"]) /\ promise \in Int
        /\ files["live"].frames \in Nat /\ files["live"].shm \in Nat /\ Log.rows \in Nat
        /\ files["live"].shm <= Log.rows + 1 + MigrationPages
    <3>1. Log.pages \in Nat
      BY LiveSized, Zenon
    <3>2. m.pages \in Nat
      BY <2>3, <2>g, <3>1
    <3> QED
      BY <2>4, <3>2, LiveSized, UpgradeRows, ZenonT(60) DEF SizeInv, TypeInv, Log
  <2>6. /\ LiveOnly /\ Log' = m /\ Sized(files'["live"]) /\ files'["live"].db = files["live"].db
        /\ files'["live"].frames = files["live"].frames + (1 + Growth)
        /\ files'["live"].auxiliary = files["live"].auxiliary
        /\ files'["live"].shm = IF files["live"].shm < files["live"].frames + (1 + Growth)
                                THEN files["live"].frames + (1 + Growth) ELSE files["live"].shm
        /\ promise' = promise
    <3>1. 1 + Growth \in Nat
      BY <2>g
    <3> QED
      BY <1>1, <2>1, <2>3, <2>5, <3>1, CommitSize, Zenon
  <2>7. /\ files'["live"].frames <= m.rows + 1 + MigrationPages
        /\ files'["live"].shm <= m.rows + 1 + MigrationPages
    <3>1. /\ m.rows = Log.rows /\ Log.rows \in Nat
          /\ files["live"].frames \in Nat /\ files["live"].frames <= Log.rows
          /\ files["live"].shm \in Nat /\ files["live"].shm <= Log.rows + 1 + MigrationPages
          /\ files'["live"].frames = files["live"].frames + (1 + Growth)
          /\ files'["live"].shm = IF files["live"].shm < files["live"].frames + (1 + Growth)
                                  THEN files["live"].frames + (1 + Growth) ELSE files["live"].shm
      BY <2>3, <2>4, <2>5, <2>6, ZenonT(60)
    <3> QED
      BY <2>g, <3>1
  <2>8. UpgradeSize'
    BY <2>2, <2>3, <2>4, <2>5, <2>6, <2>7, ZenonT(60) DEF UpgradeSize
  <2>9. Inside(files'["live"], op.envelope)
    BY <2>1, <2>3, <2>4, <2>5, <2>6, <2>7, ShortLog, ZenonT(60) DEF Inside, Log
  <2>10. m.envelope = NoEnvelope \/ m.envelope = op.envelope
    BY <2>3, <2>4, Zenon
  <2>11. Holds(files'["live"]) /\ (Log'.envelope # NoEnvelope => Reserved(Log.envelope)')
    BY <2>4, <2>6, <2>9, <2>10, ZenonT(60) DEF Holds, Log, Reserved
  <2> QED
    BY <1>1, <2>1, <2>5, <2>6, <2>8, <2>11, LiveSize, ZenonT(60)
<1> QED
  BY <1>2, <1>3, Zenon

LEMMA WatermarkFits ==
    ASSUME NEW e, IsEnvelope(e), NEW o, o.auxiliary \in Nat, NEW m,
           PreflightWatermark(e, o, m, WatermarkBytes) = "ok"
    PROVE  o.auxiliary + WatermarkBytes <= FixedAllowance + e.policy.auxiliary
<1>1. ~ (o.auxiliary + CeilDiv(WatermarkBytes, 4096) * 4096 > FixedAllowance + e.policy.auxiliary)
  BY DEF PreflightWatermark
<1>2. WatermarkBytes \in Nat /\ e.policy.auxiliary \in Nat
  BY MaintenanceAssumption, ZenonT(60) DEF IsEnvelope, IsPolicy
<1>3. CeilDiv(WatermarkBytes, 4096) * 4096 \in Nat /\ CeilDiv(WatermarkBytes, 4096) * 4096 >= WatermarkBytes
  BY <1>2 DEF CeilDiv
<1> QED
  BY <1>1, <1>2, <1>3, PaddingIs

LEMMA CertifySize ==
    ASSUME IInv, SizeInv, RecordFullValidation
    PROVE  SizeInv'
<1>1. FileInv /\ DOMAIN op = OpFields /\ UNCHANGED initializing /\ job = "upgrade" /\ op.pc = "certify"
  BY IdleFacts, ZenonT(60) DEF IInv, StepInv, RecordFullValidation
<1>2. CASE Fail
  BY <1>1, <1>2, FailSize, Zenon
<1>3. CASE ~ Fail
  <2> DEFINE f == files["live"]
             g == [f EXCEPT !.auxiliary = @ + WatermarkBytes]
  <2>1. /\ OpenWritable("live") = "ok" /\ Put("live", g) /\ GoTo("rename") /\ job' = job
        /\ PreflightWatermark(Envelope, Observe("live"), Members(f), WatermarkBytes) = "ok"
        /\ UNCHANGED <<litter, elsewhere, config, promise>>
    BY <1>3, Zenon DEF RecordFullValidation
  <2>2. op'.pc = "rename"
    BY <1>1, <2>1, GoToFacts, ZenonT(60)
  <2>3. Log.envelope # NoEnvelope
    BY <2>1 DEF OpenWritable, Log
  <2>4. UpgradeSize /\ Sized(f) /\ IsEnvelope(Log.envelope) /\ Inside(f, Log.envelope)
    BY <1>1, <2>3, Zenon DEF SizeInv, TypeInv, Holds, Log
  <2>5. Observe("live").auxiliary = f.auxiliary /\ f.auxiliary \in Nat
    BY <2>4, FileIsPresent, Zenon DEF Observe, Present, Sized
  <2>6. f.auxiliary + WatermarkBytes <= FixedAllowance + Log.envelope.policy.auxiliary
    BY <2>1, <2>4, <2>5, WatermarkFits, Zenon DEF Envelope, Visible, Log
  <2>7. Sized(g) /\ g.log = f.log /\ g.db = f.db /\ g.frames = f.frames /\ g.shm = f.shm
        /\ g.auxiliary = f.auxiliary + WatermarkBytes
    BY <2>4, <2>5, MaintenanceAssumption DEF Sized, IsFile, FileFields
  <2>8. files'["live"] = g /\ LiveOnly /\ Log' = Log
    BY <1>1, <2>1, <2>7, ZenonT(60) DEF Put, FileInv, Paths, LiveOnly, Log
  <2> HIDE DEF g
  <2>9. UpgradeSize'
    BY <2>2, <2>4, <2>7, <2>8, Zenon DEF UpgradeSize
  <2>10. Inside(g, Log.envelope)
    BY <2>4, <2>6, <2>7, ShortLog, ZenonT(60) DEF UpgradeSize, Inside
  <2>11. Holds(files'["live"])
    BY <2>4, <2>7, <2>8, <2>10, ZenonT(60) DEF Holds, Log
  <2> QED
    BY <1>1, <2>1, <2>7, <2>8, <2>9, <2>11, KeptReserve, LiveSize, Zenon
<1> QED
  BY <1>2, <1>3, Zenon

LEMMA OldWriterSize ==
    ASSUME IInv, SizeInv, OldWriter
    PROVE  SizeInv'
<1> DEFINE f == files["live"]
           db == AddRow(Log)
           g == AppendFrames(f, db, 1)
<1>1. /\ FileInv /\ job = "upgrade" /\ UNCHANGED <<job, op, litter, elsewhere, config, promise>>
      /\ Log.rows < MaxRows /\ Put("live", g)
  BY Zenon DEF IInv, OldWriter, command, Log, Visible
<1>2. /\ UpgradeSize /\ Sized(f) /\ IsContent(Log) /\ Log.pages \in Nat /\ f.frames \in Nat
      /\ f.shm \in Nat /\ Log.rows \in Nat /\ Log.rows >= 1 /\ MaxRows \in Nat /\ f.log = Log
      /\ MigrationPages \in Nat
      /\ f.frames <= Log.rows + 1 + MigrationPages /\ f.shm <= Log.rows + 1 + MigrationPages
  <2>1. UpgradeSize
    BY <1>1, Zenon DEF SizeInv
  <2> QED
    BY <2>1, LiveSized, UpgradeRows, Zenon DEF Log
<1>3. /\ IsContent(db) /\ db.rows = Log.rows + 1 /\ db.pages = Log.pages /\ db.envelope = Log.envelope
      /\ db.schema = Log.schema
  BY <1>2, AddRowSizes, Zenon
<1>4. /\ Sized(g) /\ g.frames = f.frames + 1 /\ g.auxiliary = f.auxiliary
      /\ g.shm = (IF f.shm < f.frames + 1 THEN f.frames + 1 ELSE f.shm) /\ g.log = db /\ g.db = f.db
  <2>1. g = AppendFrames(f, db, 1) /\ db.pages \in Nat /\ 1 \in Nat
    BY <1>2, <1>3, ZenonT(60)
  <2> HIDE DEF f, db, g
  <2> QED
    BY <1>2, <1>3, <2>1, AppendOne
<1>5. files'["live"] = g /\ LiveOnly /\ Log' = db
  BY <1>1, <1>4, Zenon DEF Put, FileInv, Paths, LiveOnly, Log
<1> HIDE DEF f, db, g
<1>6. /\ db.rows \in 1..MaxRows /\ g.frames <= db.rows + 1 + MigrationPages
      /\ g.shm <= db.rows + 1 + MigrationPages
  BY <1>1, <1>2, <1>3, <1>4
<1>7. ASSUME NEW e, IsEnvelope(e), Inside(f, e) PROVE Inside(g, e)
  BY <1>2, <1>3, <1>4, <1>6, <1>7, ShortLog, ZenonT(60) DEF Inside
<1>8. Holds(files'["live"])
  BY <1>2, <1>3, <1>4, <1>5, <1>7, Zenon DEF SizeInv, Holds, f
<1>9. op.pc = "migrate" => g.frames <= db.rows
  BY <1>2, <1>3, <1>4 DEF UpgradeSize, f
<1>10. UpgradeSize'
  BY <1>1, <1>2, <1>3, <1>5, <1>6, <1>7, <1>9, ZenonT(60) DEF UpgradeSize, LiveOnly, Reserved, f
<1> QED
  BY <1>1, <1>3, <1>4, <1>5, <1>8, <1>10, KeptReserve, LiveSize, ZenonT(60)

-----------------------------------------------------------------------------
(* The archive and the service beside it.                                   *)

LEMMA ArchiveBegins ==
    ASSUME FileInv, SizeInv, job = "archive", job' = job, NEW who, BeginWrite(who)
    PROVE  SizeInv'
<1>1. ArchiveSize'
  BY BeginSize DEF SizeInv, ArchiveSize
<1> QED
  BY <1>1, BeginSize, KeptReserve, LiveSize, Zenon

LEMMA ArchiveTruncates ==
    ASSUME FileInv, SizeInv, job = "archive", job' = job, NEW who, TruncateLog(who, Envelope)
    PROVE  SizeInv'
<1>1. Envelope = Log.envelope /\ IsEnvelope(Envelope) /\ Inside(files["live"], Envelope) /\ ArchiveSize
  BY Zenon DEF SizeInv, ArchiveSize, Holds, Envelope, Visible, Log
<1>2. ArchiveSize'
  BY <1>1, TruncateSize, Zenon DEF ArchiveSize
<1>3. Log'.envelope # NoEnvelope /\ promise' # Absent => Reserved(Log.envelope)'
  BY <1>1, TruncateSize, KeptReserve, ZenonT(60) DEF Reserved
<1> QED
  BY <1>1, <1>2, <1>3, TruncateSize, LiveSize, ZenonT(60)

\* A transaction starts with an empty log, so that the largest one fits.
LEMMA ArchiveCommits ==
    ASSUME FileInv, SizeInv, job = "archive", job' = job, NEW who, txn = [by |-> who, at |-> "writing"],
           NEW db, IsContent(db), db.envelope = Log.envelope, db.pages \in Nat,
           db.pages <= Log.envelope.pages,
           NEW n \in Nat, n <= Log.envelope.pages + Padding, Commit(db, n)
    PROVE  SizeInv'
<1>1. /\ ArchiveSize /\ IsEnvelope(Log.envelope) /\ Inside(files["live"], Log.envelope)
      /\ files["live"].frames = 0 /\ files["live"].auxiliary = 0
  BY Zenon DEF SizeInv, ArchiveSize, Holds, Log
<1>2. Inside(files'["live"], Log.envelope)
  <2>1. Log.envelope.pages \in Nat /\ files["live"].shm \in Nat /\ files'["live"].log = db
    BY <1>1, CommitSize, ZenonT(60) DEF IsEnvelope, SizeInv, TypeInv, Sized, Log
  <2> QED
    BY <1>1, <2>1, CommitSize, PaddingIs DEF Inside
<1>3. Holds(files'["live"]) /\ ArchiveSize'
  BY <1>1, <1>2, CommitSize DEF Holds, ArchiveSize, Log, NoTxn
<1> QED
  BY <1>3, CommitSize, KeptReserve, LiveSize, ZenonT(60)

LEMMA ServiceSize ==
    ASSUME IInv, SizeInv, job = "archive", UNCHANGED <<job, op, initializing>>,
           \/ UNCHANGED storage \/ Rollback
           \/ \E who : BeginWrite(who) \/ TruncateLog(who, Envelope)
    PROVE  SizeInv'
<1>1. FileInv
  BY Zenon DEF IInv
<1>2. UNCHANGED storage \/ Rollback => SizeInv'
  BY QuietSize, Zenon DEF Rollback, storage
<1> QED
  BY <1>1, <1>2, ArchiveBegins, ArchiveTruncates, Zenon

LEMMA NqdSize ==
    ASSUME IInv, SizeInv, job = "archive", NqdBegin \/ NqdTruncate \/ NqdCommit
    PROVE  SizeInv'
<1>1. UNCHANGED <<job, op, initializing>>
  BY QuietFacts, ZenonT(60) DEF NqdBegin, NqdTruncate, NqdCommit
<1>2. CASE NqdBegin \/ NqdTruncate
  BY <1>1, <1>2, ServiceSize, ZenonT(60) DEF NqdBegin, NqdTruncate
<1>3. CASE NqdCommit
  <2>1. Rollback \/ (Commit(Log, 1) /\ txn = [by |-> "nqd", at |-> "writing"])
    BY <1>3, Zenon DEF NqdCommit, Log, Visible
  <2>2. /\ FileInv /\ IsContent(Log) /\ Log.pages \in Nat /\ Log.pages <= Log.envelope.pages
        /\ 1 <= Log.envelope.pages + Padding
    <3>1. /\ FileInv /\ IsContent(Log) /\ IsEnvelope(Log.envelope) /\ Inside(files["live"], Log.envelope)
          /\ Log.pages \in Nat
      BY Zenon DEF IInv, SizeInv, TypeInv, ArchiveSize, Holds, Sized, Log
    <3>2. Log.pages <= Log.envelope.pages
      BY <3>1, ZenonT(60) DEF Inside, Log
    <3>3. 1 <= Log.envelope.pages + Padding
      BY <3>1, EnvelopeNumbers, PaddingIs
    <3> QED
      BY <3>1, <3>2, <3>3, ZenonT(60)
  <2> QED
    BY <1>1, <2>1, <2>2, ServiceSize, ArchiveCommits, Zenon
<1> QED
  BY <1>2, <1>3, Zenon

LEMMA WorkerCommitsSize ==
    ASSUME IInv, SizeInv, job = "archive", NEW w \in Workers, WorkerCommits(w)
    PROVE  SizeInv'
<1>1. UNCHANGED <<job, op, initializing>>
  BY QuietFacts, ZenonT(60) DEF WorkerCommits, Steady
<1>2. PICK kind \in {"small", "largest", "expiry"} :
        \/ Rollback
        \/ \E db, n : /\ db = [AddRow(Log) EXCEPT !.pages = IF kind = "largest" THEN Log.envelope.pages ELSE @,
                                                  !.generation = IF kind = "expiry" THEN @ + 1 ELSE @]
                      /\ n = (IF kind = "largest" THEN Log.envelope.pages + Padding ELSE 1)
                      /\ Commit(db, n)
  BY Zenon DEF WorkerCommits, Log, Visible, Envelope, Padding
<1>3. CASE Rollback
  BY <1>1, <1>3, ServiceSize, Zenon
<1>4. ASSUME NEW db, NEW n, Commit(db, n),
             db = [AddRow(Log) EXCEPT !.pages = IF kind = "largest" THEN Log.envelope.pages ELSE @,
                                      !.generation = IF kind = "expiry" THEN @ + 1 ELSE @],
             n = (IF kind = "largest" THEN Log.envelope.pages + Padding ELSE 1)
      PROVE  SizeInv'
  <2>1. /\ FileInv /\ IsContent(Log) /\ IsEnvelope(Log.envelope) /\ Inside(files["live"], Log.envelope)
        /\ Log.pages \in Nat
    BY Zenon DEF IInv, SizeInv, TypeInv, ArchiveSize, Holds, Sized, Log
  <2>2. Log.envelope.pages \in Nat /\ Log.pages <= Log.envelope.pages
    BY <2>1, Zenon DEF IsEnvelope, Inside, Log
  <2>3. IsContent(AddRow(Log)) /\ AddRow(Log).pages = Log.pages /\ AddRow(Log).envelope = Log.envelope
    BY <2>1, AddRowSizes, ZenonT(60)
  <2>4. /\ IsContent(db) /\ db.envelope = Log.envelope
        /\ db.pages = IF kind = "largest" THEN Log.envelope.pages ELSE Log.pages
    BY <1>4, <2>3, ZenonT(60) DEF IsContent, ContentFields
  <2>5. n \in Nat /\ n <= Log.envelope.pages + Padding /\ db.pages \in Nat /\ db.pages <= Log.envelope.pages
    BY <1>4, <2>1, <2>2, <2>4, PaddingIs
  <2>6. txn = [by |-> w, at |-> "writing"]
    BY ZenonT(60) DEF WorkerCommits
  <2> QED
    BY <1>1, <1>4, <2>1, <2>4, <2>5, <2>6, ArchiveCommits, ZenonT(60)
<1> QED
  BY <1>2, <1>3, <1>4, Zenon

LEMMA DaemonSize ==
    ASSUME IInv, SizeInv, job = "archive", DaemonStep
    PROVE  SizeInv'
<1>1. CASE DaemonStart \/ Terminate \/ StopOpens \/ ProcessEnds \/ ServiceFails
  <2>1. UNCHANGED <<storage, job, op, initializing>>
    BY <1>1, QuietFacts, ZenonT(60) DEF DaemonStart, Terminate, StopOpens, ProcessEnds, ServiceFails, ledger
  <2> QED
    BY <2>1, ServiceSize, Zenon
<1>2. CASE DaemonKilled
  BY <1>2, QuietSize, Zenon DEF DaemonKilled, ledger
<1>3. CASE NqdBegin \/ NqdTruncate \/ NqdCommit
  BY <1>3, NqdSize, Zenon
<1>4. ASSUME NEW w \in Workers, WorkerAsks(w) \/ WorkerStarts(w) \/ WorkerOpens(w) \/ AbortTask(w)
      PROVE  SizeInv'
  <2>1. UNCHANGED <<storage, job, op, initializing>>
    BY <1>4, QuietFacts, Zenon DEF WorkerAsks, WorkerStarts, WorkerOpens, AbortTask, Steady
  <2> QED
    BY <2>1, ServiceSize, ZenonT(60)
<1>5. ASSUME NEW w \in Workers, WorkerBegins(w) \/ WorkerTruncates(w)
      PROVE  SizeInv'
  <2>1. UNCHANGED <<job, op, initializing>>
    BY <1>5, QuietFacts, ZenonT(60) DEF WorkerBegins, WorkerTruncates, Steady
  <2>2. UNCHANGED storage \/ BeginWrite(w) \/ TruncateLog(w, Envelope)
    BY <1>5, Zenon DEF WorkerBegins, WorkerTruncates
  <2> QED
    BY <2>1, <2>2, ServiceSize, Zenon
<1> QED
  BY <1>1, <1>2, <1>3, <1>4, <1>5, WorkerCommitsSize, ZenonT(60) DEF DaemonStep

LEMMA ArchiveSizes ==
    ASSUME IInv, SizeInv, job = "archive", ArchiveStep
    PROVE  SizeInv'
<1>1. FileInv /\ DOMAIN op = OpFields /\ UNCHANGED initializing
  BY IdleFacts, ZenonT(60) DEF IInv, StepInv, ArchiveStep, ArchiveOpens, RetentionDeclaration, ArchiveCopies,
     PrepareArchiveCopy, ArchiveSeals, BackupOpens, BackupCopies
<1>2. CASE Fail
  BY <1>1, <1>2, FailSize, Zenon
<1>3. CASE ArchiveOpens \/ RetentionDeclaration \/ BackupOpens
  <2>1. UNCHANGED <<storage, job>> /\ op'.pc \in {"declare", "preserve", "archive", "backup"}
    BY <1>1, <1>3, ZenonT(60) DEF ArchiveOpens, RetentionDeclaration, BackupOpens, GoTo, OpFields
  <2> QED
    BY <1>1, <2>1, StorageSize, Zenon DEF Prepared
<1>4. CASE ArchiveCopies /\ ~ Fail
  <2>1. CopyLive /\ job' = job /\ op'.pc \in {"freeze", "seal"}
    BY <1>1, <1>4, Zenon DEF ArchiveCopies, GoTo, OpFields
  <2> QED
    BY <1>1, <2>1, CopyLiveSize, Zenon DEF Prepared
<1>5. CASE PrepareArchiveCopy /\ ~ Fail
  <2>1. /\ OpenWritable("copy") = "ok" /\ Put("copy", Checkpointed(files["copy"])) /\ GoTo("seal")
        /\ UNCHANGED <<litter, elsewhere, config, promise, txn, job>>
    BY <1>5, Zenon DEF PrepareArchiveCopy
  <2>2. Sized(Checkpointed(files["copy"]))
    BY <2>1, CheckpointedSizes DEF OpenWritable, Present, SizeInv, TypeInv
  <2>3. op'.pc = "seal" /\ litter' \in Nat
    BY <1>1, <2>1, GoToFacts, ZenonT(60) DEF SizeInv, TypeInv
  <2> QED
    BY <1>1, <2>1, <2>2, <2>3, CopySize, ZenonT(60) DEF Put, Prepared
<1>6. CASE ArchiveSeals /\ ~ Fail
  <2>1. /\ Put("copy", NoFile) /\ GoTo("done")
        /\ UNCHANGED <<litter, elsewhere, config, promise, txn, job>>
    BY <1>6, Zenon DEF ArchiveSeals
  <2>2. op'.pc = "done" /\ litter' \in Nat
    BY <1>1, <2>1, GoToFacts, ZenonT(60) DEF SizeInv, TypeInv
  <2> QED
    BY <1>1, <2>1, <2>2, CopySize, Zenon DEF Put, Prepared
<1>7. CASE BackupCopies /\ ~ Fail
  <2>1. /\ litter' = litter + Log.pages
        /\ UNCHANGED <<files, elsewhere, config, promise, txn, job>>
        /\ op' = [op EXCEPT !.pc = "done"] \/ op' = Ready
    BY <1>7, Zenon DEF BackupCopies, Visible, Log
  <2>2. op'.pc \in {"done", "ready"}
    BY <1>1, <2>1, ReadyFacts, Zenon DEF OpFields
  <2>3. litter' \in Nat /\ (files'["copy"] = NoFile \/ Sized(files'["copy"]))
    BY <2>1 DEF SizeInv, TypeInv, Sized, Log
  <2> QED
    BY <1>1, <2>1, <2>2, <2>3, AsideSize, Zenon DEF Prepared
<1> QED
  BY <1>2, <1>3, <1>4, <1>5, <1>6, <1>7, Zenon DEF ArchiveStep

-----------------------------------------------------------------------------
(* The carry of a declaration.                                              *)

LEMMA CarryReadsSize ==
    ASSUME IInv, SizeInv, job = "carry",
           CarryVerifies \/ InspectRollover \/ CarryReads \/ CarryRehashes \/ CarryAgain \/ ReplaceArchive
    PROVE  SizeInv'
<1>1. FileInv /\ DOMAIN op = OpFields /\ UNCHANGED initializing
  BY IdleFacts, Zenon DEF IInv, StepInv, CarryVerifies, InspectRollover, CarryReads, CarryRehashes, CarryAgain,
     ReplaceArchive, ledger
<1>2. CASE Fail
  BY <1>1, <1>2, FailSize, ZenonT(60)
<1>3. CASE ~ Fail
  <2>1. /\ UNCHANGED <<storage, job>>
        /\ op' = op \/ op' = Ready \/ GoTo("open") \/ op'.pc \in {"inspect", "read", "rehash"}
    BY <1>1, <1>3, Zenon DEF CarryVerifies, InspectRollover, CarryReads, CarryRehashes, CarryAgain,
       ReplaceArchive, command, OpFields
  <2>2. op' = op \/ op'.pc \in {"ready", "open", "inspect", "read", "rehash"}
    BY <1>1, <2>1, ReadyFacts, GoToFacts, ZenonT(60)
  <2> QED
    BY <1>1, <2>1, <2>2, StorageSize, Zenon DEF Prepared
<1> QED
  BY <1>2, <1>3, Zenon

\* The log of a successor stays small enough for any envelope.
LEMMA CarryLog ==
    ASSUME NEW f, Sized(f), NEW e, IsEnvelope(e), f.db.pages <= e.pages, f.log.pages <= e.pages,
           f.frames <= 2, f.shm <= 2, f.auxiliary = 0
    PROVE  Inside(f, e)
BY PaddingIs DEF Inside, IsEnvelope, IsPolicy, Sized

LEMMA CarryHolds ==
    ASSUME FileInv, SizeInv, job = "carry"
    PROVE  /\ CarrySize /\ Sized(files["live"]) /\ IsContent(Log) /\ Log.pages \in Nat
           /\ Envelope = Log.envelope /\ IsEnvelope(Log.envelope) /\ Inside(files["live"], Log.envelope)
BY Zenon DEF SizeInv, TypeInv, CarrySize, Holds, Sized, Envelope, Visible, Log

LEMMA CarryBeginsSize ==
    ASSUME IInv, SizeInv, job = "carry", CarryBegins \/ CarryTruncates
    PROVE  SizeInv'
<1>1. FileInv /\ DOMAIN op = OpFields /\ UNCHANGED initializing
  BY IdleFacts, ZenonT(60) DEF IInv, StepInv, CarryBegins, CarryTruncates
<1>2. CASE Fail
  BY <1>1, <1>2, FailSize, Zenon
<1>3. CASE CarryBegins /\ ~ Fail
  <2>1. BeginWrite("operator") /\ GoTo("trim") /\ job' = job
    BY <1>3, Zenon DEF CarryBegins
  <2>2. op'.pc = "trim"
    BY <1>1, <2>1, GoToFacts, Zenon
  <2>3. CarrySize'
    <3>1. txn' # [by |-> txn'.by, at |-> "writing"]
      BY <1>1, <2>1, BeginSize
    <3> QED
      BY <1>1, <2>1, <2>2, <3>1, BeginSize, CarryHolds, ZenonT(60) DEF CarrySize
  <2> QED
    BY <1>1, <2>1, <2>3, BeginSize, KeptReserve, LiveSize, ZenonT(60)
<1>4. CASE CarryTruncates
  <2>1. TruncateLog("operator", Log.envelope) /\ job' = job
    BY <1>4, ZenonT(60) DEF CarryTruncates, Envelope, Visible, Log
  <2>2. CarrySize'
    <3>1. /\ Log' = Log /\ files'["live"].frames = 0 /\ files'["live"].shm = files["live"].shm
          /\ files'["live"].auxiliary = files["live"].auxiliary
      BY <1>1, <2>1, TruncateSize, CarryHolds, Zenon
    <3> QED
      BY <1>1, <3>1, CarryHolds DEF CarrySize
  <2>3. Log'.envelope # NoEnvelope /\ promise' # Absent => Reserved(Log.envelope)'
    BY <1>1, <2>1, TruncateSize, CarryHolds, KeptReserve, Zenon DEF Reserved
  <2> QED
    BY <1>1, <2>1, <2>2, <2>3, TruncateSize, CarryHolds, LiveSize, Zenon
<1> QED
  BY <1>2, <1>3, <1>4, ZenonT(60)

LEMMA CarryCommitsSize ==
    ASSUME IInv, SizeInv, job = "carry", CarryCommits
    PROVE  SizeInv'
<1>1. FileInv /\ DOMAIN op = OpFields /\ UNCHANGED initializing /\ op.pc = "carry"
  BY IdleFacts, ZenonT(60) DEF IInv, StepInv, CarryCommits
<1>2. CASE Fail
  BY <1>1, <1>2, FailSize, ZenonT(60)
<1>3. CASE ~ Fail
  <2>1. PICK db : /\ db = CarryMaintenance(Log, op.permits, op.digest, op.declared)
                  /\ Rollback \/ Commit(db, 1)
                  /\ GoTo("done") /\ job' = job
    BY <1>3, Zenon DEF CarryCommits, Log, Visible
  <2>2. op'.pc = "done"
    BY <1>1, <2>1, GoToFacts, ZenonT(60)
  <2>3. CASE Rollback
    BY <1>1, <2>1, <2>2, <2>3, QuietSize, Zenon DEF Rollback, Prepared
  <2>4. CASE Commit(db, 1)
    <3>1. IsContent(db) /\ db.pages = Log.pages /\ db.envelope = Log.envelope
      BY <1>1, <2>1, CarryHolds, ZenonT(60) DEF CarryMaintenance, IsContent, ContentFields
    <3>2. /\ files["live"].frames \in Nat /\ files["live"].shm \in Nat /\ files["live"].frames <= 1
          /\ files["live"].shm <= 2
      BY <1>1, CarryHolds, Zenon DEF CarrySize, Sized
    <3>3. /\ LiveOnly /\ Log' = db /\ Sized(files'["live"]) /\ files'["live"].db = files["live"].db
          /\ files'["live"].frames <= 2 /\ files'["live"].shm <= 2
          /\ files'["live"].auxiliary = files["live"].auxiliary /\ promise' = promise
      BY <1>1, <2>4, <3>1, <3>2, CommitSize, CarryHolds
    <3>4. CarrySize'
      <4>1. txn' # [by |-> txn'.by, at |-> "writing"]
        BY <2>4 DEF Commit, NoTxn
      <4> QED
        BY <1>1, <2>2, <3>1, <3>3, <4>1, CarryHolds, ZenonT(60) DEF CarrySize
    <3>5. Inside(files'["live"], Log.envelope)
      BY <1>1, <3>1, <3>3, CarryLog, CarryHolds, Zenon DEF Inside, CarrySize, Log
    <3>6. Holds(files'["live"])
      BY <1>1, <3>1, <3>3, <3>5, CarryHolds, ZenonT(60) DEF Holds, Log
    <3> QED
      BY <2>1, <3>1, <3>3, <3>4, <3>6, KeptReserve, LiveSize, ZenonT(60)
  <2> QED
    BY <2>1, <2>3, <2>4, Zenon
<1> QED
  BY <1>2, <1>3, Zenon

LEMMA DeclareWritesSize ==
    ASSUME IInv, SizeInv, job = "carry", DeclareBegins \/ DeclareTruncates
    PROVE  SizeInv'
<1>1. FileInv /\ UNCHANGED <<job, op>>
  BY Zenon DEF IInv, DeclareBegins, DeclareTruncates, command
<1>2. CASE DeclareBegins
  <2>1. BeginWrite("declarer")
    BY <1>2, Zenon DEF DeclareBegins
  <2>2. txn' # [by |-> txn'.by, at |-> "writing"]
    BY <1>1, <2>1, BeginSize
  <2>3. CarrySize'
    BY <1>1, <2>1, <2>2, BeginSize, CarryHolds, ZenonT(60) DEF CarrySize
  <2> QED
    BY <1>1, <2>1, <2>3, BeginSize, KeptReserve, LiveSize, ZenonT(60)
<1>3. CASE DeclareTruncates
  <2>1. TruncateLog("declarer", Log.envelope)
    BY <1>3, ZenonT(60) DEF DeclareTruncates, Envelope, Visible, Log
  <2>2. CarrySize'
    <3>1. /\ Log' = Log /\ files'["live"].frames = 0 /\ files'["live"].shm = files["live"].shm
          /\ files'["live"].auxiliary = files["live"].auxiliary
      BY <1>1, <2>1, TruncateSize, CarryHolds, Zenon
    <3> QED
      BY <1>1, <3>1, CarryHolds DEF CarrySize
  <2>3. Log'.envelope # NoEnvelope /\ promise' # Absent => Reserved(Log.envelope)'
    BY <1>1, <2>1, TruncateSize, CarryHolds, KeptReserve, Zenon DEF Reserved
  <2> QED
    BY <1>1, <2>1, <2>2, <2>3, TruncateSize, CarryHolds, LiveSize, Zenon
<1> QED
  BY <1>2, <1>3, Zenon

LEMMA DeclareSize ==
    ASSUME IInv, SizeInv, job = "carry", DeclareMaintenance
    PROVE  SizeInv'
<1>1. FileInv /\ UNCHANGED <<job, op, initializing>> /\ txn = [by |-> "declarer", at |-> "writing"]
  BY Zenon DEF IInv, DeclareMaintenance, command, ledger
<1>2. CASE Rollback
  BY <1>1, <1>2, QuietSize, Zenon DEF Rollback
<1>3. CASE ~ Rollback
  <2>1. PICK declaration : Commit(Declared(Log, declaration), 1)
    BY <1>3, Zenon DEF DeclareMaintenance, Visible, Log
  <2> DEFINE db == Declared(Log, declaration)
  <2>2. IsContent(db) /\ db.pages = Log.pages /\ db.envelope = Log.envelope
    BY <1>1, CarryHolds, Zenon DEF Declared, IsContent, ContentFields
  <2> HIDE DEF db
  <2>3. Commit(db, 1)
    BY <2>1, Zenon DEF db
  <2>4. files["live"].frames = 0 /\ files["live"].shm \in Nat /\ files["live"].shm <= 2
    BY <1>1, CarryHolds DEF CarrySize, Sized
  <2>5. /\ LiveOnly /\ Log' = db /\ Sized(files'["live"]) /\ files'["live"].db = files["live"].db
        /\ files'["live"].frames = 1 /\ files'["live"].shm <= 2
        /\ files'["live"].auxiliary = files["live"].auxiliary /\ txn' = NoTxn /\ promise' = promise
    BY <1>1, <2>2, <2>3, <2>4, CommitSize, CarryHolds
  <2>6. CarrySize'
    <3>1. txn' # [by |-> txn'.by, at |-> "writing"]
      BY <2>5 DEF NoTxn
    <3> QED
      BY <1>1, <2>2, <2>5, <3>1, CarryHolds DEF CarrySize
  <2>7. Inside(files'["live"], Log.envelope)
    <3>1. files'["live"].frames <= 2
      BY <2>5
    <3> QED
      BY <1>1, <2>2, <2>5, <3>1, CarryLog, CarryHolds, Zenon DEF Inside, CarrySize, Log
  <2>8. Holds(files'["live"])
    BY <1>1, <2>2, <2>5, <2>7, CarryHolds, ZenonT(60) DEF Holds, Log
  <2> QED
    BY <1>1, <2>2, <2>5, <2>6, <2>8, KeptReserve, LiveSize, ZenonT(60)
<1> QED
  BY <1>2, <1>3, Zenon

-----------------------------------------------------------------------------
(* The restore, and a store initialized in its place.                       *)

\* The live store is the backup, which nobody writes.
LEMMA RestoreSizes ==
    ASSUME SizeInv, job = "restore", job' = job, files'["live"] = files["live"],
           \A p \in {"copy", "dest"} : files'[p] = NoFile \/ Sized(files'[p]),
           UNCHANGED <<litter, elsewhere, config, promise>>, RestoreSize'
    PROVE  SizeInv'
<1>1. TypeInv' /\ Log' = Log
  BY Zenon DEF SizeInv, TypeInv, Log
<1>2. promise' # Absent /\ Log'.envelope # NoEnvelope => Reserved(Log.envelope)'
  BY <1>1, Zenon DEF SizeInv, Reserved
<1> QED
  BY <1>1, <1>2, ZenonT(60) DEF SizeInv

LEMMA RestoreHas ==
    ASSUME SizeInv, job = "restore"
    PROVE  /\ TypeInv /\ RestoreSize /\ \A p \in {"copy", "dest"} : files[p] = NoFile \/ Sized(files[p])
           /\ IsEnvelope(Log.envelope) /\ Inside(files["live"], Log.envelope) /\ Sized(files["live"])
BY ZenonT(60) DEF SizeInv, TypeInv, RestoreSize, Holds, Log

\* The copy changes, under the step that its sizes are established for.
LEMMA RestoreCopySize ==
    ASSUME FileInv, SizeInv, job = "restore", job' = job, NEW f, files' = [files EXCEPT !["copy"] = f],
           Sized(f), IsEnvelope(f.log.envelope), f.log.pages <= f.log.envelope.pages,
           UNCHANGED <<litter, elsewhere, config, promise, initializing>>
    PROVE  SizeInv'
<1>1. files'["live"] = files["live"] /\ files'["copy"] = f /\ files'["dest"] = files["dest"] /\ Log' = Log
  BY Zenon DEF FileInv, Paths, Log
<1>2. RestoreSize'
  BY <1>1, RestoreHas, ZenonT(60) DEF RestoreSize
<1> QED
  BY <1>1, <1>2, RestoreHas, RestoreSizes, Zenon

LEMMA RestoreCopiesSize ==
    ASSUME IInv, SizeInv, job = "restore", RestoreOpens \/ RestoreCopies
    PROVE  SizeInv'
<1>1. FileInv /\ DOMAIN op = OpFields /\ UNCHANGED initializing
  BY IdleFacts, Zenon DEF IInv, StepInv, RestoreOpens, RestoreCopies
<1>2. CASE Fail
  BY <1>1, <1>2, FailSize, ZenonT(60)
<1>3. CASE RestoreOpens
  <2>1. UNCHANGED <<storage, job>> /\ op'.pc = "copy"
    BY <1>1, <1>3, GoToFacts, Zenon DEF RestoreOpens
  <2> QED
    BY <1>1, <2>1, StorageSize, ZenonT(60) DEF Prepared
<1>4. CASE RestoreCopies /\ ~ Fail
  <2>1. /\ files' = [files EXCEPT !["copy"] = NewFile(Log)] /\ job' = job
        /\ UNCHANGED <<litter, elsewhere, config, promise>>
    BY <1>4, Zenon DEF RestoreCopies, CopyLive, Visible, Log
  <2>2. IsContent(Log) /\ Log.pages \in Nat /\ IsEnvelope(Log.envelope) /\ Log.pages <= Log.envelope.pages
    BY RestoreHas, Zenon DEF Sized, Inside, Log
  <2>3. Sized(NewFile(Log)) /\ NewFile(Log).log = Log
    BY <2>2, NewFileSizes, ZenonT(60)
  <2> QED
    BY <1>1, <2>1, <2>2, <2>3, RestoreCopySize, ZenonT(60)
<1> QED
  BY <1>2, <1>3, <1>4, Zenon

LEMMA ReadmitSize ==
    ASSUME IInv, SizeInv, job = "restore", ReadmitRestoredCopy
    PROVE  SizeInv'
<1>1. FileInv /\ DOMAIN op = OpFields /\ UNCHANGED initializing /\ op.pc = "readmit"
  BY IdleFacts, Zenon DEF IInv, StepInv, ReadmitRestoredCopy
<1> DEFINE f == files["copy"]
<1>2. /\ Sized(f) /\ IsContent(f.log) /\ IsEnvelope(f.log.envelope) /\ f.log.pages <= f.log.envelope.pages
      /\ f.db = f.log /\ f.log.pages \in Nat
  <2>1. f.db = f.log
    BY <1>1, Zenon DEF IInv, RestoreInv, Restoring
  <2> QED
    BY <1>1, <2>1, RestoreHas, ZenonT(60) DEF RestoreSize, Sized
<1>3. CASE Fail
  BY <1>1, <1>3, FailSize, ZenonT(60)
<1>4. CASE GoTo("publish") /\ UNCHANGED <<storage, job>>
  <2>1. files' = files /\ UNCHANGED <<litter, elsewhere, config, promise>> /\ Log' = Log /\ job' = job
    BY <1>4, Zenon DEF storage, Log
  <2>2. RestoreSize'
    BY <1>1, <1>2, <2>1, RestoreHas, ZenonT(60) DEF RestoreSize
  <2> QED
    BY <2>1, <2>2, RestoreHas, RestoreSizes, ZenonT(60)
<1>5. ASSUME NEW e, e = Derive(PolicyForRestore(f.log.envelope.policy, Observe("copy")), Observe("copy"),
                               Page, f.db.pages),
             e # Refused, Put("copy", AppendFrames(f, [f.log EXCEPT !.envelope = e], 1)),
             UNCHANGED <<litter, elsewhere, config, promise, job>>
      PROVE  SizeInv'
  <2> DEFINE db == [f.log EXCEPT !.envelope = e]
             g == AppendFrames(f, db, 1)
  <2>1. IsObservation(Observe("copy")) /\ Observe("copy").total \in Int
    BY RestoreHas, ObserveFacts, ZenonT(60) DEF Paths, IsObservation
  <2>2. IsPolicy(PolicyForRestore(f.log.envelope.policy, Observe("copy")))
    BY <1>2, <2>1, RestorePolicy, ZenonT(60) DEF IsEnvelope
  <2>3. IsEnvelope(e) /\ f.log.pages <= e.pages
    BY <1>2, <1>5, <2>1, <2>2, DeriveIsEnvelope, ZenonT(60)
  <2>4. IsContent(db) /\ db.pages = f.log.pages /\ db.envelope = e
    BY <1>2, ZenonT(60) DEF IsContent, ContentFields
  <2>5. Sized(g) /\ g.log = db
    <3>1. g = AppendFrames(f, db, 1)
      BY Zenon
    <3> HIDE DEF f, db, g
    <3> QED
      BY <1>2, <2>4, <3>1, AppendOne
  <2>6. files' = [files EXCEPT !["copy"] = g]
    BY <1>5, Zenon DEF Put
  <2> HIDE DEF db, g
  <2> QED
    BY <1>1, <1>5, <2>3, <2>4, <2>5, <2>6, RestoreCopySize, ZenonT(60)
<1> QED
  BY <1>3, <1>4, <1>5, Zenon DEF ReadmitRestoredCopy

LEMMA RestoreFoldsSize ==
    ASSUME IInv, SizeInv, job = "restore", RestoreFolds
    PROVE  SizeInv'
<1>1. FileInv /\ DOMAIN op = OpFields /\ UNCHANGED initializing /\ op.pc = "fold"
  BY IdleFacts, Zenon DEF IInv, StepInv, RestoreFolds
<1>2. CASE Fail
  BY <1>1, <1>2, FailSize, ZenonT(60)
<1>3. CASE ~ Fail
  <2>1. /\ files' = [files EXCEPT !["copy"] = Checkpointed(files["copy"])] /\ job' = job
        /\ UNCHANGED <<litter, elsewhere, config, promise>>
    BY <1>3, Zenon DEF RestoreFolds, Put
  <2>2. /\ Sized(files["copy"]) /\ IsEnvelope(files["copy"].log.envelope)
        /\ files["copy"].log.pages <= files["copy"].log.envelope.pages
    BY <1>1, RestoreHas, Zenon DEF RestoreSize
  <2>3. Sized(Checkpointed(files["copy"])) /\ Checkpointed(files["copy"]).log = files["copy"].log
    BY <2>2, CheckpointedSizes, CheckpointedFacts, ZenonT(60) DEF Sized
  <2> QED
    BY <1>1, <2>1, <2>2, <2>3, RestoreCopySize, ZenonT(60)
<1> QED
  BY <1>2, <1>3, ZenonT(60)

\* A file group with an empty log is inside an envelope with room for its pages.
LEMMA EmptyLog ==
    ASSUME NEW f, Sized(f), NEW e, IsEnvelope(e), f.db.pages <= e.pages, f.log.pages <= e.pages,
           f.frames <= 1, f.shm <= 1, f.auxiliary = 0
    PROVE  Inside(f, e)
BY PaddingIs DEF Inside, IsEnvelope, IsPolicy, Sized

LEMMA RestorePublishesSize ==
    ASSUME IInv, SizeInv, job = "restore", RestorePublishes
    PROVE  SizeInv'
<1>1. FileInv /\ DOMAIN op = OpFields /\ UNCHANGED initializing /\ op.pc = "publish"
  BY IdleFacts, ZenonT(60) DEF IInv, StepInv, RestorePublishes
<1>2. CASE Fail
  BY <1>1, <1>2, FailSize, ZenonT(60)
<1>3. CASE ~ Fail
  <2> DEFINE f == files["copy"]
  <2>1. /\ ~ Present("dest") /\ files' = [files EXCEPT !["copy"] = NoFile, !["dest"] = LinkedFile]
        /\ GoTo("cleanup") /\ UNCHANGED <<litter, elsewhere, config, promise, job>>
    BY <1>3, Zenon DEF RestorePublishes
  <2>2. op'.pc = "cleanup"
    BY <1>1, <2>1, GoToFacts, ZenonT(60)
  <2>3. /\ Sized(f) /\ IsEnvelope(f.log.envelope) /\ f.log.pages <= f.log.envelope.pages
        /\ f.db = f.log /\ IsContent(f.log) /\ f.log.pages \in Nat
    <3>1. f.db = f.log
      BY <1>1, ZenonT(60) DEF IInv, RestoreInv, Restoring
    <3> QED
      BY <1>1, <3>1, RestoreHas, Zenon DEF RestoreSize, Sized
  <2>4. /\ Sized(LinkedFile) /\ LinkedFile.log = f.log /\ LinkedFile.db = f.log
        /\ LinkedFile.frames = 0 /\ LinkedFile.shm = 0 /\ LinkedFile.auxiliary = 0
    BY <2>3, SMTT(30) DEF LinkedFile, NewFile, Sized, IsFile, FileFields
  <2>5. Holds(LinkedFile)
    BY <2>3, <2>4, EmptyLog DEF Holds
  <2>6. /\ files'["live"] = files["live"] /\ files'["copy"] = NoFile /\ files'["dest"] = LinkedFile
        /\ Log' = Log
    BY <1>1, <2>1, Zenon DEF FileInv, Paths, Log
  <2>7. initializing = NoEnvelope
    BY <2>1, FileIsPresent, Zenon DEF IInv, RestoreInv, Restoring, Present
  <2>8. RestoreSize'
    BY <1>1, <2>2, <2>5, <2>6, <2>7, RestoreHas, Zenon DEF RestoreSize
  <2> QED
    BY <2>1, <2>4, <2>6, <2>8, RestoreSizes, Zenon
<1> QED
  BY <1>2, <1>3, Zenon

LEMMA RestoreEndsSize ==
    ASSUME IInv, SizeInv, job = "restore", RestoreEnds
    PROVE  SizeInv'
<1> DEFINE f == files["dest"]
           g == [f EXCEPT !.links = 1]
<1>1. /\ FileInv /\ DOMAIN op = OpFields /\ op.pc = "cleanup" /\ Put("dest", g) /\ GoTo("done")
      /\ UNCHANGED <<litter, elsewhere, config, promise, job, initializing>>
  BY IdleFacts, Zenon DEF IInv, StepInv, RestoreEnds
<1>2. Sized(f)
  BY <1>1, RestoreHas, FileIsPresent, ZenonT(60) DEF IInv, RestoreInv, Restoring
<1>3. /\ Sized(g) /\ g.db = f.db /\ g.log = f.log /\ g.frames = f.frames /\ g.shm = f.shm
      /\ g.auxiliary = f.auxiliary
  BY <1>2, Zenon DEF Sized, IsFile, FileFields
<1>4. files'["live"] = files["live"] /\ files'["copy"] = files["copy"] /\ files'["dest"] = g /\ Log' = Log
  BY <1>1, Zenon DEF Put, FileInv, Paths, Log
<1> HIDE DEF g
<1>5. f # NoFile
  BY <1>2, FileIsPresent, Zenon DEF Sized
<1>6. Holds(f) => Holds(g)
  BY <1>3, Zenon DEF Holds, Inside
<1>7. op'.pc = "done"
  BY <1>1, GoToFacts, Zenon
<1>8. RestoreSize'
  BY <1>1, <1>3, <1>4, <1>5, <1>6, <1>7, RestoreHas, ZenonT(60) DEF RestoreSize
<1> QED
  BY <1>1, <1>3, <1>4, <1>8, RestoreHas, RestoreSizes, ZenonT(60)

LEMMA ContentSizes ==
    ASSUME NEW schema, NEW envelope
    PROVE  /\ IsContent(Content(schema, envelope)) /\ Content(schema, envelope).pages = BasePages
           /\ Content(schema, envelope).envelope = envelope /\ BasePages \in Nat
BY MaintenanceAssumption, ZenonT(60) DEF Content, IsContent, ContentFields

LEMMA InitializeCreatesSize ==
    ASSUME IInv, SizeInv, job = "restore", InitializeCreates
    PROVE  SizeInv'
<1> DEFINE f == NewFile(Content(Current, NoEnvelope))
<1>1. /\ FileInv /\ Put("dest", f) /\ UNCHANGED <<litter, elsewhere, config, promise, job, op>>
  BY Zenon DEF IInv, InitializeCreates, command
<1>2. PICK e : /\ initializing' = e /\ e # Refused
               /\ e = Derive(ResolvePolicy(config.ceiling, config.reserve, config.auxiliary, Observe("dest")),
                             Observe("dest"), Page, 0)
  BY Zenon DEF InitializeCreates
<1>3. IsObservation(Observe("dest")) /\ Observe("dest").total \in Int /\ Configured(config)
  BY RestoreHas, ObserveFacts, Zenon DEF Paths, IsObservation, TypeInv
<1>4. IsEnvelope(e)
  BY <1>2, <1>3, ConfiguredPolicy, DeriveIsEnvelope, ZenonT(60)
<1>5. /\ Sized(f) /\ f.frames = 0 /\ f.shm = 0 /\ f.auxiliary = 0 /\ f.db = f.log
      /\ f.log.envelope = NoEnvelope
  <2>1. /\ IsContent(Content(Current, NoEnvelope)) /\ Content(Current, NoEnvelope).pages \in Nat
        /\ Content(Current, NoEnvelope).envelope = NoEnvelope
    BY ContentSizes, Zenon
  <2> QED
    BY <2>1, NewFileSizes, ZenonT(60)
<1> HIDE DEF f
<1>6. files'["live"] = files["live"] /\ files'["copy"] = files["copy"] /\ files'["dest"] = f /\ Log' = Log
  BY <1>1, ZenonT(60) DEF Put, FileInv, Paths, Log
<1>7. RestoreSize'
  BY <1>1, <1>2, <1>4, <1>5, <1>6, RestoreHas, ZenonT(60) DEF RestoreSize, Holds
<1> QED
  BY <1>1, <1>5, <1>6, <1>7, RestoreHas, RestoreSizes, Zenon

LEMMA InitializeAdmitsSize ==
    ASSUME IInv, SizeInv, job = "restore", InitializeAdmits
    PROVE  SizeInv'
<1> DEFINE f == files["dest"]
           db == [f.log EXCEPT !.envelope = initializing]
           g == AppendFrames(f, db, 1)
<1>1. /\ FileInv /\ UNCHANGED <<litter, elsewhere, config, promise, job, op>>
      /\ initializing # NoEnvelope /\ initializing' = NoEnvelope
  BY ZenonT(60) DEF IInv, InitializeAdmits, command
<1>2. /\ IsEnvelope(initializing) /\ Sized(f) /\ f.db.pages = f.log.pages
      /\ f.frames = 0 /\ f.shm = 0 /\ f.auxiliary = 0 /\ f.log.pages \in Nat /\ IsContent(f.log)
  BY <1>1, RestoreHas, Zenon DEF RestoreSize, Sized
<1>3. CASE UNCHANGED files
  <2>1. RestoreSize'
    BY <1>1, <1>3, RestoreHas, Zenon DEF RestoreSize, Log
  <2> QED
    BY <1>1, <1>3, <2>1, RestoreHas, RestoreSizes, ZenonT(60)
<1>4. CASE ~ UNCHANGED files
  <2>1. Put("dest", g) /\ Preflight(initializing, Observe("dest"), Members(f)) = "ok"
    BY <1>4, Zenon DEF InitializeAdmits
  <2>2. f.db.pages <= initializing.pages
    BY <1>2, <2>1, RestoreHas, PreflightInside, ZenonT(60) DEF Paths
  <2>3. IsContent(db) /\ db.pages = f.log.pages /\ db.envelope = initializing
    BY <1>2, Zenon DEF IsContent, ContentFields
  <2>4. /\ Sized(g) /\ g.frames = 1 /\ g.shm = 1 /\ g.auxiliary = 0 /\ g.log = db /\ g.db = f.db
    <3>1. /\ Sized(g) /\ g.frames = f.frames + 1 /\ g.auxiliary = f.auxiliary
          /\ g.shm = (IF f.shm < f.frames + 1 THEN f.frames + 1 ELSE f.shm) /\ g.log = db /\ g.db = f.db
      <4>1. g = AppendFrames(f, db, 1) /\ 1 \in Nat
        BY Zenon
      <4> HIDE DEF f, db, g
      <4> QED
        BY <1>2, <2>3, <4>1, AppendOne, SMTT(30)
    <3> HIDE DEF g
    <3> QED
      BY <1>2, <3>1, SMTT(30)
  <2>5. files'["live"] = files["live"] /\ files'["copy"] = files["copy"] /\ files'["dest"] = g /\ Log' = Log
    BY <1>1, <2>1, Zenon DEF Put, FileInv, Paths, Log
  <2> HIDE DEF g, db
  <2>6. Holds(g)
    <3>1. /\ g.db.pages <= initializing.pages /\ g.log.pages <= initializing.pages
          /\ g.log.envelope = initializing
      BY <1>2, <2>2, <2>3, <2>4, Zenon
    <3>2. Inside(g, initializing)
      BY <1>2, <2>4, <3>1, EmptyLog
    <3> QED
      BY <1>2, <3>1, <3>2, Zenon DEF Holds
  <2>7. RestoreSize'
    BY <1>1, <2>5, <2>6, RestoreHas, Zenon DEF RestoreSize
  <2> QED
    BY <1>1, <2>4, <2>5, <2>7, RestoreHas, RestoreSizes, ZenonT(60)
<1> QED
  BY <1>3, <1>4, ZenonT(60)

-----------------------------------------------------------------------------
(* The theorems about sizes.                                                *)

LEMMA InitSize == Init => SizeInv
<1> SUFFICES ASSUME Init PROVE SizeInv
  BY ZenonT(60)
<1>1. PICK d \in Deployments :
        /\ job = d.job /\ config = d.policy /\ elsewhere = d.elsewhere
        /\ files = [p \in Paths |-> IF p # "live" THEN NoFile
                    ELSE NewFile([Content(d.schema, IF d.schema < 14 THEN NoEnvelope
                                     ELSE InitialEnvelope(config)) EXCEPT !.rows = 1])]
  BY ZenonT(60) DEF Init
<1>2. /\ litter = 0 /\ promise = Absent /\ txn = NoTxn /\ op.pc = "ready" /\ initializing = NoEnvelope
  BY ReadyFacts, ZenonT(60) DEF Init
<1>3. /\ d.schema \in Versions /\ elsewhere \in DOMAIN Devices /\ Configured(config)
      /\ d.job = "upgrade" \/ ~ (d.schema < 14)
      /\ MaxRows \in Nat /\ MaxRows >= 1 /\ MigrationPages \in Nat /\ BasePages \in Nat
  BY <1>1, MaintenanceAssumption DEF Configured, Versions, MinPages, Current
<1> DEFINE e == IF d.schema < 14 THEN NoEnvelope ELSE InitialEnvelope(config)
           db == [Content(d.schema, e) EXCEPT !.rows = 1]
           f == NewFile(db)
<1>4. files["live"] = f /\ files["copy"] = NoFile /\ files["dest"] = NoFile
  BY <1>1, ZenonT(60) DEF Paths
<1>5. IsContent(db) /\ db.rows = 1 /\ db.pages = BasePages /\ db.envelope = e /\ db.schema = d.schema
  BY Zenon DEF Content, IsContent, ContentFields
<1>6. Sized(f) /\ f.frames = 0 /\ f.shm = 0 /\ f.auxiliary = 0 /\ f.log = db /\ f.db = db
  BY <1>3, <1>5, NewFileSizes, ZenonT(60)
<1>7. d.schema < 14 \/ (e # NoEnvelope /\ IsEnvelope(e) /\ BasePages <= e.pages)
  <2> SUFFICES ASSUME ~ (d.schema < 14)
               PROVE  e # NoEnvelope /\ IsEnvelope(e) /\ BasePages <= e.pages
    BY Zenon
  <2>1. InitialEnvelope(config) # Refused /\ BasePages <= InitialEnvelope(config).pages
    BY <1>1, <1>3, InitialAssumption DEF Versions, Current
  <2>2. PICK o : /\ IsObservation(o) /\ o.total \in Int
                 /\ InitialEnvelope(config)
                      = Derive(ResolvePolicy(config.ceiling, config.reserve, config.auxiliary, o), o, Page, 0)
    <3> DEFINE o == [device |-> "a", total |-> Devices["a"], available |-> Devices["a"],
                     inodes |-> MinInodes, limit |-> FileLimit, occupied |-> 0, auxiliary |-> 0]
    <3>1. IsObservation(o) /\ o.total \in Int
      BY StoreFileAssumption, PaddingIs DEF IsObservation
    <3>2. InitialEnvelope(config)
            = Derive(ResolvePolicy(config.ceiling, config.reserve, config.auxiliary, o), o, Page, 0)
      BY Zenon DEF InitialEnvelope
    <3> HIDE DEF o
    <3> QED
      BY <3>1, <3>2, ZenonT(60)
  <2>3. IsEnvelope(InitialEnvelope(config))
    BY <1>3, <2>1, <2>2, ConfiguredPolicy, DeriveIsEnvelope, ZenonT(60)
  <2> QED
    BY <2>1, <2>3, ZenonT(60) DEF NoEnvelope
<1> HIDE DEF f, db, e
<1>8. ASSUME ~ (d.schema < 14) PROVE IsEnvelope(e) /\ Inside(f, e)
  <2>1. IsEnvelope(e) /\ f.db.pages <= e.pages /\ f.log.pages <= e.pages
    BY <1>5, <1>6, <1>7, <1>8, Zenon
  <2> QED
    BY <1>6, <2>1, EmptyLog
<1>9. Holds(f)
  <2>1. d.schema < 14 => e = NoEnvelope
    BY ZenonT(60) DEF e
  <2> QED
    BY <1>5, <1>6, <1>8, <2>1, ZenonT(60) DEF Holds
<1>10. TypeInv
  <2>1. litter \in Nat /\ promise \in Int
    BY <1>2, PaddingIs
  <2> QED
    BY <1>3, <1>4, <1>6, <2>1, Zenon DEF TypeInv
<1>11. Log = db /\ (d.schema < 14 => e = NoEnvelope)
  BY <1>4, <1>6, ZenonT(60) DEF Log, e
<1>12. job = "upgrade" => UpgradeSize
  <2>1. /\ Log.rows = 1 /\ files["live"].frames = 0 /\ files["live"].shm = 0
        /\ Log.schema < 14 => Log.envelope = NoEnvelope
    BY <1>4, <1>5, <1>6, <1>11, Zenon
  <2> QED
    BY <1>2, <1>3, <2>1 DEF UpgradeSize
<1>13. job # "upgrade" => Log.envelope # NoEnvelope
  BY <1>1, <1>3, <1>5, <1>7, <1>11, Zenon
<1>14. job = "archive" => ArchiveSize
  BY <1>2, <1>4, <1>6, <1>13, ZenonT(60) DEF ArchiveSize, NoTxn
<1>15. job = "carry" => CarrySize
  <2>1. txn # [by |-> txn.by, at |-> "writing"]
    BY <1>2 DEF NoTxn
  <2> QED
    BY <1>2, <1>4, <1>6, <1>13, <2>1 DEF CarrySize
<1>16. job = "restore" => RestoreSize
  BY <1>2, <1>4, <1>13, ZenonT(60) DEF RestoreSize
<1> QED
  BY <1>2, <1>4, <1>9, <1>10, <1>12, <1>14, <1>15, <1>16, ZenonT(60) DEF SizeInv

LEMMA NextSize ==
    ASSUME IInv, SizeInv, [Next]_vars
    PROVE  SizeInv'
<1>0. FileInv
  BY ZenonT(60) DEF IInv
<1>1. CASE Crowd \/ Clear \/ Read \/ Tick \/ UNCHANGED vars
  <2>1. UNCHANGED <<files, elsewhere, litter, config, promise, job, initializing, txn, op>>
    BY <1>1, Zenon DEF Crowd, Clear, Read, Tick, vars, storage, command, ledger
  <2> QED
    BY <2>1, QuietSize, ZenonT(60)
<1>2. CASE OperatorKilled
  BY <1>0, <1>2, OperatorKilledSize, ZenonT(60)
<1>3. CASE job = "upgrade" /\ (OldWriter \/ UpgradeStep)
  BY <1>3, OldWriterSize, UpgradeReadsSize, FinalizeSize, UpgradeAdmitsSize, UpgradeTruncatesSize,
     UpgradeMigratesSize, CertifySize, ZenonT(60) DEF UpgradeStep
<1>4. CASE job = "archive" /\ (ArchiveStep \/ DaemonStep)
  BY <1>4, ArchiveSizes, DaemonSize, Zenon
<1>5. CASE job = "restore" /\ RestoreStep
  BY <1>5, RestoreCopiesSize, ReadmitSize, RestoreFoldsSize, RestorePublishesSize, RestoreEndsSize,
     InitializeCreatesSize, InitializeAdmitsSize, ZenonT(60) DEF RestoreStep
<1>6. CASE job = "carry" /\ CarryStep
  BY <1>6, CarryReadsSize, CarryBeginsSize, CarryCommitsSize, DeclareWritesSize, DeclareSize, Zenon DEF CarryStep
<1> QED
  BY <1>1, <1>2, <1>3, <1>4, <1>5, <1>6, ByJob, Zenon

\* Every file of a store lies within the envelope it carries or is about to
\* carry, at each step of a command, a writer and an old writer.
THEOREM Bounded == Spec => []SizeInv
<1>1. Init => SizeInv
  BY InitSize, ZenonT(60)
<1>2. IInv /\ SizeInv /\ [Next]_vars => SizeInv'
  BY NextSize, Zenon
<1> QED
  BY <1>1, <1>2, Inductive, PTL DEF Spec

\* A store with an envelope never outgrows it, in total or in any of its files,
\* for every policy, device and file limit, through folds, the largest
\* transaction the page ceiling admits, migrations, copies and killed commands.
THEOREM StoresStayWithinTheirEnvelope == Spec => []WithinEnvelope
<1>1. ASSUME IInv, SizeInv PROVE WithinEnvelope
  <2> SUFFICES ASSUME NEW p \in {"live", "dest"}, Present(p), Visible(p).envelope # NoEnvelope
               PROVE  /\ Occupied(files[p]) <= Visible(p).envelope.aggregate
                      /\ Members(files[p]).main <= Visible(p).envelope.main
                      /\ Members(files[p]).wal <= Visible(p).envelope.wal
                      /\ Members(files[p]).shm <= ShmAllowance(WalFrameCeiling(Visible(p).envelope))
    BY Zenon DEF WithinEnvelope
  <2>1. Sized(files[p]) /\ Holds(files[p])
    <3>1. CASE p = "live"
      BY <1>1, <3>1, ZenonT(60) DEF SizeInv, TypeInv
    <3>2. CASE p = "dest"
      <4>1. job = "restore"
        BY <1>1, <3>2, ZenonT(60) DEF IInv, OwnInv, Present
      <4> QED
        BY <1>1, <3>2, <4>1, ZenonT(60) DEF SizeInv, TypeInv, RestoreSize, Present
    <3> QED
      BY <3>1, <3>2, Zenon
  <2>2. IsEnvelope(Visible(p).envelope) /\ Inside(files[p], Visible(p).envelope)
    BY <2>1, ZenonT(60) DEF Holds, Visible
  <2>3. /\ Occupied(files[p]) < Visible(p).envelope.aggregate
        /\ Members(files[p]).main <= Visible(p).envelope.main
        /\ Members(files[p]).wal <= Visible(p).envelope.wal
        /\ Members(files[p]).shm <= ShmAllowance(WalFrameCeiling(Visible(p).envelope))
    BY <2>1, <2>2, InsideFacts, Zenon
  <2>4. Occupied(files[p]) \in Nat /\ Visible(p).envelope.aggregate \in Int
    <3>1. Occupied(files[p]) \in Nat
      BY <2>1, OccupiedFacts
    <3>2. Visible(p).envelope.aggregate \in Int
      BY <2>2, EnvelopeNumbers, SMTT(30)
    <3> QED
      BY <3>1, <3>2, ZenonT(60)
  <2>5. Occupied(files[p]) <= Visible(p).envelope.aggregate
    BY <2>3, <2>4
  <2> QED
    BY <2>3, <2>5, ZenonT(60)
<1> QED
  BY <1>1, Inductive, Bounded, PTL

\* An admitted write leaves the reserve of the policy to the rest of the
\* filesystem, whatever it grows to within its envelope.
THEOREM AdmissionsKeepTheReserve == Spec => []ReserveKept
<1>1. ASSUME SizeInv PROVE ReserveKept
  <2> SUFFICES ASSUME promise # Absent, Log.envelope # NoEnvelope
               PROVE  Devices["a"] - OccupiedAt("live") - promise >= Log.envelope.policy.reserve
    BY Zenon DEF ReserveKept, Envelope, Visible, Log
  <2>1. /\ TypeInv /\ IsEnvelope(Log.envelope) /\ Inside(files["live"], Log.envelope) /\ Sized(files["live"])
        /\ Reserved(Log.envelope) /\ promise \in Int
    BY <1>1, Zenon DEF SizeInv, TypeInv, Holds, Log
  <2>2. OccupiedAt("live") < Log.envelope.aggregate
    BY <2>1, InsideFacts, FileIsPresent, ZenonT(60) DEF OccupiedAt, Present, Sized
  <2>3. OccupiedAt("live") \in Int /\ Devices["a"] \in Int
    BY <2>1, ObserveFacts DEF Paths
  <2>4. Log.envelope.aggregate \in Int /\ Log.envelope.policy.reserve \in Int
    BY <2>1, EnvelopeNumbers
  <2>5. Devices["a"] - promise - Log.envelope.aggregate >= Log.envelope.policy.reserve /\ promise \in Int
    BY <2>1, Zenon DEF Reserved
  <2> QED
    BY <2>2, <2>3, <2>4, <2>5
<1> QED
  BY <1>1, Bounded, PTL

=============================================================================
