------------------------------ MODULE StoreFile ------------------------------
(***************************************************************************)
(* The files of a store and the one way to write them.  A writer takes the   *)
(* store's operation guard, rechecks the envelope, folds the write-ahead log *)
(* into the main file and truncates it, rechecks again, and only then runs   *)
(* its transaction.  (It also compares the persisted envelope with the one   *)
(* it opened under; no step changes it under an open handle.)                *)
(*                                                                          *)
(* The content of a database is its schema version, the number of history    *)
(* rows committed, the retention generation, the rows given an explicit      *)
(* legacy gap, its upgrade receipts, maintenance declarations and lineage    *)
(* references, the envelope it carries and its pages.  A file group holds    *)
(* the content of the main file, the newer content its log adds to it, the   *)
(* frames of that log, the most frames its index has covered, the bytes of   *)
(* its other sidecars and the number of names of the main file.              *)
(*                                                                          *)
(* Source: crates/nq-store/src/lib.rs and capacity.rs.                       *)
(***************************************************************************)
EXTENDS Capacity, Sequences

CONSTANTS
    Devices,         \* device -> its total bytes
    PressureBytes,   \* what unrelated files take when they crowd the devices
    FileLimit        \* the soft per-file limit, or Absent

ASSUME StoreFileAssumption ==
    /\ "a" \in DOMAIN Devices /\ \A d \in DOMAIN Devices : Devices[d] \in Nat
    /\ PressureBytes \in Nat /\ FileLimit \in Nat \cup {Absent}

VARIABLES
    files,      \* path -> file group or NoFile
    elsewhere,  \* the device of copies, backups, archives and restored stores
    pressure,   \* unrelated use of the devices: "none", "bytes" or "inodes"
    reader,     \* a read transaction pins the log of the live store
    backups,    \* upgrade backups, by the digest that is their name
    litter,     \* pages of backups and of copies that interrupted commands left behind
    config,     \* the configured policy: [ceiling, reserve, auxiliary]
    txn,        \* the holder of the live store's guard: NoTxn or [by, at]
    promise     \* bytes others used when the newest write was admitted, or Absent

storage == <<files, elsewhere, pressure, reader, litter, backups, config, txn, promise>>

Page == 4096
Current == 15                 \* SCHEMA_VERSION
Paths == {"live", "copy", "dest"}
NoFile == [links |-> 0]
NoTxn == [by |-> "nobody"]
NoEnvelope == Refused

Present(p) == files[p] # NoFile
Where(p) == IF p = "live" THEN "a" ELSE elsewhere
Visible(p) == files[p].log

\* The digest of a store's logical state.
LogicalDigest(db) == <<db.schema, db.rows, db.generation, Len(db.receipts)>>

NewFile(db) ==
    [db |-> db, log |-> db, frames |-> 0, shm |-> 0, auxiliary |-> 0, links |-> 1]

-----------------------------------------------------------------------------
(* What the filesystem offers.                                              *)

Members(f) ==
    [main |-> f.db.pages * Page,
     wal |-> IF f.frames = 0 THEN 0 ELSE 32 + f.frames * FrameBytes(Page),
     shm |-> IF f.shm = 0 THEN 0 ELSE ShmAllowance(f.shm)]

Occupied(f) == LET m == Members(f) IN m.main + m.wal + m.shm + f.auxiliary

OccupiedAt(p) == IF Present(p) THEN Occupied(files[p]) ELSE 0

Used(device) ==
    (IF device = "a" THEN OccupiedAt("live") ELSE 0)
      + (IF device = elsewhere
         THEN OccupiedAt("copy") + OccupiedAt("dest") + litter * Page ELSE 0)
      + (IF pressure = "bytes" THEN PressureBytes ELSE 0)

Observe(p) ==
    [device |-> Where(p), total |-> Devices[Where(p)],
     available |-> FloorAtZero(Devices[Where(p)] - Used(Where(p))),
     inodes |-> IF pressure = "inodes" THEN MinInodes - 1 ELSE MinInodes,
     limit |-> FileLimit, occupied |-> OccupiedAt(p),
     auxiliary |-> IF Present(p) THEN files[p].auxiliary ELSE 0]

Others == Used("a") - OccupiedAt("live")

-----------------------------------------------------------------------------
(* Opening.                                                                 *)

MatchCapacityPolicy(e) ==
    ResolvePolicy(config.ceiling, config.reserve, config.auxiliary, e.observed) = e.policy

\* Store::open: an unaliased file, its guard free for the length of the open,
\* this schema, and an envelope that holds here and now.
OpenWritable(p) ==
    LET f == files[p] IN
    IF ~ Present(p) THEN "absent"
    ELSE IF Observe(p).inodes < MinInodes \/ Observe(p).available < 4096 THEN "refused"
    ELSE IF f.links # 1 THEN "fault"
    ELSE IF p = "live" /\ txn # NoTxn THEN "refused"
    ELSE IF ~ BootstrapPreflight(Observe(p), f.frames) THEN "refused"
    ELSE IF f.log.schema # Current \/ f.log.envelope = NoEnvelope THEN "fault"
    ELSE Preflight(f.log.envelope, Observe(p), Members(f))

OpenConfigured(p) ==
    IF OpenWritable(p) # "ok" THEN OpenWritable(p)
    ELSE IF MatchCapacityPolicy(files[p].log.envelope) THEN "ok" ELSE "fault"

\* Room for a copy on the device of copies, under the automatic policy.
AdmitBackupDestination(pages) ==
    \E o \in {Observe("copy")} :
    \E policy \in {ResolvePolicy(Absent, Absent, Absent, o)} :
    \E e \in {Derive(policy, o, Page, pages)} :
        IF e = Refused THEN FALSE
        ELSE Preflight(e, o, [main |-> 0, wal |-> 0, shm |-> 0]) = "ok"

-----------------------------------------------------------------------------
(* Writing the live store.                                                  *)

\* The main file takes the content of the log, which stays until truncated.
Fold(f) == [f EXCEPT !.db = f.log]
Truncate(f) == [f EXCEPT !.frames = 0]
Checkpointed(f) == Truncate(Fold(f))

\* The frames of one transaction and the index over them.
AppendFrames(f, db, frames) ==
    [f EXCEPT !.log = db, !.frames = @ + frames, !.shm = Larger(@, f.frames + frames)]

Put(p, f) == files' = [files EXCEPT ![p] = f]

\* May a handle opened under envelope e begin to write the live store?
BeginVerdict(e) ==
    LET f == files["live"] IN
    IF txn # NoTxn THEN "contention"
    ELSE IF Preflight(e, Observe("live"), Members(f)) # "ok"
         THEN Preflight(e, Observe("live"), Members(f))
    ELSE IF reader THEN "contention"
    ELSE IF Observe("live").available < (f.log.pages - f.db.pages) * Page THEN "refused"
    ELSE "ok"

BeginWrite(who) ==
    /\ Put("live", Fold(files["live"]))
    /\ txn' = [by |-> who, at |-> "folding"]
    /\ UNCHANGED <<elsewhere, pressure, reader, litter, backups, config, promise>>

\* The log is truncated and the envelope checked a second time.
TruncateLog(who, e) ==
    /\ txn = [by |-> who, at |-> "folding"]
    /\ Put("live", Checkpointed(files["live"]))
    /\ \E o \in {[Observe("live") EXCEPT !.occupied = Occupied(Checkpointed(files["live"])),
                       !.available = @ + OccupiedAt("live") - Occupied(Checkpointed(files["live"]))]} :
         IF Preflight(e, o, Members(Checkpointed(files["live"]))) = "ok"
         THEN txn' = [by |-> who, at |-> "writing"] /\ promise' = Others
         ELSE txn' = NoTxn /\ UNCHANGED promise
    /\ UNCHANGED <<elsewhere, pressure, reader, litter, backups, config>>

\* Frames that fit the device; SQLite rolls a transaction back otherwise.
Fits(f, frames) ==
    Occupied(AppendFrames(f, f.log, frames)) - Occupied(f) <= Observe("live").available

Commit(db, frames) ==
    /\ Put("live", AppendFrames(files["live"], db, frames))
    /\ txn' = NoTxn
    /\ UNCHANGED <<elsewhere, pressure, reader, litter, backups, config, promise>>

Rollback ==
    /\ txn' = NoTxn
    /\ UNCHANGED <<files, elsewhere, pressure, reader, litter, backups, config, promise>>
=============================================================================
