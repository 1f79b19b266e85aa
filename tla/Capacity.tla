------------------------------ MODULE Capacity ------------------------------
(***************************************************************************)
(* How many bytes a store may ever occupy, and when a write is admitted.     *)
(* The envelope is derived once from what the filesystem offers and is then  *)
(* persisted in the store; every write rechecks it against what the          *)
(* filesystem offers now.  Sizes are in bytes with the constants of the code.*)
(*                                                                          *)
(* An observation is [device, available, total, inodes, limit, occupied,     *)
(* auxiliary]; a file group is [main, wal, shm], the bytes of its members.   *)
(* The history horizon and the versions of the documents are left out.      *)
(*                                                                          *)
(* Source: crates/nq-store/src/capacity.rs.                                  *)
(***************************************************************************)
EXTENDS Integers

Absent == -1                        \* Option::None of a number of bytes
Refused == [verdict |-> "refused"]  \* a transient refusal, nothing was written
Fault == [verdict |-> "fault"]      \* an envelope that cannot be honoured at all

KiB == 1024
MiB == 1024 * KiB
FixedAllowance == 4 * MiB
MinPages == 256
MaxSectorBytes == 65536
ShmRegionBytes == 32768
ShmFramesPerRegion == 4096
ShmFirstRegionFrames == 4062
MinInodes == 8

Larger(a, b) == IF a < b THEN b ELSE a
Smaller(a, b) == IF a < b THEN a ELSE b
CeilDiv(a, b) == (a + b - 1) \div b
FloorAtZero(a) == Larger(a, 0)

\* An operator's choices with the defaults of the code: a reserve of at least
\* 1 GiB and a fifth of the filesystem, 64 MiB for sidecars.
ResolvePolicy(ceiling, reserve, auxiliary, o) ==
    [ceiling |-> ceiling,
     reserve |-> IF reserve = Absent THEN Larger(1024 * MiB, CeilDiv(o.total, 5)) ELSE reserve,
     automatic |-> reserve = Absent,
     auxiliary |-> IF auxiliary = Absent THEN 64 * MiB ELSE auxiliary]

PolicyForRestore(prior, o) ==
    ResolvePolicy(prior.ceiling, IF prior.automatic THEN Absent ELSE prior.reserve,
                  prior.auxiliary, o)

ShmAllowance(frames) ==
    LET indexed == frames + (ShmFramesPerRegion - ShmFirstRegionFrames)
    IN CeilDiv(indexed, ShmFramesPerRegion) * ShmRegionBytes

FrameBytes(page) == page + 24

\* A FULL commit may repeat its last frame up to the next sector boundary.
PaddingFrames(page) == CeilDiv(MaxSectorBytes - 1, FrameBytes(page))

WalFrameCeiling(e) == (e.wal - 32) \div FrameBytes(e.page)

\* Half of what is free above the reserve, or the operator's own ceiling.
Aggregate(policy, o) ==
    IF policy.ceiling # Absent THEN policy.ceiling
    ELSE o.occupied + (o.available - policy.reserve) \div 2

\* What the page count is not divided from: sidecars, the first SHM region and
\* the padding of one sector.
Overhead(policy, page) ==
    LET padding == PaddingFrames(page)
    IN FixedAllowance + policy.auxiliary + ShmRegionBytes
         + (ShmFramesPerRegion - ShmFirstRegionFrames) * 8
         + padding * FrameBytes(page) + padding * 8

LimitedPages(pages, limit, page) ==
    LET usable == limit - Larger(page, 4096)
        padding == PaddingFrames(page) * FrameBytes(page)
    IN IF limit = Absent THEN pages
       ELSE Smaller(pages, Smaller(usable \div page,
                                   FloorAtZero(usable - 32 - padding) \div FrameBytes(page)))

DeriveForMainOnly(policy, o, page, existing) ==
    LET aggregate == Aggregate(policy, o)
        usable == aggregate - Overhead(policy, page) - 32
        pages == LimitedPages(usable \div (page + 32), o.limit, page)
    IN IF o.available < policy.reserve \/ usable < 0 \/ pages < MinPages \/ existing > pages
       THEN Refused
       ELSE [verdict |-> "ok", policy |-> policy, observed |-> o, aggregate |-> aggregate,
             page |-> page, pages |-> pages, main |-> pages * page,
             wal |-> 32 + (pages + PaddingFrames(page)) * FrameBytes(page)]

\* As many pages as fit twice, once in the main file and once in the log of a
\* transaction that rewrites all of it.
DerivedPages(policy, o, page) ==
    LimitedPages((Aggregate(policy, o) - Overhead(policy, page) - 32) \div (2 * page + 32), o.limit, page)

EnvelopeOf(policy, o, page, pages) ==
    [verdict |-> "ok", policy |-> policy, observed |-> o, aggregate |-> Aggregate(policy, o),
     page |-> page, pages |-> pages, main |-> pages * page,
     wal |-> 32 + (pages + PaddingFrames(page)) * FrameBytes(page)]

Derive(policy, o, page, existing) ==
    LET e == EnvelopeOf(policy, o, page, DerivedPages(policy, o, page))
    IN IF \/ policy.automatic /\ policy.reserve # ResolvePolicy(policy.ceiling, Absent, policy.auxiliary, o).reserve
          \/ o.inodes < MinInodes
          \/ o.available < policy.reserve
          \/ e.aggregate > o.available + o.occupied - policy.reserve
          \/ e.aggregate - Overhead(policy, page) - 32 < 0
          \/ o.limit # Absent /\ o.limit < Larger(page, 4096)
          \/ e.pages < MinPages \/ existing > e.pages
          \/ e.main + e.wal + ShmAllowance(e.pages + PaddingFrames(page))
               + FixedAllowance + policy.auxiliary > e.aggregate
       THEN Refused
       ELSE e

PreflightIgnoringReserve(e, o, files) ==
    IF Derive(e.policy, e.observed, e.page, 0) # e \/ o.device # e.observed.device
    THEN "fault"
    ELSE IF o.inodes < MinInodes \/ e.aggregate < o.occupied \/ files.main > e.main
    THEN "refused" ELSE "ok"

\* Recheck a persisted envelope before an open or a write: "ok", "refused" for
\* now, or "fault" for an envelope of another filesystem or another derivation.
Preflight(e, o, files) ==
    IF Derive(e.policy, e.observed, e.page, 0) # e \/ o.device # e.observed.device
    THEN "fault"
    ELSE IF \/ o.auxiliary > FixedAllowance + e.policy.auxiliary
            \/ o.inodes < MinInodes
            \/ e.aggregate < o.occupied
            \/ o.available < e.policy.reserve + (e.aggregate - o.occupied)
            \/ /\ o.limit # Absent
               /\ o.limit < Larger(e.main, Larger(e.wal, ShmAllowance(WalFrameCeiling(e))))
                              + Larger(e.page, 4096)
            \/ files.main > e.main
            \/ files.wal > e.wal
            \/ files.shm > ShmAllowance(WalFrameCeiling(e))
         THEN "refused"
         ELSE "ok"

\* Before the envelope can even be read: room for the index of the log.
BootstrapPreflight(o, frames) ==
    LET shm == ShmAllowance(Larger(frames, 1))
    IN /\ o.inodes >= MinInodes
       /\ o.limit = Absent \/ o.limit >= shm + 4096
       /\ o.available >= shm + FixedAllowance

\* A replaced watermark exists beside its successor for a moment.
PreflightWatermark(e, o, files, bytes) ==
    LET allocation == CeilDiv(bytes, 4096) * 4096
    IN IF Preflight(e, o, files) # "ok" THEN Preflight(e, o, files)
       ELSE IF \/ o.limit # Absent /\ bytes > FloorAtZero(o.limit - 4096)
               \/ o.auxiliary + allocation > FixedAllowance + e.policy.auxiliary
               \/ o.occupied + allocation > e.aggregate
               \/ o.available < e.policy.reserve + allocation
            THEN "refused"
            ELSE "ok"
=============================================================================
