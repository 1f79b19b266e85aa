\* One resident and one one-shot engine, two locks; no symmetry, for liveness.
SPECIFICATION FairSpec
CONSTANTS
    nqd = nqd
    nq = nq
    l1 = l1
    l2 = l2
    Procs = {nqd, nq}
    Resident = {nqd}
    Locks = {l1, l2}
    NoLock = NoLock
    NoProc = NoProc
    MaxEvents = 3
    MaxFaults = 2
INVARIANTS
    MaterializationAgrees
    RecoveryNeverStuck
    CollectionIsGenuine
PROPERTIES
    ImplementsAuthority
    PendingIsReplayed
    StaleHelperStops
