SPECIFICATION Spec
CONSTANTS
    p1 = p1
    p2 = p2
    i1 = i1
    w1 = w1
    w2 = w2
    r1 = r1
    r2 = r2
    r3 = r3
    Procs = {p1, p2}
    Ids = {i1}
    Watchers = {w1, w2}
    Runs = {r1, r2, r3}
    NoProc = NoProc
    None = None
    MaxFaults = 1
    MaxLosses = 1
SYMMETRY MCSymmetry
INVARIANTS
    InvocationsBounded
    DeliveriesAgree
    HistoryStillAllows
