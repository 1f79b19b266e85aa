SPECIFICATION Spec
CONSTANTS
    c1 = c1
    c2 = c2
    k1 = k1
    k2 = k2
    m1 = m1
    Couriers <- MCCouriers
    Checkers <- MCCheckers
    Events = {1, 2, 3, 4}
    Routes = {"pager", "inbox"}
    Transport <- MCTransport
    Intents <- MCIntents
    References = {"ref"}
    Materials <- MCMaterials
    Targets = {1, 2}
    Evaluations = {1}
    NoMaterial = NoMaterial
    MaxClock = 9
    MaxLosses = 1
    Histories <- MCHistories
    MaxCommands = 2
SYMMETRY Symmetric
CHECK_DEADLOCK FALSE
INVARIANTS
    SentAtMostOnce
    RecordsAreHonest
    NewestIsShown
    EvaluatedOnce
    InspectionIsSound
