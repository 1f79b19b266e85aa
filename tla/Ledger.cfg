SPECIFICATION Spec
CONSTANTS
    Instances = {a, b}
    Catalog = {"host"}
    MaxFutureSkew = 1
    Reliance = 0
    DetectorsOf <- MCDetectorsOf
    Contexts = {"here", "there"}
    ProfileOf <- MCProfileOf
    Evaluators = {1, 2}
    LockErrors = {"Invariant"}
    ExecutionErrors = {"Binary"}
    Captures <- MCCaptures
    MaxOperations = 3
    MaxTime = 2
    MaxAdmissions = 2
INVARIANTS
    HistoryReopens FindingsAreCurrent SnapshotIsOneMoment
PROPERTY EveryExchangeIsRecorded
CHECK_DEADLOCK FALSE
CONSTRAINT UntilCaptured
SYMMETRY Symmetry
