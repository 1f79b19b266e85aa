SPECIFICATION Spec
CONSTANTS
    Devices <- TwoDevices
    Deployments <- EveryJob
    Snapshots <- ThreeSnapshots
    FileLimit <- NoFileLimit
    PressureBytes = 629145600
    Workers = {"w1", "w2"}
    BasePages = 300
    WatermarkBytes = 4096
    MigrationPages = 3
    MaxRows = 2
    MaxReceipts = 8
    MaxFaults = 1
    MaxNow = 3
INVARIANTS
    OneStoreOperation
    WithinEnvelope
    ReserveKept
    RecordsAreAnchored
    RestoredIsWhole
PROPERTIES
    UpgradeCompletes
CHECK_DEADLOCK FALSE
