SPECIFICATION Spec
CONSTANTS
    null = null
    Hard <- MCHard
    MinResponse = 1
    EchoSize = 2
    MaxSafeCounter = 20
    MaxAverage = 100
    Fold <- MCFold
    Reliance <- MCReliance
    Threshold <- MCThreshold
    MinimumBootAge = 3
    HelperSkew = 0
    ReportMargin = 1
    MinPayload = 1
    MinBetaResponse = 3
    MaxCollectionErrors = 4
    FilesystemUuid <- MCFilesystemUuid
    FilesystemType <- MCFilesystemType
    FilesystemDevice <- MCFilesystemDevice
    Ids <- MCIds
    Binding <- MCBinding
    Configs <- MCConfigs
    Hosts <- MCHosts
    Choices <- MCChoices
    EngineSkew = 1
    Allowance = 2
    MaxNow = 4
    MaxChanges <- MCMaxChanges
    MaxExchanges <- MCMaxExchanges
    MaxStep = 2
INVARIANTS
    HonestTestimonyAdmitted
    ConclusionIsTrue
CHECK_DEADLOCK FALSE
