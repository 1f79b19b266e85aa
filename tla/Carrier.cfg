SPECIFICATION Spec
CONSTANTS
    MaxExchanges = 2
    MaxLocks = 2
    MaxMischief = 2
CHECK_DEADLOCK FALSE
INVARIANTS
    ResponseIsFresh
    AnsweredUnderItsLock
    HelpersContained
PROPERTIES
    ExchangeEnds
