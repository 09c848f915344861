SPECIFICATION Spec
CONSTANTS
    c1 = c1
    c2 = c2
    c3 = c3
    Checks = {c1}
    CheckPhase <- OnlyFirst
    Specs <- WithAndWithoutFirst
    MaxCopies = 2
    MaxFaults = 1
    MaxCrashes = 1
    MaxTouches = 1
    MaxLosses = 1
    StaleReads = TRUE
    ConfigMayChange = FALSE
CONSTRAINT TwoDisturbances
INVARIANTS
    TypeOK
    FailureShape
    ResultsAreReal
PROPERTIES
    ImplementsPhaseProgress
    ResultsAreFinal
    FailedIsFinal
CHECK_DEADLOCK FALSE
