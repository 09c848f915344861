SPECIFICATION Spec
CONSTANTS
    c1 = c1
    c2 = c2
    c3 = c3
    Checks = {c1, c2, c3}
    CheckPhase <- TwoAndPost
    Specs <- WithAndWithoutFirst
    MaxCopies = 1
    MaxFaults = 0
    MaxCrashes = 0
    MaxTouches = 0
    MaxLosses = 0
    StaleReads = FALSE
    ConfigMayChange = FALSE
INVARIANT
    DeployedOnlyIfChecked
CHECK_DEADLOCK FALSE
