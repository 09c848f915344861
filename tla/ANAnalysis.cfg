SPECIFICATION FairSpec
CONSTANTS
    t1 = t1
    t2 = t2
    t3 = t3
    p1 = p1
    p2 = p2
    Templates <- ThreeTemplates
    Keys = {t1, t2}
    KeyOf <- SameKey
    BlankTypes = {p2}
    Numbers = {1}
    Definitions <- EditedDefinition
    ProviderOf <- TwoProviders
    TotalScore <- Thresholds
    MaxWorkers = 2
    MaxClock = 2
    MaxFaults = 1
INVARIANTS
    VerdictRestsOnValues
    ClosedPoolIsQuiet
PROPERTIES
    CompletedAndReported
CHECK_DEADLOCK FALSE
