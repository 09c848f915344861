SPECIFICATION FairSpec
CONSTANTS
    v1 = v1
    v2 = v2
    none = none
    w1 = w1
    MaxGeneration = 2
    Versions = {v1, v2}
    NoVersion = none
    VersionOf <- Restarted
    Workloads = {w1}
    WorkloadsOf <- BothW1
    CheckedPhases = {2}
    PromotionTasksEnabled = TRUE
    MaxDisturbances = 0
PROPERTY
    AppEnds
CHECK_DEADLOCK FALSE
