SPECIFICATION FunctionFairSpec
CONSTANTS
    MaxJobs = 3
    MaxFaults = 1
    MaxCrashes = 1
    MaxCleanups = 1
    MaxStale = 1
    MaxEdits = 1
    MaxDisturbances = 1
INVARIANTS
    ResultIsReal
    JobsAccountedFor
    RunsDefinedCode
PROPERTIES
    ResultKept
    Completes
CHECK_DEADLOCK FALSE
