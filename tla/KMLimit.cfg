SPECIFICATION FairSpec
CONSTANTS
    Metrics = {m1}
    Values = {v1}
    None = None
    Error = Error
    Limits = {0, 1, 2}
    Interval = 2
    MaxClock = 4
    MaxFaults = 2
    MaxEdits = 1
PROPERTIES
    UpdateWithinLimit
CHECK_DEADLOCK FALSE
