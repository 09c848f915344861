SPECIFICATION FairSpec
CONSTANTS
    m1 = m1
    m2 = m2
    N = 2
    Metrics = {m1, m2}
    MetricOf <- OwnMetrics
    Retries = 3
    MaxFaults = 2
    MaxCrashes = 2
    MaxStale = 2
INVARIANTS
    SucceededOnlyIfMet
    FailedOnlyAfterRetries
PROPERTIES
    DecidesUnlessDropped
CHECK_DEADLOCK FALSE
