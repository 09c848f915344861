SPECIFICATION Spec
CONSTANTS
    m1 = m1
    m2 = m2
    N = 2
    Metrics = {m1, m2}
    MetricOf <- SameMetric
    Retries = 2
    MaxFaults = 0
    MaxCrashes = 0
    MaxStale = 0
INVARIANT
    SucceededOnlyIfMet
CHECK_DEADLOCK FALSE
