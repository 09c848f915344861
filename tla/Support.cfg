SPECIFICATION SupportSpec
CONSTANTS
    Metrics = {m1}
    Values = {v1}
    None = None
    Error = Error
    Limits = {0, 1, 2}
    Interval = 2
    MaxClock = 4
    MaxFaults = 2
    MaxEdits = 1
    p1 = p1
    p2 = p2
    p3 = p3
    Published = {p1, p2, p3}
    KeyOf <- SharedKey
    GaugeOf <- SharedGauge
    Texts = {kilo, nan}
    Quantities = {kilo}
    Floats = {nan}
    NoText = NoText
    Absent = Absent
    DefaultValue = DefaultValue
    MaxChanges = 2
    MaxRestarts = 1
    Points = {1, 4}
    MaxSeries = 2
    MaxPoints = 2
    Templates = {}
    Numbers = {2, 4, 6}
    MeasuredValues = {1, 2, 3, 4, 5, 6, 7}
    Webhooks = {w1}
    CRDs = {c1}
    Servers = {o1, o2}
    RootLife = 9
    ServerLife = 6
    Threshold = 4
    WatchInterval = 2
    MaxTime = 14
    MaxFailures = 2
    MaxDisturbances = 1
    MaxWrites = 2
INVARIANTS
    ResultsApart
    WindowBounded
    ValueIsMeasured
    MigratedVerdict
    ServedIsValid
    TrustedWhenDone
    OutageBounded
PROPERTIES
    KeepsFetching
    ReadersCatchUp
    CallableInTheEnd
    OthersSurvive
CHECK_DEADLOCK FALSE
