SPECIFICATION EdgeFairSpec
CONSTANTS
    fa = fa
    fb = fb
    Factory = {fa, fb}
    MaxLoads = 2
    MaxItems <- Limits
    MaxFaults = 1
    MaxSwitches = 1
    MaxClicks = 1
    None = None
    Key = {fa, fb}
    BatchSize = 3
    MaxRetries = 1
    MaxRecords = 3
    MaxInvocationFaults = 4
    MaxFiles = 3
    MaxOutboxFaults = 2
    Backoff = 5
    MaxBackoff = 10
    Temperature <- Temperatures
    Humidity <- Humidities
    Score <- Scores
    Sound = {Absent, Null, "brief lab impact"}
    NodeReport <- NodeReports
    Absent = Absent
    Null = Null
    Reply <- Replies
    PodsLimit = 2
    MaxKeys = 2
    NoDate = NoDate
CHECK_DEADLOCK FALSE
INVARIANTS
    ChartIsOfFactory
    NothingSkipped
    NothingDiscarded
    RepeatedByFaultsOnly
    ScoreIsSound
    StatusesAreEarned
PROPERTIES
    EventuallyNewest
    FirstInOrder
    SettlesOnNewest
    BacklogDrains
