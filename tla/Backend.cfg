SPECIFICATION FairSpec
CONSTANTS
    Call = {c1, c2, c3}
    Reader = {c1, c2}
    Permits = 2
    Threads = 1
    Factory = {fa}
    MaxWrites = 2
    MaxChanges = 1
    MaxFaults = 1
    None = None
    Client = {r1, r2}
    Key = {k1, k2}
    MaxRotations = 1
    MaxOutages = 1
    NoKeys = NoKeys
    Worker = {w1, w2}
    Configured = {fa, fb}
    MaxAdmins = 2
    MaxKills = 1
    NoRow = NoRow
    MaxTime = 5
    Content <- Contents
    PageSize = 2
    Cap = 3
    ChunkSize = 2
    Factories = {1, 2, 3, 4}
    MaxPuts = 1
    Missing = Missing
    Hour = 2
    Hours = 1
    MaxObjects = 1
    MaxEvents = 1
    CloudInfra = CloudInfra
    Site = {fa, CloudInfra}
    Shapes <- ObjectShapes
    NoTime = NoTime
CHECK_DEADLOCK FALSE
INVARIANTS
    NothingLeaks
    AccessWasHeld
    AnswerIsTheRange
    BucketsAreFaithful
    WindowIsKept
    ListAndGetAgree
PROPERTIES
    OutageRefusesNobody
    SeedIsWhole
    BackendSettles
