SPECIFICATION FairSpec
CONSTANTS
    e1 = e1
    e2 = e2
    e3 = e3
    e4 = e4
    fac = fac
    Event = {e1, e2, e3, e4}
    Message = {"bad", "zoneless", "fs", "stray"}
    Factory = {fac}
    MessageOf <- RejectMessageOf
    FactoryOf <- RejectFactoryOf
    KindOf <- RejectKindOf
    FaultOf <- RejectFaultOf
    SourceTs <- RejectSourceTs
    WarningAge = 0
    CriticalAge = 1
    MaxAttempts = 2
    MaxCrashes = 1
    MaxClock = 0
    NoMessage = NoMessage
    NoItem = NoItem
CHECK_DEADLOCK FALSE
INVARIANTS
    RefusalsAreFinal
PROPERTIES
    EventsSettle
