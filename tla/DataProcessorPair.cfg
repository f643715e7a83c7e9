SPECIFICATION Spec
CONSTANTS
    e1 = e1
    e2 = e2
    e3 = e3
    e4 = e4
    fac = fac
    Event = {e1, e2}
    Message = {"fs", "is"}
    Factory = {fac}
    MessageOf <- PairMessageOf
    FactoryOf <- PairFactoryOf
    KindOf <- PairKindOf
    FaultOf <- PairFaultOf
    SourceTs <- PairSourceTs
    WarningAge = 0
    CriticalAge = 1
    MaxAttempts = 2
    MaxCrashes = 1
    MaxClock = 2
    NoMessage = NoMessage
    NoItem = NoItem
CHECK_DEADLOCK FALSE
INVARIANTS
    StatusHasEvidence
    DoneMeansStored
PROPERTY ImplementsContract
