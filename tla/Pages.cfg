SPECIFICATION PagesFairSpec
CONSTANTS
    fa = fa
    fb = fb
    c1 = c1
    Factory = {fa, fb}
    Chain = {c1, c2}
    Load = {g1}
    MaxWrites = 1
    MaxRetries = 1
    MaxFaults = 1
    MaxSwitches = 1
    Polling = TRUE
    None = None
    FleetFactory = {fa, fb}
    MaxReadings <- Readings
    MaxGets = 2
    MaxPasses = 2
    MaxTurns = 2
CHECK_DEADLOCK FALSE
INVARIANTS
    FleetConsistent
PROPERTIES
    PagesBecomeCurrent
    ShownForList
    FleetSettles
