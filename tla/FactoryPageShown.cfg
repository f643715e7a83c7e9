SPECIFICATION Spec
CONSTANTS
    Factory = {fa, fb}
    Chain = {c1, c2}
    Load = {g1, g2}
    MaxWrites = 1
    MaxRetries = 1
    MaxFaults = 1
    MaxSwitches = 1
    Polling = FALSE
    None = None
CHECK_DEADLOCK FALSE
INVARIANT ShownIsOfFactory
