SPECIFICATION Spec
CONSTANTS
    f1 = f1
    f2 = f2
    s1 = s1
    Run = {f1, s1}
    TrackOf <- TwoTrackOf
    FastStale = 0
    SlowStale = 1
    MaxCrashes = 1
    MaxClock = 2
    None = None
CHECK_DEADLOCK FALSE
INVARIANTS
    SectionsArePaired
    OverallAgrees
    GreenMeansGreen
