SPECIFICATION Spec
CONSTANTS
    f1 = f1
    f2 = f2
    s1 = s1
    Run = {f1, f2, s1}
    TrackOf <- ThreeTrackOf
    FastStale = 0
    SlowStale = 1
    MaxCrashes = 0
    MaxClock = 0
    None = None
CHECK_DEADLOCK FALSE
PROPERTY TracksDoNotOverwrite
