SPECIFICATION Spec
CONSTANTS
    fa = fa
    fb = fb
    fx = fx
    Half = 3
    PerHour = 2
    HalfWindow = 1
    Default = 4
    Unset = Unset
    TooLong = TooLong
    Garbled = Garbled
    CloudInfra = CloudInfra
    Question <- Questions
    DetailWindow = 1
    Plant = {fa, fb}
    Shape <- Series
    Lacking = Lacking
CHECK_DEADLOCK FALSE
INVARIANTS
    ScopeIsRight
    ReadsAreDue
    AnswerIsHonest
    FiguresHold
