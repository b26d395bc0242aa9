SPECIFICATION Spec
CONSTANTS
    Tasks = {t1, t2}
    t1 = t1
    t2 = t2
    Keys = {1, 2}
    Threshold = 1
    Limits = {1, 2}
    MaxClock = 2
SYMMETRY TaskSymmetry
INVARIANTS
    OthersSurvive
    HalfWayHarmless
    PressedDeleted
