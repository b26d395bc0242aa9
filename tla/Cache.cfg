SPECIFICATION Spec
CONSTANTS
    Calls = {c1, c2}
    c1 = c1
    c2 = c2
    TTL = 5
    Second = 2
    MaxLag = 2
    MaxNow = 14
INVARIANTS
    BoundedStaleness
    JanitorInvisible
    NoStepBack
CHECK_DEADLOCK FALSE
