SPECIFICATION FairSpec
CONSTANTS
    Calls = {c1, c2}
    c1 = c1
    c2 = c2
    MaxRetries = 2
    Rate = 2
    Window = 2
    RetryAfters = {0, 2}
    MaxSends = 4
    MaxNow = 3
INVARIANTS
    Verdict
    LeakyBound
PROPERTIES
    RetryAfterHonoured
    Ends
