SPECIFICATION Spec
CONSTANTS
    Wanted = {"snapshot", "digest"}
    Stale = {"legacy"}
    Digest = "digest"
    Recipients <- TwoRecipients
    Period = 3
    Grace = 1
    MaxNow = 7
    MaxRestarts = 2
INVARIANT
    MissedFireRuns
CHECK_DEADLOCK FALSE
