SPECIFICATION Spec
CONSTANTS
    Wanted = {"snapshot", "digest"}
    Stale = {"legacy"}
    Digest = "digest"
    Recipients <- TwoRecipients
    Period = 3
    Grace = 1
    MaxNow = 7
    MaxRestarts = 2
INVARIANTS
    OncePerFire
    NobodyRobbed
    SameDigest
CHECK_DEADLOCK FALSE
