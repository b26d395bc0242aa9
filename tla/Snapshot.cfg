SPECIFICATION FairSpec
CONSTANTS
    Backfill = 3
    FirstDay = 4
    LastDay = 8
    MaxFailures = 2
INVARIANTS
    NoDaySkipped
    OnlyCompleteDays
PROPERTIES
    DemandWrittenOnce
    DemandInOrder
    ImplementsLog
    CatchUp
CHECK_DEADLOCK FALSE
