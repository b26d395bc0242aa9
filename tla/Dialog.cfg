SPECIFICATION Spec
CONSTANTS
    Slots = {s1, s2}
    s1 = s1
    s2 = s2
    Budgets <- OffOrTwo
    KeepRecent = 1
    ScanLimit = 4
    HistoryDepth = 3
    MaxRows = 5
SYMMETRY SlotSymmetry
INVARIANTS
    SummaryIsExact
    ContextComplete
    RecentVerbatim
    ForgetsBeforeReset
CHECK_DEADLOCK FALSE
