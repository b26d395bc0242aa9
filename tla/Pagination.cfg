SPECIFICATION PagesSpec
CONSTANTS
    PageLimit = 3
    AuditLimit = 2
    Limits = {0, 1, 2, 3, 4, 5}
    MaxRows = 5
INVARIANTS
    InOrder
    Complete
CHECK_DEADLOCK FALSE
