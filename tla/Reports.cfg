SPECIFICATION Spec
CONSTANTS
    Cent = 60
    Piece = 2
    DefaultLimit = 1
    MaxLimit = 2
    Day = 2
    ACut = 80
    BCut = 95
    XCut = 10
    YCut = 25
    MinDays = 2
    FallbackDays = 3
    Now = 200
    Limits = {0, 9}
    ProfitRows <- MCProfitRows
    StockRows <- MCStockRows
    TurnoverRows <- MCTurnoverRows
    StoreRows <- MCStoreRows
    Documents <- MCDocuments
    ValuePairs <- MCValuePairs
    Counterparties <- MCCounterparties
    SegmentParams <- MCSegmentParams
    Outcomes <- MCOutcomes
    Thresholds <- MCThresholds
    KeyedPairs <- MCKeyedPairs
    TopNs <- MCTopNs
    Invoices <- MCInvoices
    PeriodRows <- MCPeriodRows
    DemandRows <- MCDemandRows
    MatrixPairs <- MCMatrixPairs
    XyzParams <- MCXyzParams
    MinDayCounts <- MCMinDayCounts
    RecentLines <- MCRecentLines
    PlanParams <- MCPlanParams
    CapturedDays <- MCCapturedDays
    Details <- MCDetails
    MoneyFlows <- MCMoneyFlows
    SalesPoints <- MCSalesPoints
    Users = {u1, u2}
    u1 = u1
    u2 = u2
    Rates <- MCRates
    Hour = 2
    Readings = {1, 2, 3, 5}
    MaxCalls = 4
    Unit = 2
    Figures <- MCFigures
    Outputs <- MCOutputs
    UserFigures <- MCUserFigures
    SplitTarget = 4
    Texts <- MCTexts
    OptionLists <- MCOptionLists
    Ticks = 3
    Months <- ThreeMonths
    Calendar = {3, 4, 5, 6, 7, 8}
    Calls <- MCCalls
INVARIANTS
    LargestShown
    PartsAddUp
    ClassesFollowRank
    PlanCovers
    AllowanceKept
    SlipSeen
    NothingLost
    PeriodsMeet
    KeysTellApart
CHECK_DEADLOCK FALSE
