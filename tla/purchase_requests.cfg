CONSTANTS
    p1 = p1  p2 = p2  l1 = l1  l2 = l2  l3 = l3
    Purchase = {p1, p2}
    Line = {l1, l2, l3}
    Return = {x1, x2}
    NoPurchase = NoPurchase
    Request = {r1, r2}
    PurchaseOf <- MCPurchaseOf
    Unsorted = {l2}
    Quantity <- MCQuantity
    LineTotal <- MCLineTotal
    Freight <- MCFreight
    Named <- OwnLines
    Amount = {1, 3}
    MaxAsked = 2
    OpeningCash = 1
    OperatingCost <- MCOperatingCost
    PurchaseDate <- MCPurchaseDate
    PurchaseRank <- MCPurchaseRank
    ReturnDate <- OneDay
    RepaymentDate <- OneDay
    ReturnRank <- OneDay
    TicksPerSecond = 1
    TicksPerDay = 1
    MonthStarts = {0, 4}
    YearStarts = {0, 4}
    Horizon = {0, 1, 2, 3}
SPECIFICATION Spec
SYMMETRY Interchangeable
CHECK_DEADLOCK FALSE
INVARIANTS
    ExpenseFollowsGoods
    LedgerAgrees
    BatchNeverOverdrawn
    LifecycleTellsReturns
    MoneyBounded
PROPERTIES
    PurchaseSpec
