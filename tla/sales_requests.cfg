CONSTANTS
    s1 = s1  s2 = s2  l1 = l1  l2 = l2  l3 = l3  p1 = p1
    Sale = {s1, s2}
    Line = {l1, l2, l3}
    Return = {x1, x2}
    NoSale = NoSale
    Request = {r1, r2}
    Product = {p1}
    SaleOf <- MCSaleOf
    LineNumber <- MCLineNumber
    Quantity <- MCQuantity
    UnitCost <- MCUnitCost
    Total <- MCTotal
    ProductOf <- MCProductOf
    AllowNegative <- MCForbidNegative
    OpeningStock <- MCStock
    Named <- OwnLines
    PageSize = 50
    Amount = {1}
    MaxAsked = 1
    OpeningCash = 0
    UnitPrice <- MCUnitPrice
    SaleDate <- MCSaleDate
    SaleRank <- MCSaleRank
    ReturnDate <- MCReturnDate
    ReturnRank <- MCReturnRank
    TicksPerSecond = 2
    TicksPerDay = 4
    MonthStarts = {0, 4, 7, 12, 21}
    YearStarts = {0, 7, 21}
    Horizon <- MCHorizon
SPECIFICATION Spec
CHECK_DEADLOCK FALSE
INVARIANTS
    MoneyBounded
    SaleMovements
    CancelledHasNoReturn
    NeverOverRestocked
    PeriodsAddUp
    ReportsAgree
PROPERTIES
    DocSpec
