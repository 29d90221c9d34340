CONSTANTS
    flour = flour  dough = dough  bread = bread
    Run = {r1}
    Product = {flour, dough, bread}
    Producible = {dough, bread}
    NegativeOK = {}
    OnHand <- MCOnHand
    Cash = 2
    Quantity = {1, 3}
    Basis = {0, 150}
    Amount = {1, 2}
    MaxLines = 2
    RunDate <- MCRunDate
    RunRank <- MCRunDate
    Active = {flour, dough, bread}
    Threshold <- MCThreshold
    ProductRank <- MCProductRank
    TicksPerSecond = 1
    TicksPerDay = 1
    MonthStarts = {0, 4}
    YearStarts = {0, 4}
    Horizon = {0, 1, 2, 3}
SPECIFICATION RunSpec
CHECK_DEADLOCK FALSE
INVARIANTS
    LedgerFollowsRun
PROPERTIES
    PostNeverOverdraws
    SettledCostsStand
