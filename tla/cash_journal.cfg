SPECIFICATION Spec
CONSTANTS
    Request = {r1, r2}
    Entry = {e1, e2}
    Income = {sideIncome}
    Expense = {rent}
    Method = {card}
    Amount = {1, 2}
    MaxCash = 3
    Nothing = Nothing
    EntryDate <- OneDay
    EntryRank <- OneDay
    CapitalInjection = {}
    TicksPerSecond = 1
    TicksPerDay = 1
    MonthStarts = {0, 4}
    YearStarts = {0, 4}
    Horizon = {0, 1, 2, 3}
SYMMETRY Interchangeable
INVARIANTS
    CancelledOnce
    ReferencesKept
    ManualNetIsCashNet
CHECK_DEADLOCK FALSE
