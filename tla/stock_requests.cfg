CONSTANTS
    s1 = s1  a = a  b = b  e1 = e1
    Product = {1, 2, 3}
    Request = {r1, r2, r3}
    Sale = {s1}
    Run = {a, b}
    Event = {e1}
    Sold <- MCSold
    Consumed <- MCConsumed
    Output <- MCOutput
    Made <- MCMade
    Sorted <- MCSorted
    Delta <- MCDelta
    NegativeOK = {3}
    Opening <- MCOpening
    Nobody = Nobody
SPECIFICATION FairSpec
CHECK_DEADLOCK FALSE
INVARIANTS
    AcceptedStays
PROPERTIES
    GuardedNeverOverdraws
    ReversedUntouched
    EveryRequestEnds
