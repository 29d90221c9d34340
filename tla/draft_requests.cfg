CONSTANTS
    l1 = l1  l2 = l2  l3 = l3
    Line = {l1, l2, l3}
    Request = {r1, r2, r3}
    Quantity = {2}
    Discount = {1}
    Opening <- MCOpening
    Operation = {"add", "update", "delete", "discount", "post", "drop"}
SPECIFICATION FairSpec
CHECK_DEADLOCK FALSE
INVARIANTS
    MovedAsSold
PROPERTIES
    EveryRequestEnds
