SPECIFICATION DraftSpec
CONSTANTS
    Request = {r1, r2}
    Line = {l1, l2}
    Cost = {c1}
    Subtotal <- MCSubtotal
    Mass <- MCMass
    Freight <- MCFreight
    Amount <- MCAmount
    NoShipping = NoShipping
    NoLineId = NoLineId
SYMMETRY Symmetry
INVARIANTS
    FreightAllocated
    CostsAllocated
PROPERTIES
    ReceivedAtLandedCost
CHECK_DEADLOCK FALSE
