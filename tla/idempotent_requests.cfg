CONSTANTS
    a1 = a1  a2 = a2  b1 = b1  c1 = c1  c2 = c2  d1 = d1
    k1 = k1  k2 = k2  h1 = h1  h2 = h2
    Request = {a1, a2, b1, c1, c2, d1}
    Slot = {k1, k2}
    Body = {h1, h2}
    SlotOf <- MCSlotOf
    BodyOf <- MCBodyOf
    Replaying = {k1}
    NoRequest = NoRequest
    NoRow = NoRow
SPECIFICATION FairSpec
CHECK_DEADLOCK FALSE
INVARIANTS
    OneBodyPerKey
PROPERTIES
    EveryRequestEnds
    OnceSpec
