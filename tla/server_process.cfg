SPECIFICATION FairSpec
CONSTANTS
    Quantity <- MCQuantity
    Threshold <- MCThreshold
    Default <- MCDefault
    Opening = 2
    MaxMovements = 3
    Request = {r1, r2}
    Key = {k1, k2}
    Body = {b1, b2}
    Job = {j1, j2}
    Nothing = Nothing
    MaxCrashes = 1
CHECK_DEADLOCK FALSE
INVARIANTS
    NotifiedWhileKeepingUp
    AnswerFitsBody
PROPERTIES
    EveryJobEnds
