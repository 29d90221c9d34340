SPECIFICATION CatalogSpec
CONSTANTS
    p1 = p1  p2 = p2  c1 = c1  c2 = c2  u1 = u1  u2 = u2  a1 = a1  k1 = k1  t1 = t1  x1 = x1
    low = low  high = high
    Product = {p1, p2}
    Category = {c1, c2}
    Unit = {u1, u2}
    Attribute = {a1}
    Contact = {k1}
    CostType = {t1}
    Request = {r1, r2}
    Code = {x1}
    Price = {low, high}
    NoValue = NoValue
    Unused = Unused
    Deleted = Deleted
    NewProduct <- MCNewProduct
    ProductPatch <- MCProductPatch
    File <- MCFile
    Seed <- MCSeed
    MaxTime = 2
SYMMETRY Symmetry
INVARIANTS ReferencesHold TagTellsContent
PROPERTIES PriceChangesRecorded
CHECK_DEADLOCK FALSE
