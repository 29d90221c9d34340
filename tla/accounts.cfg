SPECIFICATION Spec
CONSTANTS
    olga = olga  sam = sam  una = una  staff = staff  clerk = clerk  boss = boss
    User = {olga, sam, una}
    Role = {boss, staff, clerk}
    Session = {s1, s2}
    Capability = {c1}
    Manage = c1
    Owner = boss
    SystemRole = {boss, staff}
    Seeded <- MCSeeded
    Request = {r1, r2}
    Unused = Unused
    MaxFailed = 2
    MaxRequests = 4
SYMMETRY Symmetry
INVARIANTS RolesKept FailuresCounted
PROPERTIES RevokedForGood
CHECK_DEADLOCK FALSE
