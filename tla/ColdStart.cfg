SPECIFICATION FairSpec
CONSTANTS
    Instances = {i1, i2}
    Boots = {b1, b2, b3}
    Requests = {r1, r2}
    Admins = {a1, a2}
    Emails = {e1, e2}
    Passwords = {p1, p2}
    SeedEmail = e1
    SeedPassword = p1
    NoBoot = NoBoot
    NoInstance = NoInstance
    NoAdmin = NoAdmin
INVARIANTS
    TypeOK
    OneBootPerInstance
    ServedWithAdmin
PROPERTIES
    SeedLeavesAdmins
    RequestsAnswered
    ServesAfterOutage
