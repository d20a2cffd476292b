SPECIFICATION Spec
CONSTANTS
    Tenants = {t1, t2}
    Apps = {a1, a2}
    Filters = {"PENDING", "APPROVED", None}
    Calls = {c1, c2}
    MaxLoads = 2
    None = None
SYMMETRY Symmetry
INVARIANTS
    TypeOK
    QuietListIsCurrent
    FormFollowsDrawer
PROPERTIES
    CredentialsStayUntilDone
