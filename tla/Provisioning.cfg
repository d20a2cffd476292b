SPECIFICATION FairSpec
CONSTANTS
    Tenants = {t1, t2}
    Emails = {e1, e2}
    Calls = {c1, c2, c3}
    Chosen = Chosen
    Migrations = 2
    NoAccount = NoAccount
    NoTenant = NoTenant
INVARIANTS
    TypeOK
    AccountImpliesReady
    AppliedInOrder
    RetryIsSafe
PROPERTIES
    ProfileEditsKept
    CallEndsProvisioned
    ImplementsDirectory
CHECK_DEADLOCK FALSE
