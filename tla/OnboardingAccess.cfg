SPECIFICATION Spec
CONSTANTS
    Apps = {}
    Tenants = {t1, t2}
    Emails = {e1, e2}
    Requests = {q1, q2, q3}
    Chosen = Chosen
    None = None
    NoAccount = NoAccount
SYMMETRY Symmetry
INVARIANTS
    LinkedHasAccount
    ShownCredentialsWork
    LockFollowsStatus
