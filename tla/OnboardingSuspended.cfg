SPECIFICATION Spec
CONSTANTS
    Apps = {}
    Tenants = {t1}
    Emails = {e1}
    Requests = {q1, q2}
    Chosen = Chosen
    None = None
    NoAccount = NoAccount
INVARIANTS
    SuspendedIsLockedOut
