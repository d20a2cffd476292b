SPECIFICATION Spec
CONSTANTS
    Apps = {a1}
    Tenants = {t1, t2}
    Emails = {e1, e2}
    Requests = {q1, q2}
    Chosen = Chosen
    None = None
    NoAccount = NoAccount
SYMMETRY Symmetry
INVARIANTS
    TypeOK
    ApprovedTwiceShownOnce
