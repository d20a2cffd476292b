SPECIFICATION Spec
CONSTANTS
    Tenants = {t1, t2}
    Passwords = {p1, p2}
    Tabs = {w1, w2}
    Calls = {c1, c2}
    None = None
SYMMETRY Symmetry
INVARIANTS
    TypeOK
    AnswersAreTimely
PROPERTIES
    ActsForWhomItShows
