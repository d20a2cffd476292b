SPECIFICATION Spec
CONSTANTS
    Rfqs = {r1, r2}
    Products = {p1, p2}
    Filters = {All, ActiveOnly}
    All = All
    ActiveOnly = ActiveOnly
    InactiveOnly = InactiveOnly
    InboxPages = 2
    CatalogPages = 1
    Calls = {c1, c2}
    MaxUnderWay = 2
    None = None
SYMMETRY Symmetry
INVARIANTS
    TypeOK
    QuietPageIsCurrent
    AnsweredFormIsGone
