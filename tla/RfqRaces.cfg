SPECIFICATION Spec
CONSTANTS
    Rfqs = {r1, r2}
    Products = {p1}
    Requests = {q1, q2, q3}
    Null = Null
    NoResponse = NoResponse
SYMMETRY Symmetry
INVARIANTS
    TypeOK
    AnswersMatchStatus
    DeadlineRespected
    QuotesAreStored
PROPERTIES
    FirstResponseStays
    RacedLifecycle
