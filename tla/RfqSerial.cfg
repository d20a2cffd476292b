SPECIFICATION Spec
CONSTANTS
    Rfqs = {r1, r2}
    Products = {p1, p2}
    Requests = {q1}
    Null = Null
    NoResponse = NoResponse
PROPERTIES
    QuoteHistoryKept
    DocumentedLifecycle
    OverdueLeavesNew
