SPECIFICATION Spec
CONSTANTS
    Rfqs = {r1}
    Products = {p1}
    Requests = {q1, q2}
    Null = Null
    NoResponse = NoResponse
PROPERTIES
    AnsweredOnlyFromNew
