SPECIFICATION Spec
CONSTANTS
    Admins = {a1, a2}
    Desks = {d1, d2}
    Calls = {c1, c2}
    None = None
SYMMETRY Symmetry
INVARIANTS
    TypeOK
    SomeoneCanManage
    ProfileShownIsMine
