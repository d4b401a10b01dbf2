\* Two requests of one user in flight.
SPECIFICATION Spec
CONSTANTS
    Users = {ana}
    Properties = {p1}
    Times = {t1}
    Scores = {}
    Notes = {}
    Requests = {r1, r2}
    ListIds = {l1, l2}
    MemberIds = {m1, m2}
    ItemIds = {i1}
    VisitIds = {v1}
    None = None
SYMMETRY Symmetry
INVARIANTS
    OneOwnedList
