\* Two members plan visits to one property.
SPECIFICATION Spec
CONSTANTS
    Users = {ana, beto}
    Properties = {p1}
    Times = {t1, t2}
    Scores = {}
    Notes = {}
    Requests = {r1, r2}
    ListIds = {l1}
    MemberIds = {m1, m2}
    ItemIds = {i1}
    VisitIds = {v1}
    None = None
SYMMETRY Symmetry
INVARIANTS
    VisitIsDated
