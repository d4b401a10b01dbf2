\* Two users with two requests in flight, two lists.
SPECIFICATION Spec
CONSTANTS
    Users = {ana, beto}
    Properties = {p1}
    Times = {}
    Scores = {}
    Notes = {}
    Requests = {r1, r2}
    ListIds = {l1, l2}
    MemberIds = {m1, m2, m3}
    ItemIds = {i1, i2}
    VisitIds = {v1, v2}
    None = None
SYMMETRY Symmetry
INVARIANTS
    TypeOK
    NoDuplicateRows
    VisitsHaveInterest
PROPERTIES
    OnlyMembersWrite
    ImplementsBoard
