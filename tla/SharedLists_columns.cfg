\* One list, one item and one visit with all columns, two requests in flight.
SPECIFICATION Spec
CONSTANTS
    Users = {ana}
    Properties = {p1}
    Times = {t1, t2}
    Scores = {s1}
    Notes = {c1}
    Requests = {r1, r2}
    ListIds = {l1}
    MemberIds = {m1}
    ItemIds = {i1}
    VisitIds = {v1}
    None = None
SYMMETRY Symmetry
PROPERTIES
    ColumnsAreMerged
    DatesLostToRacesOnly
    StampsLostToRacesOnly
