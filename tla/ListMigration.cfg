\* Two users with rows of their own, whose requests may overlap: one of them can get both lists.
SPECIFICATION MigrationSpec
CONSTANTS
    Users = {ana, beto}
    Properties = {p1}
    Times = {}
    Scores = {s1}
    Notes = {}
    Requests = {r1, r2}
    ListIds = {l1, l2}
    MemberIds = {m1, m2, m3}
    ItemIds = {i1, i2}
    VisitIds = {v1}
    None = None
SYMMETRY Symmetry
INVARIANTS
    MigrationTypeOK
    CanMigrate
    OneListInTurn
    ListHasItsOwner
PROPERTIES
    RowsKeepTheirOwner
