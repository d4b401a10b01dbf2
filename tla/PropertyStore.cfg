CONSTANTS
    Keys = {k1, k2}
    Columns = {"price", "rooms"}
    Readings <- MCReadings
    Jobs = {j1, j2}
    None = None
    FirstRows <- MCFirstRows
    MaxStarted = 2
SPECIFICATION MCSpec
INVARIANTS
    TypeOK
    BackfillKeepsItsReport
PROPERTIES
    TornByRacesOnly
    NeverThinned
    JobsEnd
