\* The user's own list and one shared with them; up to three calls of the page for a list.
SPECIFICATION Spec
CONSTANTS
    Lists = {own, shared}
    Own = own
    None = None
    Refreshes = {r1, r2}
    MaxCalls = 3
INVARIANTS
    TypeOK
    ActiveIsKnown
    ShowsActiveList
PROPERTIES
    PageShows
