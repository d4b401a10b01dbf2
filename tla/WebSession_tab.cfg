\* One tab that is not reloaded while it refreshes.
SPECIFICATION MCSpec
CONSTANTS
    Tabs = {t1}
    Tokens = {k1, k2, k3}
    PageCalls = {c1}
    None = None
    Spare = k3
INVARIANTS
    TypeOK
    StoredIsCurrent
    SurvivesReload
PROPERTIES
    CallsEnd
