\* One tab that may be reloaded at any time.
SPECIFICATION Spec
CONSTANTS
    Tabs = {t1}
    Tokens = {k1, k2, k3}
    PageCalls = {c1}
    None = None
INVARIANTS
    SurvivesReload
