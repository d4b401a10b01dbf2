\* A portal and a pasted URL; the timeout covers two intervals and a tick more.
SPECIFICATION MCSpec
CONSTANTS
    Fetches = {f1, f2}
    Pasted = {f2}
    Retrying = {f1}
    MinInterval = 2
    Timeout = 5
INVARIANTS
    TypeOK
    LockServesTheWaiting
    PageIsGivenBack
    PassesWhenPrompt
PROPERTIES
    PassesSpaced
    EveryFetchEnds
