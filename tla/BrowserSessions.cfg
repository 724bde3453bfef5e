\* Two tabs, two overlapping calls, one failed or lost call.
SPECIFICATION Spec
CONSTANTS
    Tabs = {t1, t2}
    NoTab = NoTab
    Calls = {c1, c2}
    MaxSessions = 3
    MaxFaults = 1
SYMMETRY Symmetry
CHECK_DEADLOCK FALSE
INVARIANTS
    RotatedOnce
    OneLiveSession
    ReuseNeedsDisturbance
    CookieIsNewest
    LogoutEndsFamily
PROPERTY ImplementsChain
