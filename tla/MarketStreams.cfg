SPECIFICATION FairSpec
CONSTANTS
    Pages = {p1, p2}
    Entries = {e1, e2, e3}
    NoEntry = NoEntry
    MaxClaims = 3
INVARIANTS
    RegisteredIsServed
    WatchersAreCounted
    WatchersAreReleased
    OpenSocketsAreRegistered
PROPERTY WatchersAreServed
