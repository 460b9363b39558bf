CONSTANTS
    None = None
    A = A
    B = B
    Funds = {A, B}
    Requests = {r1, r2, r3}
    Bodies <- MCBodies
    FeedLists <- MCFeedLists
    Initial <- MCInitial
    DayLength = 4
    TTL = 2
    StartTime = 3
    MaxTime = 5
SYMMETRY RequestSymmetry
SPECIFICATION Spec
CHECK_DEADLOCK FALSE
INVARIANTS
    TypeOK
    ManualPriceOnlyByRace
    NoRepeatFetch
PROPERTIES
    ManualStaysManual
