CONSTANTS
    None = None
    A = A
    B = B
    usd = usd
    Sessions = {s1, s2}
    Portfolios <- MCPortfolios
    Books <- MCBooks
    RateOf <- MCRates
    ToBase <- MCToBase
    Feeds <- MCFeeds
    StartDb <- MCStart
    Items = {g}
SPECIFICATION Spec
CHECK_DEADLOCK FALSE
INVARIANTS
    TypeOK
    SignalsMixOnlyIfDisjoint
PROPERTIES
    AloneExact
