CONSTANTS
    None = None
    Symbols = {1, 2, 3, 4}
    Catalog = {2, 4}
    Watched = {3}
    InitiallyHeld = {1, 2}
    Sectors <- MCSectors
    Labels <- MCLabels
    GroupNames = {"tech"}
    Signals <- MCSignals
    News <- MCNews
    Markets <- MCMarkets
    Drafts <- MCDrafts
    Chars <- MCChars
    Limits = {1, 4, 8, 10, 14, 16, 18, 20, 22, 25, 28, 31, 34, 38, 42, 46, 60}
    MaxHeadlines = 2
    MaxCandidates = 2
    MaxEdits = 2
SPECIFICATION Spec
CHECK_DEADLOCK FALSE
INVARIANT CitedSignalsKept
