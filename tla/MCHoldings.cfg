CONSTANTS
    None = None
    p1 = p1
    A = A
    B = B
    X = X
    Requests = {r1, r2, r3}
    Bodies <- MCBodies
    Listed = {A, B}
    Sector <- MCSector
    Instruments = {A}
    Portfolios <- MCPortfolios
    Positions <- MCPositions
SYMMETRY RequestSymmetry
SPECIFICATION Spec
CHECK_DEADLOCK FALSE
INVARIANTS
    TypeOK
PROPERTIES
    NoNewDuplicates
    LoneImportExact
    FailuresExplained
