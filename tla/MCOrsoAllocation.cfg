CONSTANTS
    None = None
    r1 = r1
    r2 = r2
    r3 = r3
    Requests = {r1, r2, r3}
    A = A
    B = B
    C = C
    D = D
    Funds = {A, B, C, D}
    Menu = {A, B}
    Initial <- Nothing
    Bodies <- AllBodies
    Place <- ByFund
SYMMETRY Symmetry
SPECIFICATION Spec
CHECK_DEADLOCK FALSE
INVARIANTS
    TypeOK
    StaleRowsOnlyByRace
    ArchivedUnitsOnlyByRace
    CircleOnlyByOrder
PROPERTIES
    SoloReplaceExact
