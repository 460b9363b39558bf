CONSTANTS
    None = None
    Blank = Blank
    P = P
    Q = Q
    M = M
    N = N
    K = K
    Admins = {a1, a2}
    Tasks = {t1, t2}
    Providers = {P, Q}
    Models = {M, N}
    Keys = {K}
    Env <- EnvConfig
SPECIFICATION Spec
INVARIANTS
    TypeOK
    StaleOnlyByRace
    SavedWholeUnlessMet
PROPERTIES
    KeyKept
