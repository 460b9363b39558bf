CONSTANTS
    Null = Null
    Turns = {t1, t2, t3}
    Threads = {h1, h2}
    Limit = 2
    MaxTime = 1
SYMMETRY TurnSymmetry
SPECIFICATION ChatSpec
CHECK_DEADLOCK FALSE
INVARIANTS
    WindowSound
    AnswersAdjacent
