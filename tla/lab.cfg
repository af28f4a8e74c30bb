SPECIFICATION Spec
SYMMETRY MCSymmetry
CHECK_DEADLOCK FALSE
CONSTANTS
    None = None
    Runs = {r1, r2}
    Workers = {w1, w2}
    Requests = {1, 2, 3}
    Concurrency = 2
    MAX_WAITING = 2
    LATEST = 2
    MaxStarts = 3
INVARIANTS
    SentOnce
    Accounted
PROPERTIES
    FinishedStays
