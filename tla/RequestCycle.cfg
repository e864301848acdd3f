\* One connection that pipelines, two threads, timeouts: the races.
CONSTANTS
    Channels = {c1}
    Threads = {t1, t2}
    MaxReq = 2
    MaxQueue = 0
    MaxBlanks = 1
    MaxParts = 1
    Pipelining = TRUE
    Timeouts = TRUE
    Outcomes = {"parts", "raise", "later"}
    None = None
SPECIFICATION Spec
SYMMETRY Symmetry
INVARIANTS CurrentIsPending ClosedIsFinal OneJobPerRequest
PROPERTIES KeepsContract
CHECK_DEADLOCK FALSE
