\* One connection, one thread, no timeouts: a full queue, whole answers and an
\* answer for everybody.
CONSTANTS
    Channels = {c1}
    Threads = {t1}
    MaxReq = 2
    MaxQueue = 0
    MaxBlanks = 1
    MaxParts = 2
    Pipelining = FALSE
    Timeouts = FALSE
    Outcomes = {"parts", "write", "raise"}
    None = None
SPECIFICATION FairSpec
INVARIANTS AnswersWhole
PROPERTIES EveryRequestSettled
CHECK_DEADLOCK FALSE
