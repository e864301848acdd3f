\* Two threads and the main thread, a pipe that can fill up.
CONSTANTS
    w1 = w1
    w2 = w2
    m = m
    Writers = {w1, w2, m}
    Main = m
    MaxPulls = 2
    PipeSize = 3
    RecvSize = 2
SPECIFICATION FairSpec
INVARIANTS NoLostWakeup
PROPERTIES DeliversThunks EveryThunkRuns
CHECK_DEADLOCK FALSE
