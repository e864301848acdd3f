\* Two threads, coroutines pooled or not, both kinds of callback, a shutdown.
CONSTANTS
    Callers = {c1, c2}
    MaxTask = 1
    MaxPuts = 2
    Pooling = {TRUE, FALSE}
    Callbacks = {"default", "custom"}
    Closing = TRUE
    None = None
SPECIFICATION FairSpec
INVARIANTS AtMostOneMore SleepsWithReason
PROPERTIES EveryPutReturns
CHECK_DEADLOCK FALSE
