\* Two calls that share one clone, two pool threads, timeouts, a shutdown.
CONSTANTS
    MaxReq = 2
    MaxTasks = 2
    Sizes <- TwoThenOne
    Workers = 2
    Cancels = TRUE
    Filters = FALSE
    Closing = TRUE
    MaxClones = 1
    Timeouts = TRUE
SPECIFICATION Spec
INVARIANTS TypeOK FulfilledOnce TasksAccountedFor AnswersOwnClient
CHECK_DEADLOCK FALSE
