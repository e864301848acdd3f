SPECIFICATION Spec
CONSTANTS
    Threads = {t1, t2}
    MaxMsg = 1
    MaxEdits = 4
    Broken = {3}
    MaxTicks = 3
    Servers = {s1, s2}
    MaxVersions = 3
    Stamp <- MCStamp
    Large = {2}
    MaxSeconds = 1
    Processes = {p1}
    Keys = {"a", "b", "c"}
    Early <- MCEarly
    Slots = 4
    MaxTime = 3
    MaxAdds = 2
    Addresses <- MCAddresses
    Ids = {"i1"}
    MaxReq = 1
    MaxTasks = 4
    Sizes <- MCSizes
    Workers = 2
    Cancels = TRUE
    Filters = TRUE
    Closing = TRUE
INVARIANTS
    TypeOK
    ClientsForgotten
    LastWordHeard
    FreshAnswers
    NewestOrRetried
    KeysApart
    OneOpenChannel
PROPERTIES
    ShutdownReturns
    FuturesFulfilled
CHECK_DEADLOCK FALSE
