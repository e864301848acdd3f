\* A SIGHUP to the master of two workers.
CONSTANTS
    NumWorkers = 2
    MaxPids = 4
    MaxDeaths = 0
    MaxHups = 1
    Stops = {}
    Together = TRUE
    Early = FALSE
    None = None
SPECIFICATION FairSpec
PROPERTIES HupReloads
CHECK_DEADLOCK FALSE
