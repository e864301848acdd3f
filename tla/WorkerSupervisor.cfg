\* Two workers, a death at any time, every signal.
CONSTANTS
    NumWorkers = 2
    MaxPids = 3
    MaxDeaths = 1
    MaxHups = 1
    Stops = {"TERM", "QUIT"}
    Together = TRUE
    Early = TRUE
    None = None
SPECIFICATION FairSpec
INVARIANTS SlotsCoverChildren CountMatchesSlots
PROPERTIES WorkersReplaced TermEndsAll
CHECK_DEADLOCK FALSE
