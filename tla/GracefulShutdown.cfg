\* Two connections, signals before and in the loop, Ctrl-C, and an application
\* thread that calls shutdown.
CONSTANTS
    Channels = {c1, c2}
    Askers = {a1}
    Limits = {0, 1}
    Codes = {0, 3}
    MaxAsks = 1
    Early = TRUE
    Interrupts = TRUE
SPECIFICATION FairSpec
INVARIANTS TypeOK
PROPERTIES ReadyAnswersAreWritten NothingNewWhileQuiet FirstAskStands StopsWhenAsked
CHECK_DEADLOCK FALSE
