CONSTANTS
    Threads = {t1}
    Clients = {1}
    Pushes = {2, 4}
    Sizes = {2}
    Window = 1
    Heavy = {2}
    Forces = {TRUE, FALSE}
    Resets = {1}
    BadFrames = FALSE
    Main = Main
    None = None
SPECIFICATION FairSpec
INVARIANTS
    TypeOK
    ResponsesWhole
    NoStuckResponse
PROPERTIES
    GoawayCutsNoneOff
    ClockReturned
    RequestsAnswered
CHECK_DEADLOCK FALSE
