CONSTANTS
    Threads = {t1, t2}
    Clients = {1, 3}
    Pushes = {2, 4}
    Sizes = {0}
    Window = 1
    Heavy = {}
    Forces = {FALSE}
    Resets = {}
    BadFrames = FALSE
    Main = Main
    None = None
SPECIFICATION Spec
INVARIANT PromisesFirst
CHECK_DEADLOCK FALSE
