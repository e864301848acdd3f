SPECIFICATION Spec
CONSTANTS
    Processes = {p1, p2}
    Keys = {"a"}
    Early <- MCEarly
    Slots = 1
    MaxTime = 3
    MaxAdds = 0
INVARIANT UpdatesStand
CHECK_DEADLOCK FALSE
