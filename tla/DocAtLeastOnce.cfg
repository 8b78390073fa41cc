SPECIFICATION Spec
CONSTANTS
    Rooms = {r1, r2}
    Timers = {}
    Page = 1
    Window = 1
    MaxKeys = 2
    MaxTurn = 0
    MaxClock = 0
    MaxFaults = 0
    Nil = Nil
PROPERTY AtLeastOnce
CHECK_DEADLOCK FALSE
