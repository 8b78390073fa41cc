SPECIFICATION Spec
CONSTANTS
    Rooms = {r1}
    Timers = {"t1"}
    Page = 1
    Window = 1
    MaxKeys = 1
    MaxTurn = 2
    MaxClock = 1
    MaxFaults = 1
    Nil = Nil
INVARIANT TypeOK AckedIsDurable
PROPERTY AtLeastOnce
CHECK_DEADLOCK FALSE
