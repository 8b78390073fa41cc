SPECIFICATION Spec
CONSTANTS
    Procs = {p1, p2}
    Solo = p1
    Agents = {alice}
    Rooms = {r1, r2}
    IPs = {ip1}
    Minute = 1
    MaxAgent = 1
    MaxRoom = 1
    MaxIP = 2
    PolicyWindow = 2
    Block = 2
    MaxViolations = 2
    Modes = {TRUE, FALSE}
    MaxMessages = 2
    MaxRefusals = 2
    MaxClock = 2
    Nil = Nil
PROPERTY BlockHolds

CHECK_DEADLOCK FALSE
