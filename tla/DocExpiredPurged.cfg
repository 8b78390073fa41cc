SPECIFICATION Spec
CONSTANTS
    Handlers = {h1}
    Sweeper = sweeper
    Rooms = {r1}
    Expiring = {r1}
    Ops = {"send"}
    Nil = Nil
PROPERTY ExpiredRoomsPurged
CHECK_DEADLOCK FALSE
