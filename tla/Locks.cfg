SPECIFICATION Spec
CONSTANTS
    Handlers = {h1, h2}
    Sweeper = sweeper
    Rooms = {r1}
    Expiring = {r1}
    Ops = {"read", "history", "join", "send", "close"}
    Nil = Nil
INVARIANT TypeOK
INVARIANT LockOrder
INVARIANT OnlyReentryBlocks
PROPERTY RequestsReturn
PROPERTY ClosedRoomsPurged
CHECK_DEADLOCK FALSE
