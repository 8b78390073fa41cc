SPECIFICATION Spec
CONSTANTS
    Clients = {k1, k2}
    Writers = {w1, w2}
    Buffer = 1
    Limit = 1
    MaxEvents = 2
    Batch = {1, 2}
    MaxActive = 1
    MaxConnects = 2
    LeaseTTL = 1
    MaxClock = 1
INVARIANT TypeOK
INVARIANT InOrderOnce
INVARIANT LiveCoversLog
INVARIANT SlotPerStream
PROPERTY DroppedStreamsEnd
