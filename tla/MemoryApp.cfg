SPECIFICATION Spec
CONSTANTS
    Agents = {alice, bob, carol}
    Owner = alice
    Viewers = {v1}
    Handlers = {h1, h2}
    MaxTurns = 2
    TTL = 1
    Grace = 1
    Retention = 2
    HeartbeatTimeout = 0
    CodeTTL = 1
    MaxNow = 3
    MaxTurn = 3
    Nil = Nil
INVARIANT TypeOK TurnsInOrder
PROPERTY PeerNeverChanges
CHECK_DEADLOCK FALSE
