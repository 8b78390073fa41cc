SPECIFICATION Spec
CONSTANTS
    Agents = {alice, bob}
    Subs = {s1}
    Handlers = {h1}
    Timers = {t1}
    Buffer = 1
    TTLs = {1}
    MaxClock = 2
    Nil = Nil
INVARIANT TypeOK
INVARIANT PresenceHasTimer
INVARIANT NothingMissed
PROPERTY ExpireNotEarly
PROPERTY EndedOnce
PROPERTY PresenceEnds
