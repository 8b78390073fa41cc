SPECIFICATION Spec
CONSTANTS
    Agents = {alice, bob}
    Owner = alice
    Nil = Nil
    Requests = {q1, q2}
    Viewers = {}
    Subscribed = {alice, bob}
    Ops = {"send", "close", "read"}
    Keyless = TRUE
    MaxTurns = 2
    TTL = 0
    Grace = 1
    Cap = 2
    HeartbeatTimeout = 1
    CodeTTL = 3
    MaxNow = 2
    TokenTTL = 2
    RefreshWithin = 1
    MaxTokens = 0
SYMMETRY ReqSymmetry
INVARIANT TypeOK
INVARIANT TurnLock
INVARIANT RowAgrees
INVARIANT EveryoneTold
INVARIANT EventLogReplaysTurns
INVARIANT OutboxFollowsEvents
INVARIANT ContextNeverAhead
PROPERTY NoRevivalOncePaired
PROPERTY NoLostRowUpdate
PROPERTY ConversationSpec
