SPECIFICATION Spec
CONSTANTS
    Agents = {alice, bob}
    Owner = alice
    Nil = Nil
    Requests = {q1, q2}
    Viewers = {v1}
    Subscribed = {}
    Ops = {"join", "view", "beat", "leave", "fetch", "token", "auth", "send"}
    Keyless = FALSE
    MaxTurns = 1
    TTL = 0
    Grace = 1
    Cap = 2
    HeartbeatTimeout = 1
    CodeTTL = 1
    MaxNow = 1
    TokenTTL = 2
    RefreshWithin = 1
    MaxTokens = 1
SYMMETRY ReqSymmetry
PROPERTY RevokedStaysRevoked
