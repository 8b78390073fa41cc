SPECIFICATION Spec
CONSTANTS
    Workers = {w1, w2}
    Lanes = {l1}
    MaxRows = 2
    MaxFaults = 1
    Batch = 2
    MaxAttempts = 3
    Stale = 1
    BaseBackoff = 1
    MaxBackoff = 2
CHECK_DEADLOCK FALSE
INVARIANT TypeOK
INVARIANT NoOvertaking
INVARIANT SettledForAReason
PROPERTY RowsSettle
