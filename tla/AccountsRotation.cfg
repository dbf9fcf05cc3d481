SPECIFICATION AccountsSpec
CONSTANTS
    Calls = {q1, q2, q3}
    Jobs = {}
    First = First
    MaxPerHour = 1
    Concurrency = 1
    MaxAttempts = 2
    MaxAccountFaults = 0
    MaxLapses = 0
INVARIANT OneLiveTokenPerFamily
CHECK_DEADLOCK FALSE
