\* The documentation on the number of reconnections it promises.
SPECIFICATION FairSpec
CONSTANTS
    MaxReconnectAttempts = 10
    HeartbeatTimeoutCount = 3
INVARIANT
    FullBudget
\* The client may have given up, or the Gateway be down.
CHECK_DEADLOCK FALSE
