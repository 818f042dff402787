\* The defaults of index.ts.
SPECIFICATION FairSpec
CONSTANTS
    MaxReconnectAttempts = 10
    HeartbeatTimeoutCount = 3
INVARIANTS
    OneListenedTo
    LeftBounded
    NeverIdle
PROPERTY
    Recovers
\* The client may have given up, or the Gateway be down.
CHECK_DEADLOCK FALSE
