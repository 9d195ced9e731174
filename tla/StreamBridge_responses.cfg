SPECIFICATION FairSpec
CONSTANTS
    Modes <- MCModes
    Heartbeat = 2
    Pre = 4
    Post = 3
    Errors = {"stall", "timeout", "reset"}
    SlowClient = TRUE
    Horizon = 4
    MaxQueue = 2
    MaxBurst = 2
    MaxPieces = 3
INVARIANTS TypeOK HeartbeatBetweenEvents NothingLost ClientHears BodyIsComplete WatchdogIsRightInTime
PROPERTY ResponseEnds
CHECK_DEADLOCK FALSE
