SPECIFICATION LimiterSpec
CONSTANTS
    Ips = {ip1}
    Kinds <- MCKinds
    Limit <- MCLimit
    Window <- MCWindow
    LastTick = 4
    MaxAttempts = 6
CHECK_DEADLOCK FALSE
INVARIANTS EveryWindowIsEnforced
