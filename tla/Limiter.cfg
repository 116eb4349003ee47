SPECIFICATION LimiterSpec
CONSTANTS
    Ips = {ip1, ip2}
    Kinds <- MCKinds
    Limit <- MCLimit
    Window <- MCWindow
    LastTick = 4
    MaxAttempts = 6
CHECK_DEADLOCK FALSE
SYMMETRY Symmetry
INVARIANTS LimiterTypeOK ShortestWindowIsEnforced RefusalIsEarned
