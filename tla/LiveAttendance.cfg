SPECIFICATION Spec
CONSTANTS
    Members = {m1, m2}
    Sessions = {s1}
    Devices = {d1}
    NoDevice = NoDevice
    Nobody = Nobody
    Fenced = {s1}
    Modes = {"fingerprint", "localStorage"}
    Threads = {t1, t2}
    Asked <- MCAsked
    MaxMarks = 2
    Channels = {s1}
    Sockets = {c1, c2, c3}
    Watches <- MCWatches
    Casts <- MCCasts
CHECK_DEADLOCK FALSE
INVARIANTS TypeOK SelfCheckInIsGenuine MissesHaveACause NoKeyError
PROPERTIES CheckInsAreAtomic
CONSTRAINT MCBound
SYMMETRY Symmetry
