SPECIFICATION Spec
CONSTANTS
    Sessions = {s1, s2}
    Slots = {a1}
    Dispatchers = {d1, d2}
    Ahead = 1
    Window = 2
    Starts <- MCStarts
    Absent = Absent
    MaxTime = 3
    MaxEdits = 1
    MaxFaults = 1
SYMMETRY Symmetric
INVARIANTS TypeOK MarkedIsAnnounced DuplicateHasACause NoSessionMissed
