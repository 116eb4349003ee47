SPECIFICATION Spec
CONSTANTS
    fortnightly = fortnightly
    fifth = fifth
    weekly = weekly
    loose = loose
    monthly = monthly
    daily = daily
    paused = paused
    None = None
    LastMonth = 3
    First <- MCFirst
    Weekday0 = 3
    Templates <- MCTemplates
    Kind <- MCKind
    Ranges <- MCRanges
    Threads = {g1, g2}
    MaxRuns = 2
    MaxEdits = 1
CONSTRAINT MCBound
SYMMETRY MCSymmetry
CHECK_DEADLOCK FALSE
INVARIANTS TypeOK CadenceIsKept DoublesHaveACause
