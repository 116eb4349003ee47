SPECIFICATION FairSpec
CONSTANTS
    Sweepers = {w1, w2}
    Requests = {r1, r2}
    Lead = 1
    DayLength = 3
    Retention = 1
    Starts <- MCStarts
    Ends <- MCEnds
    MaxRequests = 2
    MaxTime = 3
    Absent = Absent
INVARIANTS TypeOK PlanIsCurrent
PROPERTIES UntouchedAdvanceOneDueStep UndisturbedCreateIsExclusive EventuallyArchived
