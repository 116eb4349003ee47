SPECIFICATION Spec
CONSTANTS
    morning = morning
    evening = evening
    m1 = m1
    m2 = m2
    singer = singer
    driver = driver
    Roles <- MCRoles
    Members = {m1, m2}
    Markers = {m1}
    Rosters <- MCRosters
    Threads = {t1, t2}
    MaxRequests = 4
    Sessions <- MCSessions
    Days <- MCDays
    Months <- MCMonths
    UtcDay <- MCUtcDay
    LocalDay <- MCLocalDay
    MonthOf <- MCMonthOf
    Active = {m1}
    Assignable = {singer}
    WithEmail = {m1, m2}
    RolesOf <- MCRolesOf
    Upcoming <- MCSessions
    Rehearsals = {evening}
    DayNumber <- MCDayNumber
    LastDay <- MCLastDay
CHECK_DEADLOCK FALSE
INVARIANTS TypeOK DayAndSessionsAgree MixedOnlyIfRaced SavedIsShownLocked MarkIsShownEverywhere
PROPERTIES LateMarksBeganBeforeTheLock OnlyAdminUnlocks
