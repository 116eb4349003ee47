SPECIFICATION Spec
CONSTANTS
    m1 = m1
    m2 = m2
    m3 = m3
    cantor = cantor
    None = None
    N = 3
    K = 2
    SundayFilter = TRUE
    Members <- MCMembers
    OtherRoles <- MCOtherRoles
    Qualifier <- MCQualifier
    Days <- MCDays
    Day <- MCDay
    Sundays <- MCSundays
    MonthDays <- MCMonthDays
    HoldsInputs <- MCHolds
    ActiveInputs <- MCActive
    OptOutInputs <- MCOptOut
    DayOffInputs <- MCDayOff
    RequiredInputs <- MCRequired
    OverrideInputs <- MCOverride
CHECK_DEADLOCK FALSE
INVARIANTS TypeOK NobodyTwice ServesRightly VacantOnlyIfNobodyLeft TwinsStayBalanced
