SPECIFICATION Spec
CONSTANTS
    m1 = m1
    m2 = m2
    e1 = e1
    e2 = e2
    p1 = p1
    p2 = p2
    None = None
    Absent = Absent
    Members <- MCMembers
    Emails <- MCEmails
    Phones <- MCPhones
    FirstRows <- MCRows
    Codes = {c1, c2}
    Expiry = 0
    Threads = {t1, t2}
    MaxTime = 1
    MaxIssues = 2
    MaxEdits = 1
CONSTRAINT MCBound
SYMMETRY MCSymmetry
CHECK_DEADLOCK FALSE
INVARIANTS TypeOK BackedByACode RefusalHasACause
PROPERTIES CodesAreOneTime
