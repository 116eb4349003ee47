SPECIFICATION Spec
CONSTANTS
    m1 = m1
    m2 = m2
    m3 = m3
    e1 = e1
    e2 = e2
    e3 = e3
    r1 = r1
    p1 = p1
    None = None
    Unset = Unset
    Unborn = Unborn
    Gone = Gone
    Members <- MCMembers
    Emails <- MCEmails
    Names = {n1}
    Numbers = {n2}
    Roles = {r1}
    Permissions = {p1}
    Default = {p1}
    FirstRows <- MCRows
    FirstGrants <- MCGrants
    Creations <- MCCreations
    Updates <- MCUpdates
    Threads = {t1, t2}
    MaxRequests = 3
    MaxMarks = 1
CONSTRAINT MCBound
SYMMETRY MCSymmetry
CHECK_DEADLOCK FALSE
INVARIANTS TypeOK NameClashOnlyIfRaced GrantsAreAsAsked ErrorsHaveACause
