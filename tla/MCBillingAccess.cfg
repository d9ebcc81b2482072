SPECIFICATION Spec
CONSTANTS
    u1 = u1
    s1 = s1
    s2 = s2
    r1 = r1
    r2 = r2
    e1 = e1
    e2 = e2
    NoDate = NoDate
    NoSub = NoSub
    NoEvent = NoEvent
    Subjects = {u1}
    Subs <- MCSubs
    Owner <- MCOwner
    Requests <- MCRequests
    Events <- MCEvents
    PeriodDays = 1
    LockWait = 1
    MaxTime = 1
SYMMETRY Symmetry
INVARIANT PaidPeriodGrants
CHECK_DEADLOCK FALSE
