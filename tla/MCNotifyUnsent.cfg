SPECIFICATION NotifySpec
CONSTANTS
    w1 = w1
    w2 = w2
    j1 = j1
    NoOwner = NoOwner
    NoLease = NoLease
    Workers <- MCWorkers
    Jobs <- MCJobs
    Recurring = {}
    Handles <- MCHandles
    Skew <- MCSkew
    MaxAttempts = 2
    LockTimeout = 2
    ClaimLock = 2
    ShutdownTimeout = 1
    BackoffBase = 1
    BackoffMax = 1
    MaxTime = 3
    MaxInc = 1
    MaxFaults = 0
    MaxErrors = 1
SYMMETRY Symmetry
INVARIANT NothingReportedUnsent
CHECK_DEADLOCK FALSE
