SPECIFICATION Spec
CONSTANTS
    w1 = w1
    w2 = w2
    j1 = j1
    j2 = j2
    NoOwner = NoOwner
    NoLease = NoLease
    Workers <- MCWorkers
    Jobs <- MCJobs
    Recurring <- MCRecurring
    Handles <- MCHandles
    Skew <- MCNoSkew
    MaxAttempts = 2
    LockTimeout = 3
    ShutdownTimeout = 2
    BackoffBase = 1
    BackoffMax = 2
    MaxTime = 4
    MaxInc = 1
    MaxFaults = 0
INVARIANT DrainKeepsLease
CHECK_DEADLOCK FALSE
