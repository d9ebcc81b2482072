SPECIFICATION Spec
CONSTANTS
    w1 = w1
    w2 = w2
    j1 = j1
    j2 = j2
    NoOwner = NoOwner
    NoLease = NoLease
    Workers <- MCWorkers
    Jobs <- MCJobs
    Recurring <- MCRecurring
    Handles <- MCHandles
    Skew <- MCSkew
    MaxAttempts = 2
    LockTimeout = 1
    ShutdownTimeout = 1
    BackoffBase = 1
    BackoffMax = 2
    MaxTime = 2
    MaxInc = 1
    MaxFaults = 1
INVARIANTS
    QueueInv
    AttemptsAreOwned
    LeasesHold
PROPERTIES
    LostLeaseStaysLost
    Lifecycle
CHECK_DEADLOCK FALSE
