CONSTANTS
    w1 = w1
    w2 = w2
    r1 = r1
    q1 = q1
    poller = poller
    null = null
    MaxJobs = 1
    MaxTries = 2
    MaxPriority = 1
    Workers <- MCWorkers
    Roles <- MCRoles
    Requests <- MCRequests
    Poller = poller
    None = null
SPECIFICATION FairSpec
INVARIANTS
    TypeOK
    AttemptsWithinBudget
    UntouchedUntilClaimed
    AuditTrailSound
    NoOrphanRows
PROPERTIES
    HandoverThroughQueue
    ExpiredLeaseReclaimed
CHECK_DEADLOCK FALSE
