CONSTANTS
    w1 = w1
    w2 = w2
    r1 = r1
    q1 = q1
    poller = poller
    null = null
    MaxJobs = 1
    MaxTries = 1
    MaxPriority = 1
    Workers <- MCWorkers1
    Roles <- MCRoles
    Requests <- MCRequests
    Poller = poller
    None = null
SPECIFICATION FairSpec
PROPERTY NoJobClogged
CHECK_DEADLOCK FALSE
