CONSTANTS
    q1 = q1
    q2 = q2
    none = none
    ListLimit = 20
    MaxRuns = 1
    MaxOrdinal = 2
    MaxPlans = 1
    MaxRestarts = 1
    MaxFailures = 0
    Requests <- MCRequests1
    None = none
SPECIFICATION FairSpec
PROPERTY ResumedRunGoesOn
CHECK_DEADLOCK FALSE
