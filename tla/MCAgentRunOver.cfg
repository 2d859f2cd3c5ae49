CONSTANTS
    q1 = q1
    q2 = q2
    none = none
    ListLimit = 20
    MaxRuns = 1
    MaxOrdinal = 1
    MaxPlans = 1
    MaxRestarts = 0
    MaxFailures = 0
    Requests <- MCRequests1
    None = none
SPECIFICATION Spec
PROPERTY OverIsOver
CHECK_DEADLOCK FALSE
