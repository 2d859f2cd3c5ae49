CONSTANTS
    q1 = q1
    q2 = q2
    none = none
    ListLimit = 2
    MaxRuns = 3
    MaxOrdinal = 2
    MaxPlans = 2
    MaxRestarts = 1
    MaxFailures = 1
    Requests <- MCRequests1
    None = none
SPECIFICATION MCSpec
INVARIANTS
    TypeOK
    AtMostOneActiveStep
    StepRunsAtMostOnce
    StepsInOrder
    StepBudgetKept
    ActiveStepSupervised
PROPERTY RunningRunSettles
CHECK_DEADLOCK FALSE
