CONSTANTS
    a = a
    b = b
    c1 = c1
    c2 = c2
    c3 = c3
    null = null
    MaxEvents = 3
    None = null
    Runs <- MCRuns
    Calls <- MCCalls
    Limits <- MCLimits
SPECIFICATION FairSpec
INVARIANTS
    TypeOK
    StreamIsOfSelection
    NoEventMissed
    QuietViewIsCurrent
PROPERTY EventsArrive
CHECK_DEADLOCK FALSE
