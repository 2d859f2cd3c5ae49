SPECIFICATION Spec
CONSTANTS
    None = None
    SlotOrder <- MCSlotOrder
    Limits <- MCLimits
    m1 = m1
    m2 = m2
    Models = {m1, m2}
    Ticks = {t1, t2}
    Sends = {1, 2}
    Panel = panel
    MaxAttempts = 2
    Route <- MCRoute
    Images = {1}
    Reviews = {2}
INVARIANTS
    TypeOK
    StatusTellsTheProcess
    FreeWhenDone
    CancelReachesTheRun
PROPERTIES
    HistoryWrittenOnce
    BusyEnds
    ErrorIsActedOn
CHECK_DEADLOCK FALSE
