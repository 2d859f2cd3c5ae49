SPECIFICATION SlotsSpec
CONSTANTS
    None = None
    SlotOrder <- MCSlotOrder
    Limits <- MCLimits
    Models = {m1}
    Ticks = {t1}
    Sends = {}
    Panel = panel
    MaxAttempts = 3
PROPERTIES
    CrashIsRestarted
CHECK_DEADLOCK FALSE
