SPECIFICATION Spec
CONSTANTS
    f = f
    g = g
    p = p
    text = text
    Absent = Absent
    None = None
    Files = {f, g}
    Proposals = {p}
    Contents = {text}
    Changes <- MCChanges
    Calls = {c1, c2}
    KeptPoints = 4
    StartPoints <- MCStartPoints
    StartFiles <- MCStartFiles
    Limits <- MCLimits
    MaxSnaps = 2
INVARIANTS
    TypeOK
    OldContentKept
    IndexListsPoints
    IndexNewestFirst
    ApprovalIsCurrent
PROPERTIES
    PatchIsTransaction
    PointInUseStays
CHECK_DEADLOCK FALSE
SYMMETRY CallSymmetry
