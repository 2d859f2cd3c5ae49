SPECIFICATION Spec
CONSTANTS
    None = None
    Runs = {1}
    Workspaces = {w1}
    RequiresAction = {}
    Offers <- MCOffers
    MaxSteps <- MCSteps
    MaxToolCalls <- MCToolCalls
    Home = w1
    MaxChanges = 0
INVARIANT
    ReasonTellsTheEnd
CHECK_DEADLOCK FALSE
