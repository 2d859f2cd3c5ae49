SPECIFICATION Spec
CONSTANTS
    None = None
    Runs = {1, 2}
    Workspaces = {w1, w2}
    RequiresAction = {1}
    Offers <- MCOffers
    MaxSteps <- MCSteps
    MaxToolCalls <- MCToolCalls
    Home = w1
    MaxChanges = 2
INVARIANTS
    TypeOK
    ApprovalsAnswerable
    CompletedMeansActed
    QuestionOnDisk
    AnswerNotDiverted
PROPERTIES
    NothingStartsAfterTheEnd
    CancelledRunEnds
CHECK_DEADLOCK FALSE
