CONSTANTS
    N = 2
    Scenarios <- MCFailingStep
SPECIFICATION FairSpec
INVARIANTS
    ErrorLeavesBatchUndecided
