CONSTANTS
    Runs = 2
SPECIFICATION Spec
INVARIANTS
    TypeOK
    FailMeansEveryRunFailed
    CancellationIsNoVerdict
    MessageNamesTheCause
PROPERTIES
    TrialEnds
