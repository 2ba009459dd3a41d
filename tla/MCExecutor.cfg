CONSTANTS
    N = 3
    Scenarios <- MCScenarios
SPECIFICATION FairSpec
INVARIANTS
    TypeOK
    TrialMeasuresItsSubset
    NeverEvaluatedTwice
    ProvenIsOneMinimal
    LanesConserved
    RootCauseReported
    MinimalityServedFromMemo
    CheckpointComplete
PROPERTIES
    RefinesDdmin
    SavedVerdictsKept
    RunEnds
