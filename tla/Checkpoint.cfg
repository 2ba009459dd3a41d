CONSTANTS
    Subsets = {s1, s2}
    Fingerprints = {f1, f2}
    Outcomes = {pass, fail}
    MaxProcesses = 3
SPECIFICATION Spec
INVARIANTS
    TypeOK
    RestoredTrialsAreReal
    SavedTrialsSurvive
CHECK_DEADLOCK FALSE
