CONSTANTS
    Lanes = 2
SPECIFICATION Spec
INVARIANTS
    ResultOrCheckpoint
