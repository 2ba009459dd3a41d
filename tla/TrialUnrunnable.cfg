CONSTANTS
    Runs = 1
SPECIFICATION Spec
INVARIANTS
    UnrunnableIsNoFailure
