CONSTANTS
    Lanes = 3
SPECIFICATION Spec
INVARIANTS
    TypeOK
    CleanedUp
    KeptWorktreeUsable
PROPERTIES
    CheckpointKept
