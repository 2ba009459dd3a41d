CONSTANTS
    Workers = {w1, w2, w3}
    Trials = 5
SPECIFICATION Spec
INVARIANTS
    TypeOK
    RowsAreWhole
PROPERTIES
    AnimationEnds
