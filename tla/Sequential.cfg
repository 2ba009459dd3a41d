CONSTANTS
    N = 5
    Outcomes = {"pass", "fail"}
SPECIFICATION FairSpec
INVARIANTS
    TypeOK
    GranularityInRange
    OrderPreserved
    CurrentFails
    OneMinimal
    BatchesAreTheCodes
    ScheduleIndependent
PROPERTIES
    Terminates
