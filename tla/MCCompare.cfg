CONSTANTS
    Names <- MCNames
    Project = 0
    Specs = {"v1", "v2", "url", "=r1", "=r2"}
    Foreign = {"url"}
    Versions = {"r1", "r2", "ref"}
    Exact <- MCExact
    BaseManifests <- MCBaseManifests
    TargetManifests <- MCTargetManifests
    BaseLocks <- MCBaseLocks
    TargetLocks <- MCTargetLocks
    Overrides = {"none", "cargo"}
    MaxListed = 1
SPECIFICATION Spec
INVARIANTS
    TypeOK
    CandidateIsItsSubset
    ChangesAreDistinct
    NoDriftUnreported
    ResolutionHasNoOrder
    ManagerIsUnambiguous
