SPECIFICATION Spec
CONSTANTS
    Workers = {w1, w2}
    Branches = {"berlin"}
    Projects = {"app"}
    OwnCodes = {9}
    Corrections = {0}
    Limit = 2
    MaxRows = 1
    MaxUsers = 4
    MaxCode = 3
SYMMETRY WorkerSymmetry
CONSTRAINT Explored
INVARIANTS
    TypeOK
    SequenceNeverBehind
    LimitOvershootBounded
    ReferencesExist
