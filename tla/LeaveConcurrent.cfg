SPECIFICATION Spec
CONSTANTS
    Users = {"ana"}
    Types = {"paid"}
    Workers = {w1, w2}
    Days = {1}
    Weekend = {1}
    Holidays = {}
    Rules <- OneRule
    Contracts = {"permanent"}
    Policies <- StrictOrChain
    Amounts = {}
    MaxRequests = 3
CONSTRAINT Explored
SYMMETRY WorkerSymmetry
INVARIANTS
    DayClaimsBounded
    LevelsSigned
PROPERTIES
    LifecycleKept
