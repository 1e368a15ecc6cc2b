SPECIFICATION HistorySpec
CONSTANTS
    Users = {"ana"}
    Types = {"paid", "sick"}
    Workers = {w1, w2}
    Days = {1, 2}
    Weekend = {2}
    Holidays = {}
    Rules <- ThreeRules
    Contracts = {"intern"}
    Policies <- StrictOrLenient
    Amounts = {2}
    MaxRequests = 2
CONSTRAINT Explored
SYMMETRY WorkerSymmetry
INVARIANTS
    TypeOK
PROPERTIES
    NoOverdraft
    OverridesKept
