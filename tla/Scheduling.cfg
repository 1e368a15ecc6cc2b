SPECIFICATION SchedulingSpec
CONSTANTS
    Shifts = {s1, s2, s3, s4}
    Assignments = {a1, a2}
    Employees = {u1}
    Days = {d1}
    Prefix <- OnePrefix
    Payloads <- SomePayloads
    Radix = 2
    Threads = {w1, w2}
    Nothing = nothing
    MaxRequests = 5
INVARIANTS
    CodesExplained
    AssignmentsExplained
SYMMETRY Symmetry
CHECK_DEADLOCK FALSE
