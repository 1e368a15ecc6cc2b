CONSTANTS
    Users <- ThreeUsers
    Permissions = {read}
    Workers = {w1, w2}
    Nobody = Nobody
    MaxRequests = 3
SPECIFICATION Spec
SYMMETRY Workforce
INVARIANTS
    OwnershipNeverSpreads
    OwnerRemains
    RightsAsGiven
    
    SeenFromBothEnds
CHECK_DEADLOCK FALSE
