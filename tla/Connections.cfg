CONSTANTS
    Flows <- TwoFlows
    Companies = {acme, bolt}
    Own = Own
    Workers = {w1, w2}
    NoHome = NoHome
    AutoProvision = FALSE
    MaxTokens = 2
    MaxRequests = 2
    MaxFaults = 1
SPECIFICATION Spec
SYMMETRY Symmetry
INVARIANTS
    DecisionHolds
    LatestTokenKept
    RefusalExplained
    SignedInWhereAsked
CHECK_DEADLOCK FALSE
