SPECIFICATION Spec
CONSTANTS
    Workers = {w1, w2}
    MaxAttempts = 2
    LockTime = 1
    MaxFailures = 3
    MaxSessions = 2
    MaxMails = 2
    MaxCodes = 2
    MaxTime = 1
SYMMETRY WorkerSymmetry
CONSTRAINT Pairwise
INVARIANTS
    TokensWearOut
    UserRowSound
PROPERTIES
    RevokedStaysRevoked
