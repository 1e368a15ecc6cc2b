SPECIFICATION HistorySpec
CONSTANTS
    Users = {"ana"}
    Workers = {w1, w2}
    Times = {1, 2}
    DayOf <- OneDay
    Today = 1
    Wishes <- SomeWishes
    Periods <- OnePeriod
    MaxEntries = 3
    MaxBreaks = 3
    MaxCorrections = 3
    MaxLocks = 2
SYMMETRY WorkerSymmetry
CONSTRAINT Explored
INVARIANTS
    InsertsBounded
    NoStrayApproval
    MinutesCurrent
    LockedHasLock
PROPERTIES
    LockedDaysFrozen
