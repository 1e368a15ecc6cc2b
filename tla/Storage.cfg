SPECIFICATION StorageSpec
CONSTANTS
    Keys = {k1, k2}
    Users = {u1}
    Company <- OneCompany
    EventLoop = loop
    Pool = {t1, t2}
    NoKey = nokey
    NoUser = nouser
    MaxFaults = 2
INVARIANTS
    RowsMatchObjects
SYMMETRY Symmetry
CHECK_DEADLOCK FALSE
