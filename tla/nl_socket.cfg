SPECIFICATION Spec
CONSTANTS
    Threads = {t1, t2}
    Shared = Shared
    None = None
    MaxShared = 2
    MaxPrivate = 1
    MaxFaults = 1
    Parts = 2
INVARIANTS
    TypeOK
    OwnAnswer
    OwnErrno
PROPERTY ExecuteReturns
