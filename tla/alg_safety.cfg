SPECIFICATION Spec
CONSTANTS
    N = 3
    TotalBw = 10
    MinBandwidth = 3
    Pace = 2
    Ratio = 7
    Rates = {0, 3, 6}
    Requests <- MCRequests
    DefaultRequest = 3
    DefaultPercent = 2
    MaxWrites = 2
    Concurrent = FALSE
INVARIANTS
    TypeOK
    NoDivideByZero
    NoOvercommit
    GuaranteeFirst
