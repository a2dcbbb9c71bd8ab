SPECIFICATION Spec
CONSTANTS
    N = 2
    TotalBw = 20
    MinBandwidth = 2
    Pace = 2
    Ratio = 7
    Rates = {0, 9}
    Requests <- MCRequests
    DefaultRequest = 3
    DefaultPercent = 2
    MaxWrites = 1
    Concurrent = TRUE
INVARIANT GuaranteeKept
