SPECIFICATION FaultSpec
CONSTANTS
    ContainerIds = {c1, c2}
    ProcessIds = {}
    Ips = {a1}
    Ports = {}
    MinFlowID = 0
    MaxFlowID = 0
    MinPodID = 1
    MaxPodID = 1
    MapSize = 1
    None = None
    MaxRestarts = 1
    MaxLate = 1
    CniTimeout = TRUE
    EarlyRpc = TRUE
SYMMETRY Symmetry
INVARIANT StaysClassified
CHECK_DEADLOCK FALSE
