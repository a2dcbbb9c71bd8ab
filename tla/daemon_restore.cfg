SPECIFICATION FaultSpec
CONSTANTS
    ContainerIds = {c1, c2}
    ProcessIds = {}
    Ips = {a1, a2}
    Ports = {}
    MinFlowID = 0
    MaxFlowID = 0
    MinPodID = 1
    MaxPodID = 2
    MapSize = 3
    None = None
    MaxRestarts = 1
    MaxLate = 0
    CniTimeout = FALSE
    EarlyRpc = FALSE
INVARIANT RestoredInForce
CHECK_DEADLOCK FALSE
