SPECIFICATION FaultSpec
CONSTANTS
    ContainerIds = {c1}
    ProcessIds = {}
    Ips = {a1}
    Ports = {}
    MinFlowID = 0
    MaxFlowID = 0
    MinPodID = 1
    MaxPodID = 1
    MapSize = 2
    None = None
    MaxRestarts = 2
    MaxLate = 1
    CniTimeout = TRUE
    EarlyRpc = TRUE
PROPERTY DelReclaims
CHECK_DEADLOCK FALSE
