SPECIFICATION DaemonSpec
CONSTANTS
    a1 = a1
    a2 = a2
    ContainerIds = {c1, c2}
    ProcessIds <- Flows
    Ips = {a1, a2}
    Ports = {0, 7}
    MinFlowID = 1
    MaxFlowID = 1
    MinPodID = 2
    MaxPodID = 3
    MapSize = 3
    MaxRestarts = 0
    MaxLate = 0
    CniTimeout = FALSE
    EarlyRpc = FALSE
    None = None
SYMMETRY Symmetry
INVARIANTS
    TypeOK
    FlowTypeOK
    NoSharedId
    QosInForce
    NoResidue
    FlowInForce
    FlowNoResidue
PROPERTY
    ImplementsService
