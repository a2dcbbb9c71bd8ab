SPECIFICATION Spec
CONSTANTS
    Processes = {p1, p2}
    NumDevices = 2
    DefaultQdisc = "fq_codel"
    LOWEST_BANDWIDTH = 1
    DEFAULT_LOW_BANDWIDTH = 2
    DEFAULT_WATERLINE = 2
    DEFAULT_HIGH_BANDWIDTH = 3
    HIGHEST_BANDWIDTH = 3
    Bandwidths = {0, 3}
    Hosts <- MCHosts
    MaxCommands = 3
    MaxFaults = 1
SYMMETRY Symmetry
INVARIANTS
    TypeOK
    ConfigSound
    ForeignKept
    AsTold
    ShownInForce
PROPERTY RollbackComplete
CHECK_DEADLOCK FALSE
