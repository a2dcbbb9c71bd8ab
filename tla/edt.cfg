SPECIFICATION Spec
CONSTANTS
    CPUs = {p1, p2}
    Kinds = {"udp", "tcp"}
    Stamps = {0, 1}
    Delay = 2
    MaxDelay = 2
    Interval = 1
    LowRate = 1
    Scale = 2
    Word = 16
    MaxTime = 4
    MaxPkts = 5
SYMMETRY Symmetry
INVARIANTS
    TypeOK
    BytesAccounted
    BacklogBounded
PROPERTY Paced
CHECK_DEADLOCK FALSE
