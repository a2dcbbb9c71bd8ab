SPECIFICATION Spec
CONSTANTS
    Custom = "DAHUA"
    Foreign = {1, 3}
    MaxStarts = 3
INVARIANTS
    TypeOK
    InForce
    NoDeadRedirect
    CleanStop
CHECK_DEADLOCK FALSE
