SPECIFICATION Spec
CONSTANTS
    Custom = ""
    Foreign = {1, 3}
    MaxStarts = 3
INVARIANT InForce
CHECK_DEADLOCK FALSE
