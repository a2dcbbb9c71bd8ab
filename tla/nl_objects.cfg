CONSTANTS
    MaxFields = 3
    MaxCalls = 2
SPECIFICATION Spec
INVARIANT ReadBack
INVARIANT FilterHonoured
