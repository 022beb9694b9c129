SPECIFICATION Spec
CONSTANTS
    Requests <- MCRequests
    PageSize = 2
    MaxMemory = 8
    MaxPids = 2
    MinTime = 2
    MaxTime = 4
    MaxFaults = 2
INVARIANTS
    LimitsInForce
    RefusalHasCause
PROPERTIES
    KeepsContract
CHECK_DEADLOCK FALSE
