SPECIFICATION FairSpec
CONSTANTS
    Sessions = 3
    Names = {b1, b2, b3, b4}
    b1 = b1
    b2 = b2
    b3 = b3
    b4 = b4
    NoName = NoName
    CpuLimit = 4
    MemoryLimit = 8
    MiB = 2
    Options <- MCOptions
INVARIANTS
    RootfsIsFresh
    OutputIsGenuine
    LeftoverHasCause
    HandleOwnsObjects
    MachineAsAsked
PROPERTIES
    SessionSettles
CHECK_DEADLOCK FALSE
