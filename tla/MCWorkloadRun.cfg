SPECIFICATION Spec
CONSTANTS
    Runs = {r1, r2, r3}
    r1 = r1
    r2 = r2
    r3 = r3
    Guest = Guest
    MaxNetworks = 2
    SeqModulus = 4
    MaxFaults = 2
SYMMETRY RunSymmetry
INVARIANTS
    WorkloadHasNetwork
    LiveSubnetsDisjoint
    CleanupComplete
    NoRunAfterGiveUp
    NoEarlyExhaustion
    DrawnSlotsAreSound
PROPERTIES
    OnlyOwnerDeletes
    KeepsContract
