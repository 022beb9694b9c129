SPECIFICATION Spec
CONSTANTS
    Runs = {r1, r2}
    r1 = r1
    r2 = r2
    Guest = Guest
    MaxNetworks = 1
    SeqModulus = 3
    MaxFaults = 0
INVARIANTS
    KernelRemovalIsNoFailure
