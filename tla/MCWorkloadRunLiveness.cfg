SPECIFICATION FairSpec
CONSTANTS
    Runs = {r1, r2}
    r1 = r1
    r2 = r2
    Guest = Guest
    MaxNetworks = 2
    SeqModulus = 3
    MaxFaults = 2
PROPERTIES
    EveryRunReturns
