SPECIFICATION FairSpec
CONSTANTS
    Callers = {c1, c2}
    c1 = c1
    c2 = c2
    MemoryMayRunOut = TRUE
INVARIANTS
    NoUseAfterFree
    ResultIsVerdict
PROPERTIES
    KeepsContract
    CallsReturn
