SPECIFICATION FairSpec
CONSTANTS
    Probes = {p1}
    p1 = p1
    Others = {o1}
    o1 = o1
    RequestLength = 2
    Deadline = 2
INVARIANTS
    ReadyMeansAnswered
    OnlyBrokenProbesFail
PROPERTIES
    ChecksEnd
CHECK_DEADLOCK FALSE
