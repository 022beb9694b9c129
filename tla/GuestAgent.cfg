SPECIFICATION FairSpec
CONSTANTS
    Connections = {c1, c2}
    c1 = c1
    c2 = c2
    Pings = {p1}
    p1 = p1
    Runs = {q1, q2}
    q1 = q1
    q2 = q2
    Unknown = {}
    Garbled = {g1}
    g1 = g1
    Backlog = 1
    MaxFaults = 1
INVARIANTS
    AnswersAreTrue
PROPERTIES
    KeepsContract
    RequestsSettled
CHECK_DEADLOCK FALSE
