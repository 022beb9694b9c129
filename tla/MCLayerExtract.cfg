SPECIFICATION LayerSpec
CONSTANTS
    Entries <- MCEntries
    MaxEntries = 3
    LongestTarget = 3
    Whiteouts = {".wh.a"}
INVARIANTS
    LayerTypeOK
    LastEntryWins
    VerdictIsExact
PROPERTIES
    RemovesOnlyItsOwn
CHECK_DEADLOCK FALSE
