SPECIFICATION Spec
CONSTANTS
    Layouts <- MCLayouts
    Requests <- MCRequests
    Digests <- MCDigests
    IdLimit = 4
    NoBundle = NoBundle
INVARIANTS
    TypeOK
    BundleIsTheImage
    RefusalHasCause
    
PROPERTIES
    KeepsContract
CHECK_DEADLOCK FALSE
