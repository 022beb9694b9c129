SPECIFICATION Spec
CONSTANTS
    Threads = {t1, t2, t3}
    t1 = t1
    t2 = t2
    t3 = t3
    LastCap = 5
    SetGid = 1
    SetUid = 2
    SetPcap = 3
    SysAdmin = 4
INVARIANTS
    WorkloadUnprivileged
    MountsSeparate
    OrderWorks
