SPECIFICATION Spec
CONSTANTS
    t1 = t1
    t2 = t2
    t3 = t3
    n1 = n1
    n2 = n2
    NULL = NULL
    Threads = {t1, t2, t3}
    Nodes = {n1, n2}
    MaxRecords = 1
    Thresholds = {1}
    Readers = {t1, t2}
    Retirers = {t1}
    Leavers = {t2, t3}
    OldestFirst = TRUE
    MayFail = FALSE
SYMMETRY NodesSymmetric
INVARIANTS
    RegistrySound
