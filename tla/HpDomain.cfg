SPECIFICATION Spec
CONSTANTS
    t1 = t1
    t2 = t2
    t3 = t3
    n1 = n1
    n2 = n2
    NULL = NULL
    Threads = {t1, t2}
    Nodes = {n1, n2}
    MaxRecords = 2
    Thresholds = {1, 2}
    Readers = {t1, t2}
    Retirers = {t1, t2}
    Leavers = {t1, t2}
    OldestFirst = TRUE
    MayFail = TRUE
SYMMETRY AllSymmetric
INVARIANTS
    TypeOK
    ProtectedNotReclaimed
    RecordListsAgree
    EachNodeOnce
    DestroyReclaimsAll
