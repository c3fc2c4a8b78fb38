SPECIFICATION Spec
CONSTANTS
    t1 = t1
    t2 = t2
    n1 = n1
    n2 = n2
    n3 = n3
    n4 = n4
    NULL = NULL
    Threads = {t1, t2}
    Keys = {1, 2, 3}
    Nodes = {n1, n2, n3, n4}
    Sizes = {1, 2, 4}
    Capacity = 3
    IntMax = 5
    MayFail = TRUE
SYMMETRY AllSymmetric
INVARIANTS
    TypeOK
    SizeExact
    WithinCapacity
    HandlesAccounted
PROPERTY ImplementsLru
CHECK_DEADLOCK FALSE
