SPECIFICATION Spec
CONSTANTS
    t1 = t1
    t2 = t2
    NULL = NULL
    Inserters = {t1, t2}
    Setters = {t1}
    Deleters = {}
    Finders = {}
    Snapshotters = {}
    Keys = {1, 2}
    Hash <- Identity
    InitialBuckets = 1
    MaxLevels = 2
    Loaded <- Nothing
    MayFail = FALSE
    LateRaise = TRUE
    LateCount = FALSE
    BlindFind = FALSE
INVARIANT OneLevelPerKey
CHECK_DEADLOCK FALSE
