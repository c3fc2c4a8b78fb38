SPECIFICATION FairSpec
CONSTANTS
    t1 = t1
    t2 = t2
    NULL = NULL
    Inserters = {t1, t2}
    Setters = {t2}
    Deleters = {t1}
    Finders = {t2}
    Snapshotters = {t1}
    Keys = {1, 2}
    Hash <- Identity
    InitialBuckets = 1
    MaxLevels = 3
    Loaded <- OneInOld
    MayFail = TRUE
    LateRaise = FALSE
    LateCount = FALSE
    BlindFind = FALSE
INVARIANTS
    TypeOK
    OneLevelPerKey
    CountsExact
    NotFoundJustified
    SnapshotComplete
PROPERTY CallsReturn
CHECK_DEADLOCK FALSE
