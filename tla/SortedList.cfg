SPECIFICATION Spec
CONSTANTS
    t1 = t1
    t2 = t2
    c1 = c1
    c2 = c2
    NULL = NULL
    HEAD = HEAD
    Inserters = {t1}
    Setters = {t2}
    Deleters = {t2}
    Removers = {t1}
    Finders = {t2}
    Keys = {1, 2}
    Copies = {c1, c2}
    Loaded <- OneLoaded
    MaxSeq = 4
    MayFail = TRUE
    Reinsert = FALSE
INVARIANTS
    TypeOK
    WellFormed
    NumbersTrue
    MemorySafe
    NotFoundJustified
PROPERTY ImplementsKeyMap
CHECK_DEADLOCK FALSE
