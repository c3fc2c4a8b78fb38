SPECIFICATION FairSpec
CONSTANTS
    t1 = t1
    t2 = t2
    t3 = t3
    i1 = i1
    i2 = i2
    i3 = i3
    NULL = NULL
    HEAD = HEAD
    Inserters = {t1}
    Deleters = {t2, t3}
    Finders = {t2}
    Items = {i1, i2}
    MayFail = TRUE
    Reuse = FALSE
    RereadsNext = FALSE
PROPERTIES
    CallsReturn
CHECK_DEADLOCK FALSE
