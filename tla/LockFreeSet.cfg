SPECIFICATION FairSpec
CONSTANTS
    t1 = t1
    t2 = t2
    t3 = t3
    i1 = i1
    i2 = i2
    i3 = i3
    NULL = NULL
    Inserters = {t1, t2}
    Removers = {t1, t2, t3}
    Items = {i1, i2, i3}
    MaxInserts <- OneTwice
INVARIANTS
    TypeOK
    SetIntact
    NoAccessAfterRemove
PROPERTY ReturnsUnlessTurnedBack
CHECK_DEADLOCK FALSE
