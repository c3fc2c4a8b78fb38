SPECIFICATION FairSpec
CONSTANTS
    w1 = w1
    w2 = w2
    l1 = l1
    l2 = l2
    Writers = {w1, w2}
    Lockers = {l1, l2}
    MaxLocks = 2
    Spurious = TRUE
INVARIANTS
    TypeOK
    NoMissedWake
PROPERTIES
    ImplementsGroupLock
    BothGetThrough
