SPECIFICATION DequeuingSpec
CONSTANTS
    p1 = p1
    p2 = p2
    p3 = p3
    i1 = i1
    i2 = i2
    i3 = i3
    NULL = NULL
    Producers = {p1, p2, p3}
    Items = {i1, i2, i3}
INVARIANTS
    TypeOK
PROPERTIES
    ImplementsFifo
    SomeEnqueueReturns
    EveryItemDequeued
