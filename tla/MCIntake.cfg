SPECIFICATION Spec
CONSTANTS
    k1 = k1
    k2 = k2
    i1 = i1
    i2 = i2
    w1 = w1
    w2 = w2
    e1 = e1
    e2 = e2
    e3 = e3
    t1 = t1
    t2 = t2
    d1 = d1
SYMMETRY Symmetry
INVARIANTS
    TypeOK
    QueueHolds
    ListenerIsHonest
PROPERTIES
    ImplementsReceipts
    CompletionCoversRequests
    TokensAreCurrent
CHECK_DEADLOCK FALSE
