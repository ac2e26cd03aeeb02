SPECIFICATION Spec
CONSTANTS
    k1 = k1
    k2 = k2
    i1 = i1
    w1 = w1
    e1 = e1
    e2 = e2
    e3 = e3
    r1 = r1
    c1 = c1
    c2 = c2
    j1 = j1
    p1 = p1
    None = None
PROPERTIES
    AdmittedIsClosed
    ListenerWindsDown
    TrustSettles
    RequestsEnd
CHECK_DEADLOCK FALSE
