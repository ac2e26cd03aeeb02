SPECIFICATION Spec
CONSTANTS
    b1 = b1
    b2 = b2
    e1 = e1
    e2 = e2
    c1 = c1
    c2 = c2
    j1 = j1
    p1 = p1
    p2 = p2
    k1 = k1
    k2 = k2
    r1 = r1
    r2 = r2
    None = None
SYMMETRY Symmetry
INVARIANTS
    TypeOK
    AnswersAreTrue
PROPERTIES
    VaultIsCurrent
    ImplementsOneUse
    TrustIsCurrent
CHECK_DEADLOCK FALSE
