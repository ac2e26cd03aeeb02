SPECIFICATION Spec
CONSTANTS
    alice = alice
    bob = bob
    carol = carol
    r1 = r1
    c1 = c1
    c2 = c2
    p1 = p1
    p2 = p2
    k1 = k1
    k2 = k2
    k3 = k3
    a = a
    b = b
    i1 = i1
    i2 = i2
    None = None
SYMMETRY Symmetry
INVARIANTS
    TypeOK
    RotationIsSafe
    SecretsKeepTheirEpoch
    OneLog
    ObservationIsTrue
PROPERTIES
    RolesAreAccountable
CHECK_DEADLOCK FALSE
