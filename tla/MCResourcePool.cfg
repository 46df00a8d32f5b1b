CONSTANTS
    c1 = c1
    c2 = c2
    c3 = c3
    r1 = r1
    m1 = m1
    m2 = m2
    m3 = m3
    Nil = Nil
    Clients = {c1, c2, c3}
    Resizers = {r1}
    Resources = {m1, m2, m3}
    MaxCap = 2
    InitCap = 2
    HasIdleTimer = TRUE
    Targets = {1, 2}
SYMMETRY Symmetry
SPECIFICATION Spec
INVARIANTS NoPanic OneOwner
PROPERTY ImplementsContract
