CONSTANTS
    c1 = c1
    c2 = c2
    r1 = r1
    m1 = m1
    m2 = m2
    Nil = Nil
    Clients = {c1, c2}
    Resizers = {r1}
    Resources = {m1, m2}
    MaxCap = 2
    InitCap = 1
    HasIdleTimer = TRUE
    Targets = {1, 2}
SPECIFICATION FairSpec
PROPERTIES CloseCompletes GetNotStarved
