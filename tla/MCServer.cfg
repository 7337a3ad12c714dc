SPECIFICATION ServerSpec
CONSTANTS
    Connection = {k1, k2}
    Request = {c1, c2, t1, p1}
    Client = {c1, c2}
    Task = {t1}
    Probe = {p1}
    LastRow = 1
    Email = {e1}
    Password = {w1, w2}
    Null = Null
INVARIANTS
    ServerTypeOK
    WedgeExplained
PROPERTIES
    TokensToTheOwner
    OwnerIsNotRefused
    EverybodyAnswered
    WedgeIsReported
CHECK_DEADLOCK FALSE
