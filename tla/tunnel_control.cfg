SPECIFICATION FairSpec
CONSTANTS
    c1 = c1
    c2 = c2
    h1 = h1
    h2 = h2
    None = None
    Client = {c1, c2}
    Options <- Starts
    Host = {h1, h2}
    Lower <- AllLower
    Conn = {1, 2, 3}
    Fd = {1, 2, 3}
    Req = {1}
    MaxEvents = 2
INVARIANTS
    RegistryConsistent
    ServedByOwnOrigin
    NoSpurious502
PROPERTY
    ClientGetsIn
