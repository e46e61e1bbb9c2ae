CONSTANTS
    Editions = {"cpp", "python"}
    g1 = g1
    g2 = g2
    b1 = b1
    Clients = {g1, g2, b1}
    Good = {g1, g2}
    Segmented = {g1}
    Workers = 1
    BlockSize = 2
    Files <- FilesOfEach
SPECIFICATION FairSpec
INVARIANTS
    TypeOK
    DoneIsDelivered
    DiesOnRequest
PROPERTY GoodIsServed
CHECK_DEADLOCK FALSE
