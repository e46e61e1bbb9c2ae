CONSTANTS
    g1 = g1
    b1 = b1
    Listener = Listener
    Clients = {g1, b1}
    Good = {g1}
    Size = 2
    MaxCells = 3
SPECIFICATION FairSpec
INVARIANTS
    TypeOK
    OneOperationEach
    EchoInOrder
    EndsForCause
PROPERTY GoodIsEchoed
CHECK_DEADLOCK FALSE
