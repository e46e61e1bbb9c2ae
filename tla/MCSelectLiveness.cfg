CONSTANTS
    p1 = p1
    p2 = p2
    Peers = {p1, p2}
    MaxClients = 2
    FileLength = 2
    Capacity = 2
    SockRoom = 1
    Segments = 1
    Faulty = {p1}
    Faults = {"more", "shutdown", "leave", "urgent", "missing", "ioerror"}
    BadFdTest = {"clear"}
SPECIFICATION FairSpec
PROPERTIES
    GoodPeerServed
    DepartedIsReleased
CHECK_DEADLOCK FALSE
