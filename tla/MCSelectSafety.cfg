CONSTANTS
    p1 = p1
    p2 = p2
    p3 = p3
    Peers = {p1, p2, p3}
    MaxClients = 2
    FileLength = 2
    Capacity = 1
    SockRoom = 1
    Segments = 2
    Faulty = {p1}
    Faults = {"more", "shutdown", "leave", "reset", "urgent", "missing", "barred", "ioerror"}
    BadFdTest = {"clear", "abort"}
SPECIFICATION Spec
INVARIANTS
    TypeOK
    ListSound
    DoneIsDelivered
    DroppedForCause
    DiesOnRequest
PROPERTY StreamOfEachClient
SYMMETRY PeerSymmetry
CHECK_DEADLOCK FALSE
