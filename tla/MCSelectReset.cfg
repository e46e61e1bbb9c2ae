CONSTANTS
    p1 = p1
    p2 = p2
    Peers = {p1, p2}
    MaxClients = 2
    FileLength = 2
    Capacity = 1
    SockRoom = 1
    Segments = 1
    Faulty = {p1}
    Faults = {"reset"}
    BadFdTest = {"clear"}
SPECIFICATION Spec
INVARIANT ServerSurvives
CHECK_DEADLOCK FALSE
