CONSTANTS
    NoHash = NoHash
    Nodes = {1, 2, 3}
    Ports <- Joins
    Leavers = {1}
    MaxBlocks <- BlocksOfEach
SPECIFICATION FairSpec
INVARIANTS
    TypeOK
    LinkBreaksByOverlap
    GivenUpForLonger
    HeardIsReached
PROPERTY CommandEnds
CHECK_DEADLOCK FALSE
