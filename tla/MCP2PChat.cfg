CONSTANTS
    Nobody = Nobody
    Peers = {1, 2, 3}
    Overlays <- ThreeOverlays
    Talkers = {2, 3}
    Leavers = {2}
    MaxSent = 2
    MaxWire = 3
SPECIFICATION FairSpec
INVARIANTS
    TypeOK
    ShownOnce
    ShownUnlessBroken
PROPERTY ComesToRest
CHECK_DEADLOCK FALSE
