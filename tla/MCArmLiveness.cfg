CONSTANTS
    Devices = {1, 2}
    MaxRuns <- OneRunEach
    MaxCommands = 1
    Operators = FALSE
SPECIFICATION FairSpec
PROPERTY ListenerGetsChannel
CHECK_DEADLOCK FALSE
