CONSTANTS
    Devices = {1, 2}
    MaxRuns <- FirstRestarts
    MaxCommands = 0
    Operators = FALSE
SPECIFICATION Spec
INVARIANT AnnouncedHasChannel
CHECK_DEADLOCK FALSE
