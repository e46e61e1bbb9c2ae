CONSTANTS
    Devices = {1, 2}
    MaxRuns <- FirstRestarts
    MaxCommands = 1
    Operators = TRUE
SPECIFICATION Spec
INVARIANTS
    TypeOK
    DiesInLoop
    FirstRunHasChannel
PROPERTY OnlyRegisteredCommanded
CHECK_DEADLOCK FALSE
