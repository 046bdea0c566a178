SPECIFICATION Spec
CONSTANTS
    MaxWorkers = 2
    MaxCommands = 4
    MaxBacklog = 1
    OthersUse = TRUE
    Patient = TRUE
INVARIANTS
    StaysInSync
CHECK_DEADLOCK FALSE
