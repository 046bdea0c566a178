SPECIFICATION Spec
CONSTANTS
    MaxWorkers = 2
    MaxCommands = 4
    MaxBacklog = 1
    OthersUse = TRUE
    Patient = TRUE
INVARIANTS
    PendingIsAnswered
    StartComesBack
    ControlsMatchEngine
    ConnectionIsOwned
CHECK_DEADLOCK FALSE
