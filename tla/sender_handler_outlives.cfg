SPECIFICATION Spec
CONSTANTS
    Modes <- AllModes
    Handlers = {"h1"}
    Clients = {"a", "b"}
    MaxLines = 1
    MaxCommands = 1
    MaxCallbacks = 2
INVARIANTS
    HandlerFindsItsSession
CHECK_DEADLOCK FALSE
