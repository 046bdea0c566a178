SPECIFICATION FairSpec
CONSTANTS
    Modes <- AllModes
    Handlers = {"h1"}
    Clients = {"a", "b"}
    MaxLines = 1
    MaxCommands = 1
    MaxCallbacks = 3
INVARIANTS
    CallbackFindsItsSession
    BytesBelongToActiveClient
    RunReportsItsEnd
PROPERTIES
    RunEnds
CHECK_DEADLOCK FALSE
