SPECIFICATION Spec
CONSTANTS
    INT_WIDTH = 24
    Tasks <- InputTasks
INVARIANTS
    ParsedAsGiven
    TwoWaysAgree
    ConfigRoundTrips
    HexIsReadByGrammar
    HexWaysAgree
CHECK_DEADLOCK FALSE
