SPECIFICATION FairSpec
CONSTANTS
    CloseWakesAccept = FALSE
    LatencyEnabled = FALSE
    MaxReads = 1
PROPERTIES
    StopReturns
CHECK_DEADLOCK FALSE
