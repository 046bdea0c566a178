SPECIFICATION FairSpec
CONSTANTS
    CloseWakesAccept = TRUE
    LatencyEnabled = TRUE
    MaxReads = 2
INVARIANTS
    TypeOK
    DestroyedIsSilent
    EndIsReported
    ForwardsWhatItRecords
    LatencyPairsAreProper
PROPERTIES
    StopReturns
    SidesEndTogether
CHECK_DEADLOCK FALSE
