SPECIFICATION Spec
CONSTANTS
    MAX_EVENTS = 2
    Workloads <- DeliveryWorkloads
INVARIANTS
    LogHoldsPrefixes
    SeenIsLogged
    TableIsASegment
    OfflineShowsTheLog
    RowsAreTellable
CHECK_DEADLOCK FALSE
