SPECIFICATION Spec
CONSTANTS
    t1 = t1
    t2 = t2
    t3 = t3
    rx = rx
    tx = tx
    Callers = {t1, t2, t3}
    Streams = {rx, tx}
    Workloads <- PipelineWorkloads
SYMMETRY Senders
INVARIANTS
    FramingIsCanonical
    NumbersTellTheOrder
    ParentsAreTheSource
    LossIsReported
CHECK_DEADLOCK FALSE
