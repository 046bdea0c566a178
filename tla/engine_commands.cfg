SPECIFICATION FairSpec
CONSTANTS
    c1 = c1
    c2 = c2
    w1 = w1
    w2 = w2
    plain = plain
    proxy = proxy
    bad = bad
    NoConfig = NoConfig
    Clients = {c1, c2}
    Workers = {w1}
    Configs <- OneConfig
    Logged <- OneConfig
    Proxied = {}
    BadDecoder = {}
    Ops <- CaptureOps
    MaxLines = 2
    MaxEvents = 1
INVARIANTS
    TypeOK
    IdleIsQuiescent
    StatusIsCurrent
    DestroyedIsQuiescent
PROPERTIES
    ImplementsProtocol
    HandlersFinish
CHECK_DEADLOCK FALSE
