SPECIFICATION Spec
CONSTANTS
    c1 = c1
    c2 = c2
    w1 = w1
    w2 = w2
    plain = plain
    proxy = proxy
    bad = bad
    NoConfig = NoConfig
    Clients = {c1}
    Workers = {w1}
    Configs <- AllConfigs
    Logged <- TwoConfigs
    Proxied = {proxy}
    BadDecoder = {bad}
    Ops <- AllOps
    MaxLines = 4
    MaxEvents = 2
SYMMETRY Viewers
INVARIANTS
    CallbackFindsItsCapture
    OneResultPerCommand
    CapturesAreSeparate
    LoggedBeforeSeen
PROPERTIES
    ConfigFixedDuringCapture
CHECK_DEADLOCK FALSE
