CONSTANTS
    Messages = {m1}
    GatewayWorkers = {g1}
    AdminWorkers = {}
    Alarm = alarm
    Operators = {}
    Hosts = {"cloudflare"}
    Window = 1
    Retention = 1
    Limit = 1
    MaxTime = 2
    MaxClaims = 1
    MaxGen = 2
    None = None
SPECIFICATION FairSpec
PROPERTY UncertainIsSettled
CHECK_DEADLOCK FALSE
