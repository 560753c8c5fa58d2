CONSTANTS
    Messages = {m1, m2}
    GatewayWorkers = {g1, g2}
    AdminWorkers = {}
    Alarm = alarm
    Operators = {}
    Hosts = {"node"}
    Window = 1
    Retention = 1
    Limit = 1
    MaxTime = 1
    MaxClaims = 1
    MaxGen = 2
    None = None
SPECIFICATION Spec
PROPERTY PendingClosedBeforeServing
CHECK_DEADLOCK FALSE
