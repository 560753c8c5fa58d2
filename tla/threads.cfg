CONSTANTS
    Messages = {m1}
    GatewayWorkers = {g1}
    AdminWorkers = {a1}
    Alarm = alarm
    Operators = {op}
    Hosts = {"cloudflare", "node"}
    Window = 1
    Retention = 1
    Limit = 1
    MaxTime = 2
    MaxClaims = 2
    MaxGen = 2
    None = None
SPECIFICATION Spec
INVARIANT TypeOK
INVARIANT PendingMeansUnsent
INVARIANT ConfirmedIsReal
INVARIANT FailedMeansRejected
INVARIANT CreatesAreARetentionApart
PROPERTY TerminalIsFinal
PROPERTY RoutineMaintenanceWaits
PROPERTY PermitsAreKept
PROPERTY NodeRecoversBeforeMutation
PROPERTY ClosedClaimWasDead
CONSTRAINT Sizes
CHECK_DEADLOCK FALSE
