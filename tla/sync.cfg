CONSTANTS
    Pushers = {p1}
    Pullers = {c1}
    NoBody = NoBody
    Weight <- MCWeight
    MaxRecords = 2
    MaxBytes = 4
    Retries = 1
    MaxEvents = 3
    MaxLog = 4
    MaxPage = 2
    MaxFaults = 2
    MaxShapes = 2
SPECIFICATION FairSpec
INVARIANT TypeOK
INVARIANT CursorIsExact
INVARIANT AckedIsInLog
INVARIANT LogKeepsOrder
PROPERTY AppendsFit
PROPERTY PullEndsAtTail
PROPERTY KeepsThePromise
CHECK_DEADLOCK FALSE
PROPERTY EventsReachEveryClient
