CONSTANTS
    Pushers = {p1}
    Pullers = {c1}
    NoBody = NoBody
    Weight <- MCWeight
    MaxRecords = 2
    MaxBytes = 4
    Retries = 1
    MaxEvents = 3
    MaxLog = 2
    MaxPage = 1
    MaxFaults = 1
    MaxShapes = 1
SPECIFICATION FairSpec
PROPERTY TailDoesNotReplay
CHECK_DEADLOCK FALSE
