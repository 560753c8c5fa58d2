CONSTANTS
    MaxSessions = 2
    MaxSeq = 0
    MaxLosses = 1
    MaxSlips = 0
    MaxOutages = 0
SPECIFICATION Spec
INVARIANT ReadinessIsHonest
CHECK_DEADLOCK FALSE
