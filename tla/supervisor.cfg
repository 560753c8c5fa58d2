CONSTANTS
    MaxSessions = 8
    MaxSeq = 1
    MaxLosses = 1
    MaxSlips = 1
    MaxOutages = 1
SPECIFICATION FairSpec
INVARIANT TypeOK
INVARIANT ReadyIsLive
INVARIANT RetiredStaysGone
INVARIANT BufferedIsKept
PROPERTY GatewayComesBack
CHECK_DEADLOCK FALSE
