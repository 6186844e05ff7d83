CONSTANTS
    x1 = x1
    NoSession = none
    Sessions <- OneSession
    Cap = 2
    MaxBreaks = 2
SPECIFICATION FairSpec
INVARIANTS NoPanic ExitSendNeverBlocks ExitIsLast OneCloser
PROPERTIES UnattachedExpires ClosingIsAudited DisconnectEndsStreams
CHECK_DEADLOCK FALSE
