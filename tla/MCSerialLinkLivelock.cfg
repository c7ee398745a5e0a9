SPECIFICATION FairSpec
CONSTANTS
    SeqMod = 3
    MaxAttempts = 2
    MaxParts = 3
    MaxCalls = 2
    MaxFaults = 2
    Environments <- Livelock
CHECK_DEADLOCK FALSE
PROPERTIES
    BoundedCallsEnd
