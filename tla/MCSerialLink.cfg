SPECIFICATION FairSpec
CONSTANTS
    SeqMod = 3
    MaxAttempts = 2
    MaxParts = 3
    MaxCalls = 3
    MaxFaults = 3
    Environments <- Survived
CHECK_DEADLOCK FALSE
INVARIANTS
    TypeOK
    SequenceInStep
PROPERTIES
    CallSpec
    UnboundedNeverFails
    CallsEnd
