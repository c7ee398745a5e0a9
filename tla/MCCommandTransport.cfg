SPECIFICATION FairSpec
CONSTANTS
    WaitLimit = 1
    ControlLimit = 1
INVARIANTS
    Ownership
    CompleteIsOwn
PROPERTIES
    WaitsEnd
    MalformedIsFinal
    TransferEnds
    StartupLockedOut
