SPECIFICATION Spec
CONSTANTS
    SeqMod = 3
    MaxAttempts = 2
    MaxParts = 3
    MaxCalls = 2
    MaxFaults = 1
    Environments <- Twice
CHECK_DEADLOCK FALSE
INVARIANTS
    DuplicatesSuppressed
