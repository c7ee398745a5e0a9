SPECIFICATION Spec
CONSTANTS
    IndexCount = 2
    PageRecords = 3
    RowLength = 2
    Values <- MCValues
    NoValue = NoValue
    WornFaults = TRUE
INVARIANT
    NeverLockedOut
