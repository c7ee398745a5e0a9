SPECIFICATION Spec
CONSTANTS
    IndexCount = 2
    PageRecords = 3
    RowLength = 2
    Values <- MCValues
    NoValue = NoValue
    WornFaults = FALSE
INVARIANTS
    NeverLockedOut
    RebootKeepsSession
PROPERTIES
    ProgramsErasedOnly
    StoreSpec
