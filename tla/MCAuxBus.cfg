SPECIFICATION Spec
CONSTANTS
    Parameters = 2
    Environments <- Tested
INVARIANTS
    ResultsAreOwn
    CleanMeansWritten
PROPERTY
    BusIsShared
