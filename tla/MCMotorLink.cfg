SPECIFICATION Spec
CONSTANTS
    QueueCapacity = 2
    MalformedLimit = 1
    MaxEvents = 3
    Environments <- MCEnvironments
INVARIANTS
    CommandOrder
    NoLiveForceOnceInhibited
PROPERTIES
    ForceStops
    SlipHeals
