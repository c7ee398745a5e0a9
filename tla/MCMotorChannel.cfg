SPECIFICATION Spec
CONSTANTS
    RetryLimit = 2
    SentinelLimit = 1
    MaxCommands = 3
    MaxEvents = 3
INVARIANTS
    WritesAreOwn
    WatchdogNeverResets
PROPERTIES
    DeferredStalls
    PendingIsSent
CHECK_DEADLOCK FALSE
