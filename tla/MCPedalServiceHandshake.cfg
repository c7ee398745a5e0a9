SPECIFICATION Spec
CONSTANTS
    Pedals = {"V3", "V4", "legacy"}
    Tuned = {"BRAKE_FORCE", "THROTTLE_CURVE"}
    Channels = 2
    RetryLimit = 1
    MaxErrors = 1
    Environments <- Pulled
INVARIANTS
    RecoveryHandshakeSent
