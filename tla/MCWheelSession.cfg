SPECIFICATION Spec
CONSTANTS
    Kinds <- MCKinds
    ActivityTicks = 1
    SelectionTicks = 2
INVARIANTS
    ForceIsOfThisSession
PROPERTIES
    OnePressOneEnable
    RemovedWheelStops
    SelectionEnds
