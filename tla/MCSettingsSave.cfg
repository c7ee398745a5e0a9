SPECIFICATION SaveSpec
CONSTANTS
    Words = {0, 1, 2}
    Damaged = 3
    Thresholds = 2
    Limits = {50, 100}
    DefaultLimit = 100
    MaxChanges = 3
    MaxFaults = 2
INVARIANTS
    SaveTypeOK
    CleanMeansKept
    FormattedIsComplete
    FirstCalibrationWhole
CHECK_DEADLOCK FALSE
