\* A batch result whose update was refused, and a save after it that says all is saved.
SPECIFICATION Spec
CONSTANTS
    Cap = 6
    Round = 2
    Steps = 2
    AutoTitle = FALSE
    MaxCalls = 2
    MaxFaults = 1
    MaxCrashes = 1
INVARIANT RecoveredIsSaved
CHECK_DEADLOCK FALSE
