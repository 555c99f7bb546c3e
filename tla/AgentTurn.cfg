\* Turns of two rounds, a batch of two calls, one failed save and one crash.
SPECIFICATION Spec
CONSTANTS
    Cap = 5
    Round = 2
    Steps = 2
    AutoTitle = TRUE
    MaxCalls = 2
    MaxFaults = 1
    MaxCrashes = 1
INVARIANTS PairedUnlessLeft TranscriptKept RowsTrue HandoffKept
PROPERTY DenialStops
CHECK_DEADLOCK FALSE
