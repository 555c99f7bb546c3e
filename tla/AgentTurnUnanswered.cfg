\* The same bounds, asked whether every request carries an answer for each call.
SPECIFICATION Spec
CONSTANTS
    Cap = 6
    Round = 2
    Steps = 2
    AutoTitle = TRUE
    MaxCalls = 2
    MaxFaults = 1
    MaxCrashes = 1
INVARIANT RequestsPaired
CHECK_DEADLOCK FALSE
