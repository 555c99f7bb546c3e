\* Two tasks side by side, under the fairness of the scheduler, the clock and the pump.
SPECIFICATION FairSpec
CONSTANTS
    NSlots = 2
    Limit = 2
    MaxTasks = 2
CHECK_DEADLOCK FALSE
INVARIANTS
    WorkersOwned
    WorkersWord
PROPERTIES
    OrphansStop
    EndSeen
