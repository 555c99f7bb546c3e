\* One active task at a time and three tasks in turn: slots are used again.
SPECIFICATION Spec
CONSTANTS
    NSlots = 2
    Limit = 1
    MaxTasks = 3
CHECK_DEADLOCK FALSE
INVARIANTS
    AnsweredOnce
    SilenceUnlessCut
PROPERTIES
    ImplementsBoard
