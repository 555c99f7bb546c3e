\* One task is enough: an interrupt between a read of the log and waitpid loses its report.
SPECIFICATION Spec
CONSTANTS
    NSlots = 2
    Limit = 1
    MaxTasks = 1
CHECK_DEADLOCK FALSE
INVARIANT
    SilenceIsTrue
