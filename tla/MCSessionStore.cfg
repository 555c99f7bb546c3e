\* Two instances, two timestamps, two messages.
SPECIFICATION Spec
CONSTANTS
    Insts = {a, b}
    Paths = {p, q}
    NoInst = NoInst
    NoPath = NoPath
    MaxMsgs = 2
    MaxFaults = 1
    MaxOps = 6
SYMMETRY Symmetry
CHECK_DEADLOCK FALSE
INVARIANTS
    LeasedTranscript
    LeaseTracked
PROPERTIES
    RecordsKept
    ForkKeepsOriginal
