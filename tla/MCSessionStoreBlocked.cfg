\* A session that cannot be rolled back, then another that is resumed.
SPECIFICATION Spec
CONSTANTS
    Insts = {a, b}
    Paths = {p, q}
    NoInst = NoInst
    NoPath = NoPath
    MaxMsgs = 2
    MaxFaults = 1
    MaxOps = 3
SYMMETRY Symmetry
CHECK_DEADLOCK FALSE
INVARIANT
    BlockedByOwn
