\* Two processes: a lock probed by a listing is refused to the instance that resumes it.
SPECIFICATION Spec
CONSTANTS
    Insts = {a, b}
    Paths = {p}
    Inodes = {i1, i2, i3}
    NoInode = NoInode
    NoInst = NoInst
    MaxTries = 8
CHECK_DEADLOCK FALSE
INVARIANT
    RefusedWhileLive
