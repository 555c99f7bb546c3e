\* Three processes at one lock file: a waiter, an owner that leaves, and a newcomer.
SPECIFICATION Spec
CONSTANTS
    Insts = {a, b, c}
    Paths = {p}
    Inodes = {i1, i2, i3, i4}
    NoInode = NoInode
    NoInst = NoInst
    MaxTries = 2
SYMMETRY Symmetry
CHECK_DEADLOCK FALSE
INVARIANTS
    OneAppender
    LockNamed
PROPERTIES
    ImplementsLease
