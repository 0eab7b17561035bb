\* Two disks, one may be lost, one read.
CONSTANTS
    c1 = c1
    c2 = c2
    c3 = c3
    Conns = {c1, c2}
    DiskOf <- MCTwoDisks
    Late = {}
    MayDie = {c2}
    Pfs = {p1}
    MayLeave = {}
    Sectors = {0}
    MaxRequests = 1
    CountMod = 8
    Garbage = Garbage
    None = None
SPECIFICATION Spec
INVARIANTS ReadsReorganised
CHECK_DEADLOCK FALSE
