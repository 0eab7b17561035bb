\* Disks come and go at any time, in any order: two of the three processes
\* announce the same id.  Any may be lost, and the PFS may leave.
CONSTANTS
    c1 = c1
    c2 = c2
    c3 = c3
    Conns = {c1, c2, c3}
    DiskOf <- MCDiskOf
    Late = {c2, c3}
    MayDie = {c1, c2, c3}
    Pfs = {p1}
    MayLeave = {p1}
    Sectors = {0}
    MaxRequests = 1
    CountMod = 8
    Garbage = Garbage
    None = None
SPECIFICATION Spec
INVARIANTS DistinctDisks CountCovers
CHECK_DEADLOCK FALSE
