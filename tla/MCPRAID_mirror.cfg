\* Two disks that are there before the first request, one of which may be
\* lost at any time; three requests on one sector.
CONSTANTS
    c1 = c1
    c2 = c2
    c3 = c3
    Conns = {c1, c2}
    DiskOf <- MCTwoDisks
    Late = {}
    MayDie = {c2}
    Pfs = {p1}
    MayLeave = {}
    Sectors = {0}
    MaxRequests = 3
    CountMod = 8
    Garbage = Garbage
    None = None
SPECIFICATION FairSpec
INVARIANTS TypeOK DisksAgree AckMeansMirrored AtMostOneAnswer WriteCountExact
PROPERTIES EveryRequestAnswered
CHECK_DEADLOCK FALSE
