SPECIFICATION Spec
CONSTANTS
    t1 = t1
    t2 = t2
    Threads <- MCThreads
    None = None
    Values = {1}
    MaxSize = 2
    InitialSize = 1
    CacheSizes = {0, 1, 2}
    MaxAge = 1
    MaxDamage = 0
    Size = 6
    EntriesPerSector = 2
SYMMETRY MCSymmetry
INVARIANTS TypeOK CacheShape WritesSurvive RecordAgrees
CHECK_DEADLOCK FALSE
