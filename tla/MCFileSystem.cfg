SPECIFICATION Spec
CONSTANTS
    t1 = t1
    t2 = t2
    Threads <- MCThreads
    Names = {"a", "b", "c", "d"}
    OperationsOf <- MCOperationsOf
    Leftovers <- MCLeftovers
    SlotCount = 2
    Size = 6
    EntriesPerSector = 2
    SignedChar = TRUE
    MaxDamage = 0
INVARIANTS TypeOK ChainsSound SizesMatch NothingLost MarksComplete OnlyMkdirUnsaved MediaKept
PROPERTIES OthersKept
CHECK_DEADLOCK FALSE
