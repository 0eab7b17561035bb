\* Every queue of up to three requests on a drive of 3 cylinders x 2 sectors,
\* from every head position, in both directions and without one (SSTF).
CONSTANTS
    Cylinder = 3
    Heads = 1
    Sector = 2
    TrackJumpTime = 2
    SectorJumpTime = 1
    MaxLen = 3
    Queues <- MCQueues
    Positions <- MCPositions
SPECIFICATION Spec
INVARIANTS TypeOK ScanFindsNext ChosenLiesAhead NoWriteOvertaken
PROPERTY ChoiceEnds
CHECK_DEADLOCK FALSE
