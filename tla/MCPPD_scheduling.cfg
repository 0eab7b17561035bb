\* Both algorithms: the initial states choose one, as ppd.config does.  With
\* LogFlag=INFO every request looks ahead.  Cylinders on both sides of the
\* head, one of them reached at the last sector of its track, reads and writes
\* of two contents, three requests outstanding and room for two in the process.
CONSTANTS
    Cylinder = 3
    Heads = 1
    Sector = 2
    TrackJumpTime = 1
    SectorJumpTime = 1
    Algorithms = {"FSCAN", "SSTF"}
    InitialDirection = "UP"
    InitialHead = 2
    LogInfo = TRUE
    QueueAvailable = 2
    Fds = {4}
    ConsoleFd = 5
    ConsoleCommands = {}
    Types = {"READ_SECTORS", "WRITE_SECTORS"}
    Sectors = {0, 5}
    Data = {0, 1}
    InitialData = 0
    Ids = {1, 2, 3}
    None = None
SPECIFICATION Spec
INVARIANTS TypeOK ScannedQueueNotEmpty ElementCount AvailableCount QueueDiscipline
PROPERTIES ServesRequests AnnouncedIsNextInTrack
