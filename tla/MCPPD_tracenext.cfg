\* The same drive: sector 3 is the last of its track.
CONSTANTS
    Cylinder = 3
    Heads = 1
    Sector = 2
    TrackJumpTime = 1
    SectorJumpTime = 1
    Algorithms = {"FSCAN"}
    InitialDirection = "UP"
    InitialHead = 2
    LogInfo = TRUE
    QueueAvailable = 3
    Fds = {4}
    ConsoleFd = 5
    ConsoleCommands = {}
    Types = {"READ_SECTORS"}
    Sectors = {0, 3, 4}
    Data = {0}
    InitialData = 0
    Ids = {1, 2, 3}
    None = None
SPECIFICATION Spec
PROPERTIES AnnouncedIsNext
