\* Two heads.
CONSTANTS
    Cylinder = 2
    Heads = 2
    Sector = 1
    TrackJumpTime = 1
    SectorJumpTime = 1
    Algorithms = {"FSCAN"}
    InitialDirection = "UP"
    InitialHead = 1
    LogInfo = FALSE
    QueueAvailable = 2
    Fds = {4}
    ConsoleFd = 5
    ConsoleCommands = {}
    Types = {"READ_SECTORS", "WRITE_SECTORS"}
    Sectors = {1, 2}
    Data = {0, 1}
    InitialData = 0
    Ids = {1, 2, 3}
    None = None
SPECIFICATION Spec
INVARIANTS AnswerNamesSector
