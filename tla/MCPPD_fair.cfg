\* Liveness, StartingMode=CONNECT: the RAID connection has the lower
\* descriptor, the console the higher one.  Eight cylinders, so that the
\* sector 7 of "james" exists.  Only traces look ahead.
CONSTANTS
    Cylinder = 8
    Heads = 1
    Sector = 1
    TrackJumpTime = 1
    SectorJumpTime = 1
    Algorithms = {"FSCAN"}
    InitialDirection = "UP"
    InitialHead = 1
    LogInfo = FALSE
    QueueAvailable = 2
    Fds = {4}
    ConsoleFd = 5
    ConsoleCommands = {"info", "james", "exit"}
    Types = {"READ_SECTORS", "PPDCONSOLE_TRACE"}
    Sectors = {0, 2}
    Data = {0}
    InitialData = 0
    Ids = {1, 2}
    None = None
SPECIFICATION FairSpec
PROPERTIES EveryRequestAnswered ExitHonoured
CHECK_DEADLOCK FALSE
