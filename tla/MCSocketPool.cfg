SPECIFICATION Spec
CONSTANTS
    t1 = t1
    t2 = t2
    t3 = t3
    None = None
    NoCall = NoCall
    Threads <- MCThreads
    max_conn = 2
    CallsOf <- MCCallsOf
    InitialVolume <- MCVolume
    BootSector = 0
    RequestWindow = 2
    AnswerWindow = 1
    MaxLost = 1
INVARIANTS TypeOK OneUser ScanFinds FreeIsQuiet
PROPERTIES ConnectionsComeBack ServesCalls
CHECK_DEADLOCK FALSE
