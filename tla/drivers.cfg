SPECIFICATION Spec
CONSTANTS
    c1 = c1
    c2 = c2
    Ctx = {c1, c2}
    MaxReq = 2
    Sectors = 2
    Command = {0, 1, 6, 7, 8}
    MaxName = 4
    dev_num = 10
    HashBits = {2, 8}
    Task = {Main, Thread}
    Idle = Idle
    NULL = NULL
    Params = {}
    Services = {}
    Prompt = TRUE
    Main = Main
    Thread = Thread
    MaxClock = 14
INVARIANTS
    LoadReleases
    LiveObjects
    RequestSound
    DiskCoherent
    CommandObeyed
    TreeSound
    ListsSound
    JoinInTime
PROPERTIES
    Served
    AtomicRequests
    IoctlWakes
    TreeOperations
CHECK_DEADLOCK FALSE
