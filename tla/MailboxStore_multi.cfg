SPECIFICATION Spec
CONSTANTS
    p1 = p1 p2 = p2 k1 = k1 k2 = k2 n1 = n1 c1 = c1 c2 = c2
    NoKey = NoKey NoMbox = NoMbox NoThread = NoThread
    Proc = {p1, p2}
    Thread <- TwoProcThreads
    ProcOf <- ThreadProc
    PurgeThread <- PurgerP1
    HttpProc = {}
    AdminKey = {k1}
    Name = {}
    Channel = {c1, c2}
    CreateChannels = {c1}
    NamedTimeout = 1
    DefaultTimeout = 4
    KeepAliveEvery = 1
    OpaqueDecodes = TRUE
    Requests = {"create", "addChannel"}
    SlowOps = FALSE
    MaxTime = 5
    FaultyOps = {"put", "addStream", "get"}
    MaxFaults = 1
    CrashProc = {p1}
    MaxCrashes = 1
INVARIANTS ReachableHasStreams
PROPERTIES KeptAliveStays
CHECK_DEADLOCK FALSE
