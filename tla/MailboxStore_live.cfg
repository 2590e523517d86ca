SPECIFICATION FairSpec
CONSTANTS
    p1 = p1 p2 = p2 k1 = k1 k2 = k2 n1 = n1 c1 = c1 c2 = c2
    NoKey = NoKey NoMbox = NoMbox NoThread = NoThread
    Proc = {p1, p2}
    Thread <- TwoProcThreads
    ProcOf <- ThreadProc
    PurgeThread <- PurgerP1
    HttpProc = {p2}
    AdminKey = {k1}
    Name = {n1}
    Channel = {c1}
    CreateChannels = {c1}
    NamedTimeout = 1
    DefaultTimeout = 1
    KeepAliveEvery = 1
    OpaqueDecodes = TRUE
    Requests = {"lookup", "fetchOrCreate", "addChannel"}
    SlowOps = TRUE
    MaxTime = 1
    FaultyOps = {"get"}
    MaxFaults = 1
    CrashProc = {p1}
    MaxCrashes = 1
PROPERTIES OperationsReturn 
CHECK_DEADLOCK FALSE
