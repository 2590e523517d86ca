SPECIFICATION Spec
CONSTANTS
    p1 = p1 p2 = p2 k1 = k1 k2 = k2 n1 = n1 c1 = c1 c2 = c2
    NoKey = NoKey NoMbox = NoMbox NoThread = NoThread
    Proc = {p1}
    Thread <- OneProcThreads
    ProcOf <- ThreadProc
    PurgeThread <- PurgerP1
    HttpProc = {}
    AdminKey = {k1, k2}
    Name = {n1}
    Channel = {c1, c2}
    CreateChannels = {c1}
    NamedTimeout = 1
    DefaultTimeout = 1
    KeepAliveEvery = 1
    OpaqueDecodes = TRUE
    Requests = {"lookup", "fetchOrCreate", "addChannel"}
    SlowOps = TRUE
    MaxTime = 1
    FaultyOps = {}
    MaxFaults = 0
    CrashProc = {}
    MaxCrashes = 0
INVARIANTS IndexConsistent CacheCoherent
PROPERTIES AddressNotTakenOver
CHECK_DEADLOCK FALSE
