SPECIFICATION FairSpec
CONSTANTS
    r1 = r1 r2 = r2 m1 = m1 s1 = s1 w1 = w1
    Worker = {w1}
    Service = {s1}
    NoService = NoService
    Run = {r1, r2, m1}
    NoRun = NoRun
    ServiceOf <- RunService
    MaxDeliver = 3
    MaxSent = 3
    FaultyOps = {"send", "list", "fetch", "db", "stream", "publish", "ack"}
    MaxFaults = 1
    MaxCrashes = 1
INVARIANTS NeverBack AckedTookEffect
PROPERTIES KnowledgeStays QueueDrains
CHECK_DEADLOCK FALSE
