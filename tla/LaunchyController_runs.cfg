SPECIFICATION FairSpec
CONSTANTS
    r1 = r1 r2 = r2 r3 = r3
    Run = {r1, r2}
    NoRun = NoRun
    Modes <- AnyMode
    RpcChoices = {TRUE, FALSE}
    MaxSignals = 2
    MaxRequests = 1
    MaxOutput = 1
    FaultyOps = {"getwd", "mailbox", "start", "publish"}
    MaxFaults = 1
INVARIANTS RunsAlone DeathIsExplained
PROPERTIES SignalHeeded
CHECK_DEADLOCK FALSE
