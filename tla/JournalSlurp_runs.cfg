SPECIFICATION FairSpec
CONSTANTS
    s1 = s1 s2 = s2 u1 = u1 u2 = u2 u3 = u3
    Service = {s1}
    Uid = {u1, u2}
    NoUid = NoUid
    ChanSize = 1
    MaxLines = 3
    MaxPending = 2
    MaxLaunches = 2
    FaultyOps = {"start", "write", "pid"}
    MaxFaults = 1
INVARIANTS LiveIsCurrent WrittenInOrder
PROPERTIES  StuckOnlyOnEnded
CHECK_DEADLOCK FALSE
