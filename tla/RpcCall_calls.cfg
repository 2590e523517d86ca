SPECIFICATION FairSpec
CONSTANTS
    c1 = c1 c2 = c2
    Call = {c1, c2}
    NoMsg = NoMsg
    Builds = {TRUE, FALSE}
    LeafChoices <- OneLeaf
    MaxDeliver = 2
    FaultyOps = {"publish", "buffer", "connection", "ack", "fetch", "pull", "death"}
    MaxFaults = 1
INVARIANTS HandledOnce PanicNeedsLateAnswer
PROPERTIES CallsReturn ReaderFreed
CHECK_DEADLOCK FALSE
