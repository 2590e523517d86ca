SPECIFICATION FairSpec
CONSTANTS
    t1 = t1 t2 = t2 tableA = tableA
    Tx = {t1, t2}
    NoTx = NoTx
    TableOf <- OneTable
    MaxRows <- TwoAndOne
    MaxFaults = 1
    FaultyAcks = TRUE
    MaxCrashes = 1
    HeldSlots = TRUE
INVARIANTS NoLoss ParseNeverFails
PROPERTIES FeedSpec LaterCommitRetries
CHECK_DEADLOCK FALSE
