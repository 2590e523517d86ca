SPECIFICATION FairSpec
CONSTANTS
    u1 = u1 u2 = u2
    NoRow = NoRow NoRecord = NoRecord
    Unit = {u1, u2}
    Registered <- OneRow
    Builds = {TRUE, FALSE}
    FaultyOps = {"systemctl", "publish", "timeout", "db", "nefario", "consumer", "ack"}
    MaxUid = 4
    MaxEvents = 2
  
PROPERTIES TableCatchesUp
CHECK_DEADLOCK FALSE
