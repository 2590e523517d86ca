SPECIFICATION Spec
CONSTANTS
    a1 = a1 a2 = a2 v1 = v1 v2 = v2 c1 = c1 c2 = c2
    NoVersion = NoVersion NoDir = NoDir NoApp = NoApp Current = Current Torn = Torn
    App = {a1, a2}
    Version = {v1, v2}
    Command = {c1, c2}
    Args <- Arguments
    Job <- Jobs
    Tree <- Order
    Gcrooted = {a2}
    Known = {a1}
    First = v1
    Unreadable = {a2}
    MaxTime = 2
    MaxFaults = 1
INVARIANTS NothingOverwritten  Rooted FailureHasCause
CHECK_DEADLOCK FALSE
