SPECIFICATION SessionFairSpec
CONSTANTS
    ws = ws grpc = grpc s1 = s1
    Client = {ws, grpc}
    WebSocket = {ws}
    Sub = {s1}
    Subscriber = {ws}
    MaxMessages = 2
    BatchSize = 2
    AnswerWithin = 1
    SessionTimeout = 2
    SessionFaultyOps = {"subscribe", "fetch", "ack"}
    MaxSessionFaults = 1
INVARIANTS AnsweringIsKnown NoGap
PROPERTIES EndedIsForgotten SubscriptionsEnd
CHECK_DEADLOCK FALSE
