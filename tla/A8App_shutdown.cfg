SPECIFICATION AppFairSpec
CONSTANTS
    loop = loop http = http grpcServer = grpcServer rpcReader = rpcReader
    SubProcess = {loop, http, grpcServer, rpcReader}
    Programs = {"server", "command", "multi"}
    Members <- MembersOf
    Grpc = grpcServer
    Parent = http
    Child = rpcReader
    MaxStreams = 2
    MaxSignals = 2
    MaxFaults = 2
INVARIANTS ExitWaits
PROPERTIES SignalEnds CommandEnds
CHECK_DEADLOCK FALSE
