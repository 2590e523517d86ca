------------------------------ MODULE MCA8App ------------------------------
EXTENDS A8App
CONSTANTS loop, http, grpcServer, rpcReader

\* A server with one sub-process of each kind, a command, and two functions.
MembersOf ==
    [server |-> {loop, http, grpcServer, rpcReader}, command |-> {loop}, multi |-> {loop, http}]
=============================================================================
