------------------------------ MODULE MCRpcCall ------------------------------
(* Instances of RpcCall for TLC. *)
EXTENDS RpcCall

CONSTANTS c1, c2

\* Who publishes through the work queue: the callers alone, or the server alone.
OneLeaf == {{"caller"}, {"server"}}
=============================================================================
