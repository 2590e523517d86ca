---------------------------- MODULE MCActiveClient ----------------------------
(* Instances of ActiveClient for TLC. *)
EXTENDS ActiveClient

CONSTANTS ws, grpc, s1
=============================================================================
