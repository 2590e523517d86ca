-------------------------- MODULE MCServiceRegistry --------------------------
(* Instances of ServiceRegistry for TLC. *)
EXTENDS ServiceRegistry

CONSTANTS u1, u2

\* The first unit has no row, the second has one.
OneRow == <<u2>>
=============================================================================
