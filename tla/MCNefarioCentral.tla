-------------------------- MODULE MCNefarioCentral --------------------------
(* Instances of NefarioCentral for TLC. *)
EXTENDS NefarioCentral

CONSTANTS r1, r2, m1, s1, w1

\* Two runs of one service, and the minion's own run.
RunService == [r \in Run |-> IF r = m1 THEN NoService ELSE s1]
=============================================================================
