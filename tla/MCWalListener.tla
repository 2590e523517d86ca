---------------------------- MODULE MCWalListener ----------------------------
(* Instances of WalListener for TLC. *)
EXTENDS WalListener

CONSTANTS t1, t2, tableA

\* All transactions change one table, and one of them two rows.
OneTable == [x \in Tx |-> tableA]
TwoAndOne == [x \in Tx |-> IF x = t1 THEN 2 ELSE 1]
=============================================================================
