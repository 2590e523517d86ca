--------------------------- MODULE MCJournalSlurp ---------------------------
(* Instances of JournalSlurp for TLC. *)
EXTENDS JournalSlurp

CONSTANTS s1, s2, u1, u2, u3
=============================================================================
