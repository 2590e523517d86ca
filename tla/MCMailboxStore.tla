--------------------------- MODULE MCMailboxStore ---------------------------
(* Instances of MailboxStore for TLC: threads as <<process, number>>. *)
EXTENDS MailboxStore

CONSTANTS p1, p2, k1, k2, n1, c1, c2

OneProcThreads == {<<p1, 1>>, <<p1, 2>>, <<p1, 3>>}
TwoProcThreads == {<<p1, 1>>, <<p1, 2>>, <<p2, 1>>}
ThreadProc == [t \in Thread |-> t[1]]
PurgerP1 == {<<p1, 1>>}
=============================================================================
