------------------------------ MODULE MCDeploy ------------------------------
(* Instances of Deploy for TLC: two operators and two applications, of which *)
(* one was never installed and has gcroots.                                  *)
EXTENDS Deploy

CONSTANTS a1, a2, v1, v2, c1, c2

Arguments == [c \in Command |->
    IF c = c1 THEN <<<<a1, v2>>, <<a2, v1>>>> ELSE <<<<a1, Current>>>>]
Jobs == {<<c, i>> \in Command \X (1..2) : i <= Len(Arguments[c])}
Order == <<a1, a2>>
=============================================================================
