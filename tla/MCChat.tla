------------------------------- MODULE MCChat --------------------------------
(* Ann, who owns the instance, on one connection, and a client with the tokens *)
(* of Ann and of Bob on another: it posts, and races with Ann as herself for   *)
(* channels of one name.                                                       *)
EXTENDS Chat, TLC

CONSTANTS a1, ab, ann, bob, g1, g2

Logins == [c \in Conns |-> IF c = a1 THEN {ann} ELSE {ann, bob}]
Posts == [c \in Conns |-> IF c = a1 THEN 0 ELSE 1]
OneName == [ch \in Channels |-> "general"]
TheName == {"general"}
Alike == Permutations(Channels)

\* Bound: Ann kicks Bob and not herself.
OnlyBobIsKicked == kicked \subseteq {bob}

BoundedChatSpec == ChatInit /\ [][ChatNext /\ OnlyBobIsKicked']_allVars
=============================================================================
