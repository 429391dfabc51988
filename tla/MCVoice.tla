------------------------------ MODULE MCVoice --------------------------------
(* Ann, who owns the instance, on one connection and Bob on another. *)
EXTENDS Voice

CONSTANTS a1, b1, ann, bob, v1, empty

Logins == [c \in Conns |-> IF c = a1 THEN ann ELSE bob]

\* Bob joins once, or twice, and Ann only moderates; or each of them joins.
BobJoinsOnce == [c \in Conns |-> IF c = a1 THEN 0 ELSE 1]
BobJoinsTwice == [c \in Conns |-> IF c = a1 THEN 0 ELSE 2]
EachJoinsOnce == [c \in Conns |-> 1]
=============================================================================
