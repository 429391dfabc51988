------------------------------- MODULE MCRelay -------------------------------
(* Ann and Bob, who join a voice channel once each. *)
EXTENDS Relay

CONSTANTS a1, b1, ann, bob, v1, empty

Logins == [c \in Conns |-> IF c = a1 THEN ann ELSE bob]
EachJoinsOnce == [c \in Conns |-> 1]
=============================================================================
