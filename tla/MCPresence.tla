----------------------------- MODULE MCPresence ------------------------------
(* Ann, who owns the instance, on one connection and Bob on two; the client of *)
(* a third one of Bob's has Ann's token, too.                                  *)
EXTENDS Presence

CONSTANTS a1, b1, b2, ab, ann, bob

Logins == [c \in Conns |-> CASE c = a1 -> {ann}
                             [] c = ab -> {ann, bob}
                             [] OTHER -> {bob}]
=============================================================================
