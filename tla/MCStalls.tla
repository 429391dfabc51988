------------------------------- MODULE MCStalls --------------------------------
(* Ann and Bob, who each join once; Bob's client may stop reading. *)
EXTENDS MCVoice

\* Bound: a deleted channel is not asked for again.
AskedForOnce == \A ch \in Channels : made[ch] <= 1

StallsSpec == Init /\ [][Next /\ AskedForOnce']_vars /\ VoiceFairness
=============================================================================
