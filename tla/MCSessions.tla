------------------------------- MODULE MCSessions -------------------------------
(* Ann, who moderates, Bob, who joins twice, and two goroutines at the locks that the    *)
(* handlers take; two clients, one of which may stop reading.  A behaviour is about the  *)
(* handlers or about the locks.                                                          *)
EXTENDS MCVoice, Locks

CONSTANTS g1, g2, q1, q2

\* Bound: a behaviour is about one channel, v1 or the one without a name.
OneChannel == \A ch, other \in Channels : made[ch] > 0 /\ made[other] > 0 => ch = other

SessionsInit == Init /\ LocksInit

SessionsNext ==
  \/ LocksInit /\ Next /\ OneChannel' /\ UNCHANGED locksVars
  \/ Init /\ LocksNext /\ UNCHANGED vars

SessionsSpec ==
  /\ SessionsInit /\ [][SessionsNext]_<<vars, locksVars>>
  /\ LocksFairness
=============================================================================
