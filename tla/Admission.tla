------------------------------ MODULE Admission ------------------------------
(***************************************************************************)
(* What an invite-only instance promises about who is in it, with no word  *)
(* about tickets, invites, statements, failures or crashes: an account is  *)
(* opened once, under a name nobody else holds, and stays as it is; the    *)
(* instance is claimed by the holder of an account and stays claimed; only *)
(* in a claimed instance do account holders become, or cease to be,        *)
(* members.  Onboarding implements it.                                     *)
(***************************************************************************)
CONSTANTS Users, Founders, Names, None

VARIABLES
  username,   \* the name each user holds, None before the account is opened
  claimed,    \* whether somebody has claimed the instance
  members     \* who belongs to it

vars == <<username, claimed, members>>

HasAccount(u) == username[u] # None

Init ==
  /\ username = [u \in Users |-> None]
  /\ claimed = FALSE
  /\ members = {}

OpenAccount(u) ==
  /\ ~HasAccount(u)
  /\ \E n \in Names :
       /\ \A v \in Users : username[v] # n
       /\ username' = [username EXCEPT ![u] = n]
  /\ UNCHANGED <<claimed, members>>

Claim(u) ==
  /\ u \in Founders
  /\ HasAccount(u)
  /\ claimed' = TRUE
  /\ UNCHANGED <<username, members>>

Admit(u) ==
  /\ claimed
  /\ HasAccount(u)
  /\ members' = members \cup {u}
  /\ UNCHANGED <<username, claimed>>

Remove(u) ==
  /\ claimed
  /\ members' = members \ {u}
  /\ UNCHANGED <<username, claimed>>

Next == \E u \in Users : OpenAccount(u) \/ Claim(u) \/ Admit(u) \/ Remove(u)

Spec == Init /\ [][Next]_vars
=============================================================================
