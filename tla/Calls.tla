-------------------------------- MODULE Calls --------------------------------
(***************************************************************************)
(* What voice channels promise about who is in a call, with no word about  *)
(* connections, locks, peer connections, kicks in two halves or channels   *)
(* that come back: whoever joins is in one room until leaving, failing,    *)
(* being removed or being replaced by the same account, and never comes    *)
(* back; the others are told of a departure once, and only of those who    *)
(* left or failed by themselves.  Voice implements it.                     *)
(***************************************************************************)
EXTENDS Naturals

CONSTANTS Participants, Rooms, AccountOf, None

VARIABLES
  phase,   \* of each participant: "out", "in", "left" until that is told, "gone"
  room,    \* the room a participant is in, None outside of the phase "in"
  told     \* how often the departure of each was announced

vars == <<phase, room, told>>

Init ==
  /\ phase = [p \in Participants |-> "out"]
  /\ room = [p \in Participants |-> None]
  /\ told = [p \in Participants |-> 0]

Members(r) == {p \in Participants : room[p] = r}

Dismiss(S) ==
  /\ phase' = [p \in Participants |-> IF p \in S THEN "gone" ELSE phase[p]]
  /\ room' = [p \in Participants |-> IF p \in S THEN None ELSE room[p]]

\* Another participant of the same account makes way.
Enter(p, r) ==
  LET old == {q \in Members(r) : AccountOf[q] = AccountOf[p]} IN
    /\ phase[p] = "out"
    /\ phase' = [q \in Participants |->
                   IF q = p THEN "in" ELSE IF q \in old THEN "gone" ELSE phase[q]]
    /\ room' = [q \in Participants |->
                  IF q = p THEN r ELSE IF q \in old THEN None ELSE room[q]]
    /\ UNCHANGED told

\* A join that comes to nothing.
Abandon(p) ==
  /\ phase[p] = "out"
  /\ Dismiss({p})
  /\ UNCHANGED told

\* Leaving, or the loss of the connection, takes effect before it is announced.
Leave(p) ==
  /\ phase[p] = "in"
  /\ phase' = [phase EXCEPT ![p] = "left"]
  /\ room' = [room EXCEPT ![p] = None]
  /\ UNCHANGED told

Tell(p) ==
  /\ phase[p] = "left"
  /\ phase' = [phase EXCEPT ![p] = "gone"]
  /\ told' = [told EXCEPT ![p] = @ + 1]
  /\ UNCHANGED room

\* Removed by a moderator, without an announcement.
Remove(p) ==
  /\ phase[p] = "in"
  /\ Dismiss({p})
  /\ UNCHANGED told

\* The room is closed.
Clear(r) ==
  /\ Dismiss(Members(r))
  /\ UNCHANGED told

Next ==
  \/ \E p \in Participants :
       \/ \E r \in Rooms : Enter(p, r)
       \/ Abandon(p) \/ Leave(p) \/ Tell(p) \/ Remove(p)
  \/ \E r \in Rooms : Clear(r)

Spec == Init /\ [][Next]_vars
=============================================================================
