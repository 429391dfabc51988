-------------------------------- MODULE Feed ---------------------------------
(***************************************************************************)
(* What clients may believe of the messages and channels they are told of, *)
(* with no word about handlers, statements that fail, rosters, locks or    *)
(* overlapping broadcasts: an item is saved once and removed once; of      *)
(* rivals, which are channels of one name and type, only one is there at a *)
(* time; every client is told of either at most once, not before it is     *)
(* true, and not after its connection has closed.  Two events may be told  *)
(* in the order opposite to the one they happened in, and may be missed.   *)
(* Chat implements it.                                                     *)
(***************************************************************************)
EXTENDS Naturals

CONSTANTS
  Items,
  Rivals,    \* of each item, the others that must not be there with it
  Clients

VARIABLES
  item,     \* "none", "live" or "gone"
  heard,    \* how often a client was told that an item is "new" or "gone"
  closed    \* clients whose connection has

vars == <<item, heard, closed>>

Init ==
  /\ item = [x \in Items |-> "none"]
  /\ heard = [c \in Clients |-> [e \in {"new", "gone"} \X Items |-> 0]]
  /\ closed = {}

Save(x) ==
  /\ item[x] = "none" /\ \A rival \in Rivals[x] : item[rival] # "live"
  /\ item' = [item EXCEPT ![x] = "live"]
  /\ UNCHANGED <<heard, closed>>

Remove(x) ==
  /\ item[x] = "live"
  /\ item' = [item EXCEPT ![x] = "gone"]
  /\ UNCHANGED <<heard, closed>>

Tell(c, x, what) ==
  /\ c \notin closed /\ heard[c][<<what, x>>] = 0
  /\ item[x] \in (IF what = "new" THEN {"live", "gone"} ELSE {"gone"})
  /\ heard' = [heard EXCEPT ![c] = [@ EXCEPT ![<<what, x>>] = 1]]
  /\ UNCHANGED <<item, closed>>

Close(c) ==
  /\ closed' = closed \cup {c}
  /\ UNCHANGED <<item, heard>>

Next ==
  \/ \E x \in Items : Save(x) \/ Remove(x)
  \/ \E c \in Clients :
       \/ \E x \in Items, what \in {"new", "gone"} : Tell(c, x, what)
       \/ Close(c)

Spec == Init /\ [][Next]_vars
=============================================================================
