----------------------------- MODULE TokenBucket -----------------------------
(***************************************************************************)
(* What a rate limiter promises: a bucket per key, for ever, which starts  *)
(* full, is refilled as time passes, and pays for each attempt it grants.  *)
(* An attempt that finds too little is refused and changes nothing.        *)
(***************************************************************************)
EXTENDS Naturals

CONSTANTS
  Keys,     \* addresses or account names
  Cap,      \* what a full bucket holds
  Cost,     \* what an attempt is charged
  Gain      \* what a bucket gains per tick of the clock

VARIABLES now, runs, level

AtMostCap(n) == IF n > Cap THEN Cap ELSE n

Init == now = 0 /\ runs = 1 /\ level = [k \in Keys |-> Cap]

Tick ==
  /\ now' = now + 1
  /\ level' = [k \in Keys |-> AtMostCap(level[k] + Gain)]
  /\ UNCHANGED runs

Charge(k) ==
  /\ level[k] >= Cost
  /\ level' = [level EXCEPT ![k] = @ - Cost]
  /\ UNCHANGED <<now, runs>>

\* Only a restart of the process may fill buckets.
Restart ==
  /\ runs' = runs + 1
  /\ level' = [k \in Keys |-> Cap]
  /\ UNCHANGED now

Next == Tick \/ Restart \/ \E k \in Keys : Charge(k)

Spec == Init /\ [][Next]_<<now, runs, level>>
=============================================================================
