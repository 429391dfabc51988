-------------------------------- MODULE Clock --------------------------------
(* The wall clock and the runs of the process, which its parts share. *)
EXTENDS Integers

CONSTANTS
  MaxNow,    \* bound: how far the clock goes
  MaxRuns    \* bound: how often the process starts

ASSUME ClockAssumption == MaxNow \in Nat /\ MaxRuns \in Nat \ {0}

VARIABLES now, runs

ClockOK == now \in 0 .. MaxNow /\ runs \in 1 .. MaxRuns
ClockInit == now = 0 /\ runs = 1
Passes == now < MaxNow /\ now' = now + 1 /\ UNCHANGED runs
StartsAnew == runs < MaxRuns /\ runs' = runs + 1 /\ UNCHANGED now
=============================================================================
