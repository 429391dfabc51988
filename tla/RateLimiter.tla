----------------------------- MODULE RateLimiter -----------------------------
(***************************************************************************)
(* Limiter: buckets made on demand and dropped again when nobody asked for *)
(* them for IdleTTL.  Buckets are golang.org/x/time/rate limiters; theirs  *)
(* are fractions of tokens, computed when asked for, here they are whole   *)
(* and grow with the clock.  Allow holds the mutex from end to end.        *)
(***************************************************************************)
EXTENDS Clock

CONSTANTS
  Keys,       \* what requests are limited by
  Cap,        \* burst, in units of the smallest refill
  Cost,       \* one attempt
  Gain,       \* refill per tick
  IdleTTL     \* ticks after which an unused bucket may go

\* New makes both rate and burst positive.
ASSUME LimiterAssumption ==
  /\ Cap \in Nat /\ Cost \in Nat \ {0} /\ Cost <= Cap
  /\ Gain \in Nat \ {0} /\ IdleTTL \in Nat \ {0}

\* An idle bucket is full again before it is dropped.  With ten minutes this holds of
\* the limiters of server/ratelimit.go, at least five attempts per minute and a burst of
\* ten at most; of the upload limiter only as it is configured (config.go:94).
IdleRefills == Cap <= IdleTTL * Gain

VARIABLES
  kept,      \* the keys of Limiter.buckets
  tokens,    \* what a kept bucket holds
  seen,      \* when it was last asked for
  swept      \* Limiter.swept

limiterVars == <<kept, tokens, seen, swept>>

LimiterTypeOK ==
  /\ kept \subseteq Keys
  /\ tokens \in [Keys -> 0 .. Cap]
  /\ seen \in [Keys -> 0 .. MaxNow]
  /\ swept \in {-IdleTTL} \cup 0 .. MaxNow

\* Long before the first request.
NoBuckets ==
  /\ kept = {}
  /\ tokens = [k \in Keys |-> Cap]
  /\ seen = [k \in Keys |-> 0]
  /\ swept = -IdleTTL

LimiterInit == ClockInit /\ NoBuckets

AtMostCap(n) == IF n > Cap THEN Cap ELSE n

Refill ==
  /\ tokens' = [k \in Keys |-> AtMostCap(tokens[k] + Gain)]
  /\ UNCHANGED <<kept, seen, swept>>

SweepDue == now - swept >= IdleTTL

KeptUnlessSwept == IF SweepDue THEN {} ELSE kept

\* The buckets that survive the sweep Allow begins with.
KeptAfterSweep ==
  IF SweepDue THEN {k \in kept : now - seen[k] < IdleTTL} ELSE kept

TokensFor(k) == IF k \in KeptAfterSweep THEN tokens[k] ELSE Cap

Grants(k) == TokensFor(k) >= Cost

\* A refused attempt makes a bucket, too, and counts as use.
Allow(k) ==
  /\ kept' = KeptAfterSweep \cup {k}
  /\ tokens' = [j \in Keys |-> IF j = k /\ Grants(k) THEN TokensFor(j) - Cost ELSE TokensFor(j)]
  /\ seen' = [j \in Keys |-> IF j = k THEN now ELSE IF j \in KeptAfterSweep THEN seen[j] ELSE 0]
  /\ swept' = IF SweepDue THEN now ELSE swept

Forget ==
  /\ kept' = {}
  /\ tokens' = [k \in Keys |-> Cap]
  /\ seen' = [k \in Keys |-> 0]
  /\ swept' = -IdleTTL

LimiterNext ==
  \/ Passes /\ Refill
  \/ StartsAnew /\ Forget
  \/ \E k \in Keys : Allow(k) /\ UNCHANGED <<now, runs>>

LimiterSpec == LimiterInit /\ [][LimiterNext]_<<now, runs, limiterVars>>

-----------------------------------------------------------------------------
\* A bucket that is not kept is as good as a full one.
Level == [k \in Keys |-> IF k \in kept THEN tokens[k] ELSE Cap]

Promise == INSTANCE TokenBucket WITH level <- Level

\* Dropping idle buckets is invisible where IdleRefills holds: whoever asks is answered
\* as by a limiter that keeps every bucket for ever (limiter.go:62).
SweepForgetsNothing == Promise!Spec
=============================================================================
