----------------------------- MODULE ProofOfWork -----------------------------
(***************************************************************************)
(* Manager and replayStore: a solved challenge is good once, until it      *)
(* expires.  Verify reads the clock for the expiry, reads it again, and    *)
(* only then waits for the mutex of the store, under which claim drops     *)
(* what has expired by that second reading.  Challenges are signed with a  *)
(* key derived from the configuration, so they outlive the process that    *)
(* issued them, and the store does not.  Proof of work is switched on.     *)
(***************************************************************************)
EXTENDS Clock

CONSTANTS
  Challenges,
  Requests,         \* requests that carry a solution, whatever the handler
  TTL,              \* ticks a challenge is good for
  SweepInterval,    \* ticks between sweeps
  None

ASSUME PowAssumption ==
  /\ TTL \in Nat \ {0} /\ SweepInterval \in Nat \ {0}
  /\ None \notin Challenges

VARIABLES
  expires,     \* the expiry in the salt of a challenge, 0 until it is issued
  used,        \* the keys of replayStore.seen
  powSwept,    \* replayStore.swept
  stage,       \* where Verify stands
  solves,      \* the challenge a request presents
  readAt,      \* the clock reading that goes into claim
  accepted     \* history: how often a challenge passed in this run

powVars == <<expires, used, powSwept, stage, solves, readAt, accepted>>

Verdicts == {"passed", "expired", "invalid", "replayed", "dead"}

PowTypeOK ==
  /\ expires \in [Challenges -> 0 .. MaxNow + TTL]
  /\ used \subseteq Challenges
  /\ powSwept \in {-SweepInterval} \cup 0 .. MaxNow
  /\ stage \in [Requests -> {"new", "signature", "claim"} \cup Verdicts]
  /\ solves \in [Requests -> Challenges \cup {None}]
  /\ readAt \in [Requests -> 0 .. MaxNow]
  /\ accepted \in [Challenges -> Nat]

PowInit ==
  /\ expires = [ch \in Challenges |-> 0]
  /\ used = {}
  /\ powSwept = -SweepInterval
  /\ stage = [r \in Requests |-> "new"]
  /\ solves = [r \in Requests |-> None]
  /\ readAt = [r \in Requests |-> 0]
  /\ accepted = [ch \in Challenges |-> 0]

To(r, there) == stage' = [stage EXCEPT ![r] = there]

Issue(ch) ==
  /\ expires[ch] = 0
  /\ expires' = [expires EXCEPT ![ch] = now + TTL]
  /\ UNCHANGED <<used, powSwept, stage, solves, readAt, accepted>>

CheckExpiry(r, ch) ==
  /\ stage[r] = "new" /\ expires[ch] # 0
  /\ solves' = [solves EXCEPT ![r] = ch]
  /\ To(r, IF now > expires[ch] THEN "expired" ELSE "signature")
  /\ UNCHANGED <<expires, used, powSwept, readAt, accepted>>

CheckSolutionClaimed(r) ==
  /\ stage[r] = "signature"
  /\ \/ To(r, "invalid") /\ used' = used \cup {solves[r]} /\ UNCHANGED readAt
     \/ To(r, "claim") /\ readAt' = [readAt EXCEPT ![r] = now] /\ UNCHANGED used
  /\ UNCHANGED <<expires, powSwept, solves, accepted>>

\* The number or the signature may be wrong; if not, the clock is read for claim.
CheckSolution(r) ==
  /\ stage[r] = "signature"
  /\ \/ To(r, "invalid") /\ UNCHANGED readAt
     \/ To(r, "claim") /\ readAt' = [readAt EXCEPT ![r] = now]
  /\ UNCHANGED <<expires, used, powSwept, solves, accepted>>

UsedAfterEarlySweep(at) ==
  IF at - powSwept < SweepInterval THEN used ELSE {ch \in used : at < expires[ch]}

\* Entries that have expired go, once per interval, by the reading of the caller.
UsedAfterSweep(at) ==
  IF at - powSwept < SweepInterval THEN used ELSE {ch \in used : at <= expires[ch]}

Claim(r) ==
  /\ stage[r] = "claim"
  /\ LET at == readAt[r]
         ch == solves[r] IN
       /\ powSwept' = IF at - powSwept < SweepInterval THEN powSwept ELSE at
       /\ used' = UsedAfterSweep(at) \cup {ch}
       /\ IF ch \in UsedAfterSweep(at)
            THEN To(r, "replayed") /\ UNCHANGED accepted
            ELSE /\ To(r, "passed")
                 /\ accepted' = [accepted EXCEPT ![ch] = @ + 1]
  /\ readAt' = [readAt EXCEPT ![r] = 0]
  /\ UNCHANGED <<expires, solves>>

Verify(r) ==
  \/ \E ch \in Challenges : CheckExpiry(r, ch)
  \/ CheckSolution(r) \/ Claim(r)

\* The store is memory; what is being verified is lost with it.
LoseStore ==
  /\ used' = {} /\ powSwept' = -SweepInterval
  /\ stage' = [r \in Requests |->
                 IF stage[r] \in {"signature", "claim"} THEN "dead" ELSE stage[r]]
  /\ accepted' = [ch \in Challenges |-> 0]
  /\ UNCHANGED <<expires, solves, readAt>>

-----------------------------------------------------------------------------
\* As long as a challenge has not expired it has passed once at most in this run of the
\* process, however claims, clock readings and sweeps of several requests interleave.
UsedOnce ==
  \A ch \in Challenges : now <= expires[ch] => accepted[ch] <= 1

\* pow.go:31: a second solution is refused as "proof of work already used", late or not.
PassesOnce == \A ch \in Challenges : accepted[ch] <= 1

\* Nothing but a request that passed spends a challenge: wrong and late solutions of
\* others never make the right one a replay.
ReplayMeansPassed ==
  \A r \in Requests : stage[r] = "replayed" =>
    \E other \in Requests : stage[other] = "passed" /\ solves[other] = solves[r]
=============================================================================
