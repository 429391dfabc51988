----------------------------- MODULE LoginProofs -----------------------------
(***************************************************************************)
(* Login for every number of requests, challenges and accounts.  The       *)
(* limiter inside it goes through the steps of RateLimiter and keeps its   *)
(* promise; the store of used challenges forgets only what has expired.    *)
(***************************************************************************)
EXTENDS Login, RateLimiterProofs

\* What a request knows of its challenge, and how old its reading of the clock is.
Presented ==
  \A r \in Requests :
    /\ stage[r] \in {"signature", "claim", "passed", "replayed"} =>
         solves[r] \in Challenges /\ expires[solves[r]] # 0
    /\ readAt[r] <= now

\* Nothing is claimed before it is issued.
Unissued == \A ch \in Challenges : expires[ch] = 0 => ch \notin used /\ accepted[ch] = 0

\* The store still holds what was claimed, until it expires.
Remembered ==
  \A ch \in Challenges : accepted[ch] # 0 /\ now <= expires[ch] => ch \in used

\* What the store holds was claimed by a request that passed.
UsedByPassed ==
  \A ch \in used : \E r \in Requests : stage[r] = "passed" /\ solves[r] = ch

\* Checked passwords and what is left in the bucket come out of burst and refill.
Budget ==
  \A k \in Keys : checks[k] * Cost + Level[k] <= Cap + Gain * (now - started)

IInv ==
  /\ TypeOK
  /\ Refilled
  /\ Presented
  /\ Unissued
  /\ Remembered
  /\ UsedByPassed
  /\ UsedOnce
  /\ ReplayMeansPassed
  /\ Budget

PowInv ==
  /\ ClockOK /\ PowTypeOK
  /\ Presented /\ Unissued /\ Remembered /\ UsedByPassed /\ UsedOnce /\ ReplayMeansPassed

USE LimiterAssumption, ClockAssumption, PowAssumption, LoginAssumption

\* The levels of the buckets are numbers up to the cap.
LEMMA LevelType == LimiterTypeOK => Level \in [Keys -> 0 .. Cap]
  BY DEF LimiterTypeOK, Level

\* Issuing and verifying one step further keep the store right.
LEMMA PowStep ==
  ASSUME PowInv, UNCHANGED now, UNCHANGED runs,
         (\E ch \in Challenges : Issue(ch)) \/ (\E r \in Requests : Verify(r))
  PROVE  PowInv'
<1> USE DEF PowInv, ClockOK, PowTypeOK, Presented, Unissued, Remembered, UsedByPassed,
        UsedOnce, ReplayMeansPassed, Verdicts, To
<1>1. ASSUME NEW ch \in Challenges, Issue(ch) PROVE PowInv'
  <2>1. PowTypeOK' /\ ClockOK'
    BY <1>1 DEF Issue
  <2>2. Presented' /\ Unissued' /\ Remembered'
    BY <1>1 DEF Issue
  <2>3. UsedByPassed' /\ UsedOnce' /\ ReplayMeansPassed'
    BY <1>1 DEF Issue
  <2> QED
    BY <2>1, <2>2, <2>3
<1>2. ASSUME NEW r \in Requests, NEW ch \in Challenges, CheckExpiry(r, ch) PROVE PowInv'
  BY <1>2 DEF CheckExpiry
<1>3. ASSUME NEW r \in Requests, CheckSolution(r) PROVE PowInv'
  BY <1>3 DEF CheckSolution
<1>4. ASSUME NEW r \in Requests, Claim(r) PROVE PowInv'
  <2> DEFINE ch == solves[r]
             at == readAt[r]
  <2>1. ch \in Challenges /\ expires[ch] # 0 /\ at <= now /\ at \in 0 .. MaxNow
    BY <1>4 DEF Claim
  <2>2. /\ used' = UsedAfterSweep(at) \cup {ch}
        /\ UsedAfterSweep(at) \subseteq used
        /\ \A x \in used : x \notin UsedAfterSweep(at) => at > expires[x]
    BY <1>4, <2>1 DEF Claim, UsedAfterSweep
  <2>3. UNCHANGED <<expires, solves>> /\ PowTypeOK' /\ ClockOK'
    BY <1>4, <2>1, <2>2 DEF Claim
  <2>4. Presented' /\ Unissued'
    BY <1>4, <2>1, <2>2, <2>3 DEF Claim
  <2>5. CASE ch \in UsedAfterSweep(at)
    <3>1. UNCHANGED accepted /\ stage' = [stage EXCEPT ![r] = "replayed"] /\ stage[r] = "claim"
      BY <1>4, <2>5 DEF Claim
    <3>2. Remembered' /\ UsedOnce'
      BY <2>1, <2>2, <2>3, <3>1
    <3>3. UsedByPassed' /\ ReplayMeansPassed'
      BY <2>1, <2>2, <2>3, <2>5, <3>1
    <3> QED
      BY <2>3, <2>4, <3>2, <3>3
  <2>6. CASE ch \notin UsedAfterSweep(at)
    <3>1. /\ accepted' = [accepted EXCEPT ![ch] = @ + 1]
          /\ stage' = [stage EXCEPT ![r] = "passed"] /\ stage[r] = "claim"
      BY <1>4, <2>6 DEF Claim
    <3>2. now <= expires[ch] => accepted[ch] = 0
      BY <2>1, <2>2, <2>6
    <3>3. Remembered' /\ UsedOnce'
      BY <2>1, <2>2, <2>3, <3>1, <3>2
    <3>4. UsedByPassed' /\ ReplayMeansPassed'
      BY <2>1, <2>2, <2>3, <3>1
    <3> QED
      BY <2>3, <2>4, <3>3, <3>4
  <2> QED
    BY <2>5, <2>6
<1> QED
  BY <1>1, <1>2, <1>3, <1>4 DEF Verify

\* As time passes challenges only expire.
LEMMA PowTick ==
  ASSUME PowInv, Passes, UNCHANGED powVars
  PROVE  PowInv'
  BY DEF PowInv, Passes, powVars, ClockOK, PowTypeOK, Presented, Unissued, Remembered,
     UsedByPassed, UsedOnce, ReplayMeansPassed, Verdicts

\* A new process has used nothing.
LEMMA PowRestart ==
  ASSUME PowInv, StartsAnew, LoseStore
  PROVE  PowInv'
  BY DEF PowInv, StartsAnew, LoseStore, ClockOK, PowTypeOK, Presented, Unissued, Remembered,
     UsedByPassed, UsedOnce, ReplayMeansPassed, Verdicts

\* Requests that have not begun have used nothing.
LEMMA LoginInit == Init => IInv
<1> SUFFICES ASSUME Init PROVE IInv
  OBVIOUS
<1>1. TypeOK /\ Refilled
  BY LimiterInitInv DEF Init, PowInit, LimiterInv, TypeOK, PowTypeOK, LimiterInit, ClockInit
<1>2. Presented /\ Unissued /\ Remembered /\ UsedByPassed /\ UsedOnce /\ ReplayMeansPassed
  BY DEF Init, PowInit, LimiterInit, ClockInit, Presented, Unissued, Remembered,
     UsedByPassed, UsedOnce, ReplayMeansPassed
<1>3. \A k \in Keys : checks[k] = 0 /\ Level[k] = Cap /\ now - started = 0
  BY DEF Init, LimiterInit, ClockInit, NoBuckets, Level
<1>4. Budget
  BY <1>3 DEF Budget
<1> QED
  BY <1>1, <1>2, <1>4 DEF IInv

\* The parts of the invariant that the modules below keep.
LEMMA IInvParts == IInv => PowInv /\ LimiterInv
  BY DEF IInv, PowInv, LimiterInv, TypeOK

\* Every step of a login is one of its limiter, or leaves that alone.
LEMMA LimiterIsStep ==
  ASSUME Next
  PROVE  [LimiterNext]_<<now, runs, limiterVars>>
  BY DEF Next, Tick, Prove, Restart, Attempt, LimiterNext, Allow, LimiterAssumption

\* One more password is charged one more attempt.
LEMMA OneCheckMore ==
  ASSUME NEW n \in Nat
  PROVE  (n + 1) * Cost = n * Cost + Cost /\ n * Cost \in Nat
  OBVIOUS

\* The clock, a verification, an attempt and a restart preserve the invariant.
LEMMA LoginStep == IInv /\ [Next]_loginVars => IInv'
<1> SUFFICES ASSUME IInv, [Next]_loginVars PROVE IInv'
  OBVIOUS
<1>1. PowInv /\ LimiterInv
  BY IInvParts
<1>2. Level \in [Keys -> 0 .. Cap] /\ checks \in [Keys -> Nat] /\ now \in Nat /\ started \in 0 .. now
  BY LevelType DEF IInv, TypeOK, ClockOK
<1>3. CASE Tick
  <2>1. PowInv'
    BY <1>1, <1>3, PowTick DEF Tick
  <2>2. LimiterInv'
    BY <1>1, <1>3, TickKeepsInv DEF Tick
  <2>3. TypeOK'
    BY <1>3, <2>1, <2>2 DEF IInv, TypeOK, Tick, PowInv, LimiterInv, Passes, ClockOK
  <2>4. ASSUME NEW k \in Keys
        PROVE  checks'[k] * Cost + Level'[k] <= Cap + Gain * (now' - started')
    <3>1. Level'[k] <= Level[k] + Gain /\ Level'[k] \in Nat
      BY <1>2, <1>3 DEF Tick, Refill, Level, AtMostCap, IInv, TypeOK, LimiterTypeOK
    <3>2. Gain * (now' - started') = Gain * (now - started) + Gain
      <4>1. now' - started' = (now - started) + 1 /\ now - started \in Nat
        BY <1>2, <1>3 DEF Tick, Passes
      <4> QED
        BY <4>1, OneTickMore
    <3>3. checks[k] * Cost + Level[k] <= Cap + Gain * (now - started)
      BY DEF IInv, Budget
    <3>4. checks[k] * Cost \in Nat /\ Gain * (now - started) \in Nat
      <4>1. now - started \in Nat
        BY <1>2
      <4> QED
        BY <1>2, <4>1
    <3>5. checks'[k] * Cost = checks[k] * Cost
      BY <1>3 DEF Tick
    <3> QED
      BY <1>2, <3>1, <3>2, <3>3, <3>4, <3>5
  <2> QED
    BY <2>1, <2>2, <2>3, <2>4 DEF IInv, Budget, PowInv, LimiterInv
<1>4. CASE Prove
  <2>1. PowInv'
    BY <1>1, <1>4, PowStep DEF Prove
  <2>2. TypeOK' /\ Refilled'
    BY <1>4, <2>1 DEF IInv, TypeOK, Prove, PowInv, limiterVars, LimiterTypeOK, ClockOK, Refilled
  <2>3. Budget'
    BY <1>4 DEF IInv, Budget, Prove, limiterVars, Level
  <2> QED
    BY <2>1, <2>2, <2>3 DEF IInv, PowInv
<1>5. ASSUME NEW r \in Requests, Attempt(r) PROVE IInv'
  <2>1. KeyOf[r] \in Keys /\ Allow(KeyOf[r]) /\ UNCHANGED <<now, runs, powVars, started>>
    BY <1>5 DEF Attempt
  <2>2. LimiterInv'
    BY <1>1, <2>1, AllowKeepsInv
  <2>3. PowInv'
    BY <1>1, <2>1 DEF PowInv, powVars, ClockOK, PowTypeOK, Presented, Unissued, Remembered,
       UsedByPassed, UsedOnce, ReplayMeansPassed, Verdicts
  <2>4. TypeOK'
    BY <1>5, <2>1, <2>2, <2>3 DEF IInv, TypeOK, Attempt, PowInv, LimiterInv
  <2>5. ASSUME NEW k \in Keys
        PROVE  checks'[k] * Cost + Level'[k] <= Cap + Gain * (now' - started')
    <3>1. checks[k] * Cost + Level[k] <= Cap + Gain * (now - started)
      BY DEF IInv, Budget
    <3>2. CASE k = KeyOf[r] /\ Grants(k)
      <4>1. checks'[k] = checks[k] + 1 /\ Level'[k] = Level[k] - Cost
        BY <1>1, <1>2, <1>5, <2>1, <3>2, AllowLevels DEF Attempt
      <4>2. checks'[k] * Cost = checks[k] * Cost + Cost /\ checks[k] * Cost \in Nat
        BY <1>2, <4>1, OneCheckMore
      <4>3. Level[k] \in Nat
        BY <1>2
      <4>4. checks'[k] * Cost + Level'[k] = checks[k] * Cost + Level[k]
        BY <4>1, <4>2, <4>3
      <4> QED
        BY <2>1, <3>1, <4>4
    <3>3. CASE ~(k = KeyOf[r] /\ Grants(k))
      <4>1. checks'[k] = checks[k]
        BY <1>2, <1>5, <3>3 DEF Attempt
      <4>2. Level'[k] = Level[k]
        BY <1>1, <2>1, <3>3, AllowLevels
      <4> QED
        BY <2>1, <3>1, <4>1, <4>2
    <3> QED
      BY <3>2, <3>3
  <2> QED
    BY <2>2, <2>3, <2>4, <2>5 DEF IInv, Budget, PowInv, LimiterInv
<1>6. CASE Restart
  <2>1. PowInv' /\ LimiterInv'
    BY <1>1, <1>6, PowRestart, ForgetKeepsInv DEF Restart
  <2>2. TypeOK'
    BY <1>2, <1>6, <2>1 DEF IInv, TypeOK, Restart, StartsAnew, PowInv, LimiterInv
  <2>3. \A k \in Keys : checks'[k] = 0 /\ Level'[k] = Cap /\ now' - started' = 0
    BY <1>2, <1>6 DEF Restart, StartsAnew, Forget, Level
  <2>4. Budget'
    BY <2>3 DEF Budget
  <2> QED
    BY <2>1, <2>2, <2>4 DEF IInv, PowInv, LimiterInv
<1>7. CASE UNCHANGED loginVars
  BY <1>7 DEF loginVars, limiterVars, powVars, IInv, TypeOK, ClockOK, LimiterTypeOK, PowTypeOK,
     Refilled, Presented, Unissued, Remembered, UsedByPassed, UsedOnce, ReplayMeansPassed,
     Budget, Level, Verdicts
<1> QED
  BY <1>3, <1>4, <1>5, <1>6, <1>7 DEF Next

\* The inductive invariant holds in every reachable state of every instance.
THEOREM LoginInvariant == Spec => []IInv
  BY LoginInit, LoginStep, PTL DEF Spec

\* Every variable keeps its type.
THEOREM TypeCorrect == Spec => []TypeOK
  BY LoginInvariant, PTL DEF IInv

\* For any number of requests: until it expires a challenge passes once per run.
THEOREM ChallengesAreUsedOnce == Spec => []UsedOnce
  BY LoginInvariant, PTL DEF IInv

\* For any number of requests: a replay is only ever of a request that passed.
THEOREM ReplaysAreReplays == Spec => []ReplayMeansPassed
  BY LoginInvariant, PTL DEF IInv

\* A budget that is kept bounds what was taken from it.
LEMMA BudgetBounds == IInv => PasswordsBounded
<1> SUFFICES ASSUME IInv, NEW k \in Keys
             PROVE  checks[k] * Cost <= Cap + Gain * (now - started)
  BY DEF PasswordsBounded
<1>1. Level[k] \in Nat /\ checks[k] \in Nat /\ now - started \in Nat
  BY LevelType DEF IInv, TypeOK, ClockOK
<1>2. checks[k] * Cost \in Nat /\ Gain * (now - started) \in Nat
  BY <1>1
<1>3. checks[k] * Cost + Level[k] <= Cap + Gain * (now - started)
  BY DEF IInv, Budget
<1> QED
  BY <1>1, <1>2, <1>3

\* For any number of requests and whatever is swept: the passwords of an account are
\* checked no more often than burst and refill allow.
THEOREM PasswordChecksBounded == Spec => []PasswordsBounded
  BY LoginInvariant, BudgetBounds, PTL

\* The limiter inside Login is a Limiter.
LEMMA LoginLimits == Spec => LimiterSpec
<1>1. Init => LimiterInit
  BY DEF Init
<1>2. [Next]_loginVars => [LimiterNext]_<<now, runs, limiterVars>>
  BY LimiterIsStep DEF loginVars
<1> QED
  BY <1>1, <1>2, PTL DEF Spec, LimiterSpec

\* Among logins, too, nobody can tell that buckets are dropped.
THEOREM LoginKeepsPromise == Spec => SweepForgetsNothing
<1>1. IdleRefills
  BY LoginAssumption
<1> QED
  BY <1>1, LoginLimits, LimiterKeepsPromise
=============================================================================
