-------------------------------- MODULE Login --------------------------------
(***************************************************************************)
(* LoginHandler: a proof of work first, then one attempt from the bucket   *)
(* of the account, then the password.  Requests of the other handlers that *)
(* ask for a proof of work compete with logins for the store.  The limits  *)
(* per address, which a request meets before its handler, are Limiters of  *)
(* their own; whether the instance is claimed is left to Onboarding.       *)
(***************************************************************************)
EXTENDS RateLimiter, ProofOfWork

CONSTANT KeyOf    \* the trimmed, lower-case username of a login, None for others

\* The limiter per account allows five per minute in a burst of five (ratelimit.go:15).
ASSUME LoginAssumption ==
  /\ KeyOf \in [Requests -> Keys \cup {None}] /\ None \notin Keys
  /\ IdleRefills

VARIABLES
  answer,     \* of the limiter: "none" yet, "limited", or "checked", as the password is
  checks,     \* history: the passwords checked per account in this run
  started     \* history: when this run started

loginVars == <<now, runs, limiterVars, powVars, answer, checks, started>>

TypeOK ==
  /\ ClockOK /\ LimiterTypeOK /\ PowTypeOK
  /\ answer \in [Requests -> {"none", "limited", "checked", "dead"}]
  /\ checks \in [Keys -> Nat]
  /\ started \in 0 .. now

Init ==
  /\ LimiterInit /\ PowInit
  /\ answer = [r \in Requests |-> "none"]
  /\ checks = [k \in Keys |-> 0]
  /\ started = 0

Tick == Passes /\ Refill /\ UNCHANGED <<powVars, answer, checks, started>>

Prove ==
  /\ (\E ch \in Challenges : Issue(ch)) \/ (\E r \in Requests : Verify(r))
  /\ UNCHANGED <<now, runs, limiterVars, answer, checks, started>>

AttemptAfterPassword(r) ==
  /\ stage[r] = "passed" /\ answer[r] = "none" /\ KeyOf[r] # None
  /\ Allow(KeyOf[r])
  /\ answer' = [answer EXCEPT ![r] = IF Grants(KeyOf[r]) THEN "checked" ELSE "limited"]
  /\ checks' = [checks EXCEPT ![KeyOf[r]] = @ + 1]
  /\ UNCHANGED <<now, runs, powVars, started>>

\* perAccount.Allow and, when it grants the attempt, Login.
Attempt(r) ==
  /\ stage[r] = "passed" /\ answer[r] = "none" /\ KeyOf[r] # None
  /\ Allow(KeyOf[r])
  /\ IF Grants(KeyOf[r])
       THEN /\ answer' = [answer EXCEPT ![r] = "checked"]
            /\ checks' = [checks EXCEPT ![KeyOf[r]] = @ + 1]
       ELSE answer' = [answer EXCEPT ![r] = "limited"] /\ UNCHANGED checks
  /\ UNCHANGED <<now, runs, powVars, started>>

Restart ==
  /\ StartsAnew /\ Forget /\ LoseStore
  /\ answer' = [r \in Requests |->
                  IF stage[r] = "passed" /\ answer[r] = "none" THEN "dead" ELSE answer[r]]
  /\ checks' = [k \in Keys |-> 0]
  /\ started' = now

Next == Tick \/ Prove \/ Restart \/ \E r \in Requests : Attempt(r)

Spec == Init /\ [][Next]_loginVars

-----------------------------------------------------------------------------
\* In one run of the process an account's password is checked no more often than a
\* burst and the refill since allow, whatever the sweep dropped (ratelimit.go:15).
PasswordsBounded ==
  \A k \in Keys : checks[k] * Cost <= Cap + Gain * (now - started)
=============================================================================
