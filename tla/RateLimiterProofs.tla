-------------------------- MODULE RateLimiterProofs --------------------------
(***************************************************************************)
(* The limiter keeps the promise of TokenBucket for any number of keys and *)
(* every rate, burst and idle time with which an idle bucket is full again *)
(* before it may be dropped; and the key of a request is that of whoever   *)
(* sent it, through any number of trusted proxies.                         *)
(***************************************************************************)
EXTENDS RateLimiter, ClientAddress, TLAPS

\* What a bucket must have gained while nobody asked for it.
Refilled ==
  \A k \in kept : seen[k] <= now /\ (tokens[k] = Cap \/ tokens[k] >= Gain * (now - seen[k]))

LimiterInv == ClockOK /\ LimiterTypeOK /\ Refilled

USE LimiterAssumption, ClockAssumption

\* A longer wait gains as much as the product says.
LEMMA OneTickMore ==
  ASSUME NEW t \in Nat
  PROVE  Gain * t \in Nat /\ Gain * (t + 1) = Gain * t + Gain
  OBVIOUS

\* What is gained in IdleTTL ticks fills a bucket.
LEMMA WaitFills ==
  ASSUME IdleRefills, NEW t \in 0 .. Cap, NEW d \in Nat, d >= IdleTTL, t >= Gain * d
  PROVE  t = Cap
<1>1. PICK e \in Nat : d = IdleTTL + e
  BY d - IdleTTL \in Nat, d = IdleTTL + (d - IdleTTL)
<1>2. Gain * d = Gain * IdleTTL + Gain * e
  BY <1>1
<1>3. Gain * e \in Nat /\ Gain * IdleTTL \in Nat /\ IdleTTL * Gain = Gain * IdleTTL
  OBVIOUS
<1> QED
  BY <1>2, <1>3 DEF IdleRefills

\* A bucket that was not asked for in IdleTTL ticks is full.
LEMMA IdleIsFull ==
  ASSUME IdleRefills, LimiterInv, NEW k \in kept, now - seen[k] >= IdleTTL
  PROVE  tokens[k] = Cap
<1>1. now - seen[k] \in Nat /\ k \in Keys /\ tokens[k] \in 0 .. Cap
  BY DEF LimiterInv, LimiterTypeOK, ClockOK, Refilled
<1>2. tokens[k] = Cap \/ tokens[k] >= Gain * (now - seen[k])
  BY DEF LimiterInv, Refilled
<1> QED
  BY <1>1, <1>2, WaitFills

\* Every survivor and every dropped bucket is worth what Level says.
LEMMA SweepKeepsLevel ==
  ASSUME IdleRefills, LimiterInv, NEW k \in Keys
  PROVE  TokensFor(k) = Level[k]
<1>1. CASE k \in kept /\ k \notin KeptAfterSweep
  <2>1. ~(now - seen[k] < IdleTTL)
    BY <1>1 DEF KeptAfterSweep
  <2>2. now - seen[k] >= IdleTTL
    BY <1>1, <2>1 DEF LimiterInv, ClockOK, LimiterTypeOK
  <2>3. tokens[k] = Cap
    BY <1>1, <2>2, IdleIsFull
  <2> QED
    BY <1>1, <2>3 DEF TokensFor, Level
<1>2. CASE ~(k \in kept /\ k \notin KeptAfterSweep)
  BY <1>2 DEF TokensFor, KeptAfterSweep, Level
<1> QED
  BY <1>1, <1>2

\* No bucket is kept at the start, and the invariant says little of the clock.
LEMMA LimiterInitInv == LimiterInit => LimiterInv
  BY DEF LimiterInit, ClockInit, NoBuckets, LimiterInv, ClockOK, LimiterTypeOK, Refilled

\* While the clock goes on every bucket gains a tick's refill, up to the cap.
LEMMA TickKeepsInv ==
  ASSUME LimiterInv, Passes, Refill
  PROVE  LimiterInv'
<1>1. ClockOK' /\ LimiterTypeOK' /\ now' = now + 1
  BY DEF LimiterInv, ClockOK, LimiterTypeOK, Passes, Refill, AtMostCap
<1>2. ASSUME NEW k \in kept
      PROVE  seen[k] <= now' /\ (tokens'[k] = Cap \/ tokens'[k] >= Gain * (now' - seen[k]))
  <2>1. now - seen[k] \in Nat /\ k \in Keys /\ tokens[k] \in 0 .. Cap
        /\ (tokens[k] = Cap \/ tokens[k] >= Gain * (now - seen[k]))
    BY DEF LimiterInv, LimiterTypeOK, ClockOK, Refilled
  <2>2. now' - seen[k] = (now - seen[k]) + 1
    BY <1>1, <2>1 DEF LimiterInv, LimiterTypeOK, ClockOK
  <2>3. Gain * (now' - seen[k]) = Gain * (now - seen[k]) + Gain
    BY <2>1, <2>2, OneTickMore
  <2>4. tokens'[k] = AtMostCap(tokens[k] + Gain)
    BY <2>1 DEF Refill
  <2>5. Gain * (now - seen[k]) \in Nat
    BY <2>1, OneTickMore
  <2>6. tokens'[k] = Cap \/ tokens'[k] >= Gain * (now' - seen[k])
    BY <2>1, <2>3, <2>4, <2>5 DEF AtMostCap
  <2> QED
    BY <1>1, <2>1, <2>6 DEF LimiterInv, LimiterTypeOK, ClockOK
<1> QED
  BY <1>1, <1>2 DEF LimiterInv, Refilled, Refill

\* An attempt leaves the other surviving buckets alone and has just used its own.
LEMMA AllowKeepsInv ==
  ASSUME LimiterInv, NEW k \in Keys, Allow(k), UNCHANGED <<now, runs>>
  PROVE  LimiterInv'
<1>1. KeptAfterSweep \subseteq kept
  BY DEF KeptAfterSweep
<1>2. \A j \in Keys : TokensFor(j) \in 0 .. Cap
  BY DEF TokensFor, LimiterInv, LimiterTypeOK
<1>3. ClockOK' /\ LimiterTypeOK'
  BY <1>1, <1>2 DEF LimiterInv, ClockOK, LimiterTypeOK, Allow, Grants
<1>4. ASSUME NEW j \in kept'
      PROVE  seen'[j] <= now /\ (tokens'[j] = Cap \/ tokens'[j] >= Gain * (now - seen'[j]))
  <2>1. CASE j = k
    <3>1. seen'[j] = now /\ Gain * (now - seen'[j]) = 0 /\ tokens'[j] \in 0 .. Cap
      BY <2>1, <1>3 DEF Allow, LimiterInv, ClockOK, LimiterTypeOK
    <3> QED
      BY <3>1 DEF LimiterInv, ClockOK
  <2>2. CASE j # k
    <3>1. j \in kept /\ seen'[j] = seen[j] /\ tokens'[j] = tokens[j]
      BY <2>2, <1>1 DEF Allow, TokensFor, LimiterInv, LimiterTypeOK
    <3> QED
      BY <3>1 DEF LimiterInv, Refilled
  <2> QED
    BY <2>1, <2>2
<1> QED
  BY <1>3, <1>4 DEF LimiterInv, Refilled

\* A new process has no buckets.
LEMMA ForgetKeepsInv ==
  ASSUME LimiterInv, StartsAnew, Forget
  PROVE  LimiterInv'
  BY DEF LimiterInv, ClockOK, LimiterTypeOK, Refilled, StartsAnew, Forget

\* The clock, an attempt and a restart preserve the invariant.
LEMMA LimiterStep == LimiterInv /\ [LimiterNext]_<<now, runs, limiterVars>> => LimiterInv'
<1> SUFFICES ASSUME LimiterInv, [LimiterNext]_<<now, runs, limiterVars>> PROVE LimiterInv'
  OBVIOUS
<1>1. CASE Passes /\ Refill
  BY <1>1, TickKeepsInv
<1>2. CASE StartsAnew /\ Forget
  BY <1>2, ForgetKeepsInv
<1>3. ASSUME NEW k \in Keys, Allow(k), UNCHANGED <<now, runs>> PROVE LimiterInv'
  BY <1>3, AllowKeepsInv
<1>4. CASE UNCHANGED <<now, runs, limiterVars>>
  BY <1>4 DEF limiterVars, LimiterInv, ClockOK, LimiterTypeOK, Refilled
<1> QED
  BY <1>1, <1>2, <1>3, <1>4 DEF LimiterNext

-----------------------------------------------------------------------------
(* The steps of the promise. *)

\* Time refills the buckets that are not kept by leaving them full.
LEMMA TickIsTick ==
  ASSUME LimiterInv, Passes, Refill
  PROVE  Promise!Tick
<1>1. \A k \in Keys : Level'[k] = Promise!AtMostCap(Level[k] + Gain)
  BY DEF Level, Refill, AtMostCap, Promise!AtMostCap, LimiterInv, LimiterTypeOK
<1>2. Level' = [k \in Keys |-> Promise!AtMostCap(Level[k] + Gain)]
  BY <1>1 DEF Level
<1> QED
  BY <1>2 DEF Passes, Promise!Tick

\* What an attempt does to the levels of its own and of other keys.
LEMMA AllowLevels ==
  ASSUME IdleRefills, LimiterInv, NEW k \in Keys, Allow(k)
  PROVE  /\ \A j \in Keys : j # k => Level'[j] = Level[j]
         /\ Level'[k] = IF Grants(k) THEN Level[k] - Cost ELSE Level[k]
         /\ Grants(k) <=> Level[k] >= Cost
<1>1. \A j \in Keys : TokensFor(j) = Level[j]
  BY SweepKeepsLevel
<1>2. ASSUME NEW j \in Keys, j # k PROVE Level'[j] = Level[j]
  <2>1. kept' = KeptAfterSweep \cup {k} /\ tokens'[j] = TokensFor(j)
    BY <1>2 DEF Allow
  <2>2. Level'[j] = TokensFor(j)
    BY <1>2, <2>1 DEF Level, TokensFor
  <2> QED
    BY <2>2, <1>1
<1>3. Level'[k] = IF Grants(k) THEN Level[k] - Cost ELSE Level[k]
  BY <1>1 DEF Allow, Level
<1> QED
  BY <1>1, <1>2, <1>3 DEF Grants

\* An attempt is charged to its key alone, or refused without a trace.
LEMMA AllowIsCharge ==
  ASSUME IdleRefills, LimiterInv, NEW k \in Keys, Allow(k), UNCHANGED <<now, runs>>
  PROVE  Promise!Charge(k) \/ UNCHANGED <<now, runs, Level>>
<1>1. CASE Grants(k)
  <2>1. Level' = [Level EXCEPT ![k] = Level[k] - Cost]
    BY <1>1, AllowLevels DEF Level
  <2> QED
    BY <2>1, <1>1, AllowLevels DEF Promise!Charge
<1>2. CASE ~Grants(k)
  <2>1. Level' = Level
    BY <1>2, AllowLevels DEF Level
  <2> QED
    BY <2>1
<1> QED
  BY <1>1, <1>2

\* A restart fills all buckets.
LEMMA ForgetIsRestart ==
  ASSUME StartsAnew, Forget
  PROVE  Promise!Restart
  BY DEF StartsAnew, Forget, Level, Promise!Restart

\* Every step of the limiter is one of the promise, or invisible.
LEMMA LimiterSimulates ==
  ASSUME IdleRefills, LimiterInv, [LimiterNext]_<<now, runs, limiterVars>>
  PROVE  [Promise!Next]_<<now, runs, Level>>
<1>1. CASE Passes /\ Refill
  BY <1>1, TickIsTick DEF Promise!Next
<1>2. CASE StartsAnew /\ Forget
  BY <1>2, ForgetIsRestart DEF Promise!Next
<1>3. ASSUME NEW k \in Keys, Allow(k), UNCHANGED <<now, runs>>
      PROVE  [Promise!Next]_<<now, runs, Level>>
  BY <1>3, AllowIsCharge DEF Promise!Next
<1>4. CASE UNCHANGED <<now, runs, limiterVars>>
  BY <1>4 DEF limiterVars, Level
<1> QED
  BY <1>1, <1>2, <1>3, <1>4 DEF LimiterNext

\* For any keys, and any rate and burst with which a bucket is full again after IdleTTL,
\* nobody is answered otherwise than by a limiter that keeps every bucket.
THEOREM LimiterKeepsPromise == IdleRefills => (LimiterSpec => SweepForgetsNothing)
<1> DEFINE Inv == LimiterInv /\ IdleRefills
           N == [LimiterNext]_<<now, runs, limiterVars>>
<1>1. LimiterInit => Promise!Init
  BY DEF LimiterInit, ClockInit, NoBuckets, Level, Promise!Init
<1>2. LimiterInit /\ IdleRefills => Inv
  BY LimiterInitInv
<1>3. Inv /\ N => Inv'
  BY LimiterStep DEF IdleRefills
<1>4. Inv /\ N => [Promise!Next]_<<now, runs, Level>>
  BY LimiterSimulates
<1> QED
  BY <1>1, <1>2, <1>3, <1>4, PTL
  DEF LimiterSpec, SweepForgetsNothing, Promise!Spec

-----------------------------------------------------------------------------
(* ClientAddress *)

\* The sender is who the request comes from, or the last hop that is not trusted.
SenderIsKnown ==
  \/ peer = sender
  \/ /\ peer \in Trusted
     /\ \E i \in 1 .. Len(header) :
          /\ header[i].address = sender
          /\ \A j \in i + 1 .. Len(header) : header[j].address \in Trusted

RequestOK ==
  /\ sender \in Addresses \cup {Unknown} /\ peer \in Addresses \cup {Unknown}
  /\ header \in Seq(Hops)

AddressInv == RequestOK /\ (sender \notin Trusted => SenderIsKnown) /\ CountsTheSender

\* Whatever the sender forged, it is its own peer at first.
LEMMA AddressStarts == AddressInit => AddressInv
  BY AddressAssumption
  DEF AddressInit, AddressInv, RequestOK, SenderIsKnown, CountsTheSender

\* A proxy appends the address it was reached from: the sender, or a trusted hop.
LEMMA PassOnKeeps ==
  ASSUME AddressInv, NEW proxy \in Trusted, PassOn(proxy)
  PROVE  AddressInv'
<1>1. PICK m \in BOOLEAN : header' = Append(header, [address |-> peer, mapped |-> m])
  BY DEF PassOn
<1> DEFINE hop == [address |-> peer, mapped |-> m]
<1>2. /\ hop \in Hops /\ hop.address = peer
      /\ header \in Seq(Hops) /\ header' = Append(header, hop)
      /\ peer' = proxy /\ sender' = sender /\ key' = key /\ key = <<>>
  BY <1>1 DEF PassOn, Hops, AddressInv, RequestOK
<1> HIDE DEF hop
<1>3. /\ Len(header') = Len(header) + 1 /\ header'[Len(header) + 1] = hop
      /\ \A i \in 1 .. Len(header) : header'[i] = header[i]
      /\ header' \in Seq(Hops) /\ Len(header) \in Nat
  BY <1>2
<1>4. RequestOK' /\ CountsTheSender'
  BY <1>2, <1>3, AddressAssumption DEF AddressInv, RequestOK, CountsTheSender
<1>5. ASSUME sender \notin Trusted PROVE SenderIsKnown'
  <2>1. CASE peer = sender
    <3>1. /\ Len(header) + 1 \in 1 .. Len(header')
          /\ header'[Len(header) + 1].address = sender'
          /\ \A j \in (Len(header) + 1) + 1 .. Len(header') :
               header'[j].address \in Trusted
      BY <1>2, <1>3, <2>1
    <3> QED
      BY <1>2, <3>1 DEF SenderIsKnown
  <2>2. CASE peer # sender
    <3>1. PICK i \in 1 .. Len(header) :
            /\ header[i].address = sender
            /\ \A j \in i + 1 .. Len(header) : header[j].address \in Trusted
      BY <1>5, <2>2 DEF AddressInv, SenderIsKnown
    <3>2. peer \in Trusted
      BY <1>5, <2>2 DEF AddressInv, SenderIsKnown
    <3>3. /\ i \in 1 .. Len(header') /\ header'[i].address = sender'
          /\ \A j \in i + 1 .. Len(header') : header'[j].address \in Trusted
      BY <1>2, <1>3, <3>1, <3>2
    <3> QED
      BY <1>2, <3>3 DEF SenderIsKnown
  <2> QED
    BY <2>1, <2>2
<1> QED
  BY <1>2, <1>4, <1>5 DEF AddressInv

\* The walk over the hops ends at the sender.
LEMMA ResolveKeeps == ASSUME AddressInv, Resolve PROVE AddressInv'
<1>1. /\ sender \in Addresses \cup {Unknown} /\ peer \in Addresses \cup {Unknown}
      /\ header \in Seq(Hops)
      /\ sender' = sender /\ peer' = peer /\ header' = header
      /\ key' = <<BlockKey(ClientIP(peer, header))>>
  BY DEF Resolve, AddressInv, RequestOK
<1>2. RequestOK'
  BY <1>1 DEF RequestOK
<1>3. ASSUME sender \notin Trusted PROVE ClientIP(peer, header) = sender
  <2>1. CASE peer = sender
    BY <1>3, <2>1 DEF ClientIP
  <2>2. CASE peer # sender
    <3>1. PICK i \in 1 .. Len(header) :
            /\ header[i].address = sender
            /\ \A j \in i + 1 .. Len(header) : header[j].address \in Trusted
      BY <1>3, <2>2 DEF AddressInv, SenderIsKnown
    <3>2. peer \in Trusted
      BY <1>3, <2>2 DEF AddressInv, SenderIsKnown
    <3>3. i \in Stops(header) /\ \A j \in Stops(header) : j \in 1 .. i
      BY <1>3, <3>1 DEF Stops, StopsAt
    <3>4. Max(Stops(header)) = i
      <4> DEFINE stops == Stops(header)
      <4>1. i \in stops /\ \A j \in stops : j \in 1 .. i /\ i >= j
        BY <3>3
      <4> HIDE DEF stops
      <4>2. Max(stops) \in stops /\ \A j \in stops : Max(stops) >= j
        BY <4>1, Zenon DEF Max
      <4>3. Max(stops) \in 1 .. i /\ Max(stops) >= i
        BY <4>1, <4>2
      <4>4. Max(stops) = i
        BY <4>3
      <4> QED
        BY <4>4 DEF stops
    <3> QED
      BY <3>1, <3>2, <3>3, <3>4 DEF ClientIP
  <2> QED
    BY <2>1, <2>2
<1>4. ASSUME sender \notin Trusted PROVE key' = <<BlockKey(sender)>>
  BY <1>1, <1>3, <1>4, AddressAssumption DEF BlockKey
<1> QED
  BY <1>1, <1>2, <1>4 DEF AddressInv, SenderIsKnown, CountsTheSender

\* A request is passed on or counted.
LEMMA AddressStep == AddressInv /\ [AddressNext]_addressVars => AddressInv'
<1> SUFFICES ASSUME AddressInv, [AddressNext]_addressVars PROVE AddressInv'
  OBVIOUS
<1>1. CASE \E proxy \in Trusted : PassOn(proxy)
  BY <1>1, PassOnKeeps
<1>2. CASE Resolve
  BY <1>2, ResolveKeeps
<1>3. CASE UNCHANGED addressVars
  BY <1>3 DEF AddressInv, RequestOK, SenderIsKnown, CountsTheSender, addressVars
<1> QED
  BY <1>1, <1>2, <1>3 DEF AddressNext

\* For any trusted proxies, through however many of them a request comes and whatever
\* its sender wrote into the header: it is counted under the sender's own block, or under
\* "unknown" where the sender's address cannot be read.
THEOREM SendersAreCounted == AddressSpec => []CountsTheSender
  BY AddressStarts, AddressStep, PTL DEF AddressSpec, AddressInv
=============================================================================
