----------------------------- MODULE VoiceProofs -----------------------------
(***************************************************************************)
(* Voice for every number of connections, accounts, channels and joins.    *)
(* The inductive invariant says what a handler between two critical        *)
(* sections may still rely on, whatever the other read loops and pion's    *)
(* goroutines did since it released the last lock.  With it, Voice         *)
(* implements Calls, a deletion is what it takes to find media gone, and   *)
(* Relay, which goes only through steps of Voice, lets one of two hear.    *)
(***************************************************************************)
EXTENDS Relay, TLAPS

\* A channel is deleted at most once, which leaves room for its second value.
Generations ==
  \A ch \in Channels :
    /\ ch \in registered => made[ch] # 0
    /\ ch \notin registered => made[ch] # 2
    /\ ch \notin deleted => made[ch] = (IF ch \in registered THEN 1 ELSE 0)

\* A voice user that has not joined is nowhere, and one that has is at home somewhere.
Joined ==
  \A o \in Objs :
    /\ o[2] > joins[o[1]] => home[o] = None /\ rtc[o] = "none" /\ announced[o] = 0
    /\ o[2] <= joins[o[1]] => home[o] # None
    /\ home[o] = None => callback[o] = "idle" /\ ~BeingClosed(o)

\* What a handler holds at each of its steps.
Holds ==
  \A c \in Conns :
    /\ pc[c] \in {"remove", "close"} => HasMedia(c)
    /\ At(c, "enter") => joins[c] # 0
    /\ pc[c] \in {"remove", "closeAll"} => at[c] # None
    /\ pc[c] \in {"kick", "sweep", "kickClose", "sweepClose"} => target[c] # None
    /\ victim[c] # None <=> pc[c] \in {"kickClose", "sweepClose", "closeOne"}
    /\ closing[c] # {} => pc[c] \in {"closing", "closeOne", "panicked"}

\* Between its two steps a join has a voice user that nobody else has seen.
Entering ==
  \A o \in Objs : At(o[1], "enter") /\ joins[o[1]] = o[2] =>
    /\ cur[o[1]] < o[2]
    /\ media[o] /\ rtc[o] = "new" /\ callback[o] = "idle"
    /\ announced[o] = 0
    /\ ~Listed(o) /\ ~BeingClosed(o)

\* Media is taken away together with the peer connection.
NoMediaIsClosed ==
  \A o \in Objs : ~media[o] => ~Open(o)

\* A leave that took its voice user off the roster has yet to announce that.
LeaveIsPending ==
  \A o \in Objs : At(o[1], "close") /\ at[o[1]] # None /\ cur[o[1]] = o[2] =>
    announced[o] = 0 /\ callback[o] # "tell" /\ ~Listed(o)

\* A state change handler runs once the peer connection is not open any more, and after
\* RemoveUserIf its voice user is off the roster.
Calling ==
  \A o \in Objs :
    /\ Open(o) => callback[o] = "idle"
    /\ callback[o] \in {"tell", "stuck", "hangup"} => ~Listed(o)
    /\ callback[o] = "tell" => announced[o] = 0

\* StaysListed, said of voice users instead of connections.
Stays ==
  \A o \in Objs : cur[o[1]] = o[2] /\ ~At(o[1], "close") /\ Open(o) =>
    Listed(o) \/ BeingClosed(o) \/ o \in replaced

IInv ==
  /\ TypeOK
  /\ Generations
  /\ Joined
  /\ Holds
  /\ Entering
  /\ NoMediaIsClosed
  /\ LeaveIsPending
  /\ Calling
  /\ RosterWellFormed
  /\ NoDeadEntry
  /\ DepartureIsFinal
  /\ Stays

-----------------------------------------------------------------------------
\* A voice user is a pair of a connection and the number of one of its joins.
LEMMA ObjsArePairs ==
  /\ \A o \in Objs : o[1] \in Conns /\ o[2] \in Nat \ {0} /\ o[2] <= MaxJoins[o[1]]
  /\ \A o, p \in Objs : o[1] = p[1] /\ o[2] = p[2] => o = p
  BY VoiceAssumption DEF Objs

\* And each such pair is one.
LEMMA PairsAreObjs ==
  \A c \in Conns, k \in Nat \ {0} : k <= MaxJoins[c] =>
    <<c, k>> \in Objs /\ <<c, k>>[1] = c /\ <<c, k>>[2] = k
  BY VoiceAssumption DEF Objs

\* The voice user of a session that is in voice is one, and has joined.
LEMMA VoiceIsObj ==
  ASSUME TypeOK, Joined, NEW c \in Conns, HasMedia(c)
  PROVE  /\ Voice(c) \in Objs /\ Voice(c)[1] = c /\ Voice(c)[2] = cur[c]
         /\ home[Voice(c)] \in VCs
<1>1. cur[c] \in Nat \ {0} /\ cur[c] <= MaxJoins[c] /\ cur[c] <= joins[c]
  BY VoiceAssumption DEF TypeOK, HasMedia
<1>2. Voice(c) \in Objs /\ Voice(c)[1] = c /\ Voice(c)[2] = cur[c]
  BY <1>1, PairsAreObjs DEF Voice
<1> QED
  BY <1>1, <1>2 DEF TypeOK, Joined

\* So is the one of the next join.
LEMMA NextJoinIsObj ==
  ASSUME TypeOK, NEW c \in Conns, joins[c] < MaxJoins[c]
  PROVE  \E o \in Objs : o = <<c, joins[c] + 1>> /\ o[1] = c /\ o[2] = joins[c] + 1
<1>1. joins[c] + 1 \in Nat \ {0} /\ joins[c] + 1 <= MaxJoins[c]
  BY VoiceAssumption DEF TypeOK
<1> QED
  BY <1>1, PairsAreObjs

\* A lookup returns a VoiceChannel value of the channel, and every value has one.
LEMMA GotIsVC ==
  /\ \A vc \in VCs : vc[1] \in Channels
  /\ TypeOK /\ Generations =>
       \A ch \in Channels : Got(ch) \in VCs /\ Got(ch)[1] = ch /\ Got(ch)[2] \in {1, 2}
  BY DEF VCs, TypeOK, Generations, Got

\* RemoveUserIf leaves the roster as it is but for the entry of the voice user.
LEMMA RemovalIsLocal ==
  ASSUME TypeOK, NEW vc \in VCs, NEW o \in Objs, RemoveUserIf(vc, o)
  PROVE  /\ roster' \in [VCs -> [UserIds -> Objs \cup {None}]]
         /\ \A v \in VCs, w \in UserIds :
              roster'[v][w] = IF v = vc /\ w = Id(o) /\ Removes(vc, o)
                                THEN None ELSE roster[v][w]
<1> DEFINE x == IF roster[vc][Id(o)] = o THEN None ELSE roster[vc][Id(o)]
<1>1. Id(o) \in UserIds
  BY VoiceAssumption, ObjsArePairs DEF Id
<1>2. roster' = [roster EXCEPT ![vc][Id(o)] = x] /\ x \in Objs \cup {None}
  BY <1>1 DEF RemoveUserIf, TypeOK
<1> HIDE DEF x
<1>3. /\ roster' \in [VCs -> [UserIds -> Objs \cup {None}]]
      /\ \A v \in VCs, w \in UserIds :
           roster'[v][w] = IF v = vc /\ w = Id(o) THEN x ELSE roster[v][w]
  BY <1>1, <1>2 DEF TypeOK
<1> QED
  BY <1>3 DEF x, Removes

\* A new server has no voice user anywhere.
LEMMA VoiceInit == Init => IInv
  BY ObjsArePairs, VoiceAssumption
  DEF Init, IInv, TypeOK, Generations, Joined, Holds, Entering, NoMediaIsClosed,
      LeaveIsPending, Calling, Stays, RosterWellFormed, NoDeadEntry, DepartureIsFinal, Handling,
      At, HasMedia, Listed, Open, BeingClosed

-----------------------------------------------------------------------------
(* Each step: facts about the voice users it touches first, then the conjuncts.  *)
(* Positions in handlers and groups of variables are expanded throughout.        *)
USE VoiceAssumption, ObjsArePairs
    DEF At, Goto, HasMedia, InVoice, Id, Open, registry, session, kick, conns, peers, history

\* A session that forgets its voice user takes nothing from anybody.
LEMMA AuthKeepsIInv ==
  ASSUME IInv, NEW c \in Conns, Auth(c)
  PROVE  IInv'
<1>1. \A p \in Objs : (Listed(p)' <=> Listed(p)) /\ (BeingClosed(p)' <=> BeingClosed(p))
  BY DEF IInv, TypeOK, Listed, BeingClosed, Auth
<1>2. /\ TypeOK' /\ Generations' /\ Joined' /\ Holds' /\ Entering'
      /\ NoMediaIsClosed' /\ LeaveIsPending' /\ Calling' /\ Stays'
      /\ RosterWellFormed' /\ NoDeadEntry' /\ DepartureIsFinal'
  BY <1>1 DEF IInv, TypeOK, Holds, Handling, Generations, Got, Joined,
     RosterWellFormed, Entering, NoMediaIsClosed, LeaveIsPending, Calling, DepartureIsFinal,
     Stays, NoDeadEntry, Auth
<1> QED
  BY <1>2 DEF IInv

\* The new voice user of a join was nowhere before, and its channel has a value.
LEMMA JoinVoiceKeepsIInv ==
  ASSUME IInv, NEW c \in Conns, NEW ch \in Channels, JoinVoice(c, ch)
  PROVE  IInv'
<1>1. joins[c] < MaxJoins[c] /\ TypeOK
  BY DEF JoinVoice, IInv
<1>2. PICK o \in Objs : o = <<c, joins[c] + 1>> /\ o[1] = c /\ o[2] = joins[c] + 1
  BY <1>1, NextJoinIsObj
<1>3. \A vc \in VCs : vc[1] \in Channels
  BY GotIsVC
<1>4. \A h \in Channels : Got(h) \in VCs /\ Got(h)[1] = h /\ Got(h)[2] \in {1, 2}
  BY GotIsVC DEF IInv
<1>5. /\ home[o] = None /\ callback[o] = "idle" /\ announced[o] = 0 /\ ~BeingClosed(o)
      /\ \A vc \in VCs, u \in UserIds : roster[vc][u] # o
  <2>1. home[o] = None /\ callback[o] = "idle" /\ announced[o] = 0 /\ ~BeingClosed(o)
    BY <1>2 DEF IInv, TypeOK, Joined
  <2> QED
    BY <1>2, <2>1 DEF IInv, RosterWellFormed
<1>6. /\ At(c, "ready") /\ GetOrCreate(ch)
      /\ joins' = [joins EXCEPT ![c] = @ + 1]
      /\ home' = [home EXCEPT ![o] = Got(ch)]
      /\ media' = [media EXCEPT ![o] = TRUE]
      /\ rtc' = [rtc EXCEPT ![o] = "new"]
      /\ Goto(c, "enter")
      /\ UNCHANGED <<roster, cur, at, ending, kick, callback, relaying, history>>
  BY <1>2 DEF JoinVoice
<1>7. \A p \in Objs : p # o => home'[p] = home[p]
  BY <1>6 DEF IInv, TypeOK
<1>8. \A p \in Objs : (Listed(p)' <=> Listed(p)) /\ (BeingClosed(p)' <=> BeingClosed(p))
  BY <1>4, <1>5, <1>6, <1>7 DEF IInv, TypeOK, Listed, BeingClosed
<1>9. TypeOK' /\ Generations'
  BY <1>2, <1>3, <1>4, <1>5, <1>6, <1>8 DEF IInv, TypeOK, Holds, Handling,
     Generations, Got, GetOrCreate
<1>10. Joined'
  <2> SUFFICES ASSUME NEW p \in Objs
               PROVE  (/\ p[2] > joins[p[1]] =>
                            home[p] = None /\ rtc[p] = "none" /\ announced[p] = 0
                       /\ p[2] <= joins[p[1]] => home[p] # None
                       /\ home[p] = None => callback[p] = "idle" /\ ~BeingClosed(p))'
    BY DEF Joined
  <2>1. CASE p = o
    BY <1>2, <1>4, <1>6, <2>1 DEF IInv, TypeOK
  <2>2. CASE p # o
    <3>1. /\ p[1] \in Conns /\ p[2] \in Nat /\ joins \in [Conns -> Nat]
          /\ p[1] = c => p[2] # joins[c] + 1
      BY <1>2, <2>2 DEF IInv, TypeOK
    <3>2. joins' = [joins EXCEPT ![c] = @ + 1]
      BY <1>6
    <3>3. /\ p[2] > joins'[p[1]] => p[2] > joins[p[1]]
          /\ p[2] <= joins'[p[1]] => p[2] <= joins[p[1]]
      BY <3>1, <3>2
    <3>4. home'[p] = home[p] /\ rtc'[p] = rtc[p]
      BY <1>6, <2>2 DEF IInv, TypeOK
    <3> QED
      BY <1>6, <1>8, <3>3, <3>4 DEF IInv, Joined
  <2> QED
    BY <2>1, <2>2
<1>11. Holds'
  BY <1>2, <1>3, <1>4, <1>5, <1>6, <1>8 DEF IInv, TypeOK, Holds, GetOrCreate
<1>12. NoMediaIsClosed' /\ LeaveIsPending' /\ Calling' /\ Stays'
  BY <1>2, <1>3, <1>4, <1>5, <1>6, <1>8 DEF IInv, TypeOK, NoMediaIsClosed,
     LeaveIsPending, Calling, Joined, DepartureIsFinal, Holds, Stays, GetOrCreate
<1>13. Entering'
  <2> SUFFICES ASSUME NEW p \in Objs, At(p[1], "enter")', joins'[p[1]] = p[2]
               PROVE  (/\ cur[p[1]] < p[2]
                       /\ media[p] /\ rtc[p] = "new" /\ callback[p] = "idle"
                       /\ announced[p] = 0
                       /\ ~Listed(p) /\ ~BeingClosed(p))'
    BY DEF Entering
  <2>1. CASE p[1] = c
    <3>1. p = o
      BY <1>2, <1>6, <2>1 DEF IInv, TypeOK
    <3>2. ~Listed(o)
      BY <1>5 DEF Listed
    <3> QED
      BY <1>2, <1>5, <1>6, <1>8, <3>1, <3>2 DEF IInv, TypeOK
  <2>2. CASE p[1] # c
    BY <1>2, <1>6, <1>8, <2>2 DEF IInv, TypeOK, Entering
  <2> QED
    BY <2>1, <2>2
<1>14. RosterWellFormed' /\ NoDeadEntry' /\ DepartureIsFinal'
  BY <1>2, <1>3, <1>4, <1>5, <1>6, <1>8 DEF IInv, TypeOK, RosterWellFormed,
     Joined, NoDeadEntry, Entering, DepartureIsFinal, LeaveIsPending, Calling, GetOrCreate
<1> QED
  BY <1>9, <1>10, <1>11, <1>12, <1>13, <1>14 DEF IInv

\* A channel that is taken out of the registry keeps its value for the handler.
LEMMA DeleteChannelKeepsIInv ==
  ASSUME IInv, NEW c \in Conns, NEW ch \in Channels, DeleteChannel(c, ch)
  PROVE  IInv'
<1>1. \A vc \in VCs : vc[1] \in Channels
  BY GotIsVC
<1>2. \A h \in Channels : Got(h) \in VCs /\ Got(h)[1] = h /\ Got(h)[2] \in {1, 2}
  BY GotIsVC DEF IInv
<1>3. \A p \in Objs : (Listed(p)' <=> Listed(p)) /\ (BeingClosed(p)' <=> BeingClosed(p))
  BY DEF IInv, TypeOK, Listed, BeingClosed, DeleteChannel
<1>4. at' \in [Conns -> VCs \cup {None}]
  <2>1. at' = at \/ at' = [at EXCEPT ![c] = Got(ch)]
    BY DEF DeleteChannel
  <2> QED
    BY <1>2, <2>1 DEF IInv, TypeOK
<1>5. TypeOK'
  BY <1>1, <1>2, <1>3, <1>4 DEF IInv, TypeOK, Holds, Handling, DeleteChannel
<1>6. Generations'
  BY <1>1, <1>2, <1>3, <1>4 DEF IInv, TypeOK, Generations, Got, DeleteChannel
<1>7. Joined'
  BY <1>1, <1>2, <1>3, <1>4 DEF IInv, TypeOK, Joined, Holds, RosterWellFormed,
     DeleteChannel
<1>8. Holds'
  BY <1>1, <1>2, <1>3, <1>4 DEF IInv, TypeOK, Holds, DeleteChannel
<1>9. Entering'
  BY <1>1, <1>2, <1>3, <1>4 DEF IInv, TypeOK, Entering, Joined, Holds,
     DeleteChannel
<1>10. NoMediaIsClosed'
  BY <1>1, <1>2, <1>3, <1>4 DEF IInv, TypeOK, NoMediaIsClosed, DeleteChannel
<1>11. LeaveIsPending'
  BY <1>1, <1>2, <1>3, <1>4 DEF IInv, TypeOK, LeaveIsPending, Calling, Joined,
     DepartureIsFinal, DeleteChannel
<1>12. Stays' /\ Calling'
  BY <1>1, <1>2, <1>3, <1>4 DEF IInv, TypeOK, Holds, Joined, Stays, Calling,
     NoMediaIsClosed, DeleteChannel
<1>13. RosterWellFormed'
  BY <1>1, <1>2, <1>3, <1>4 DEF IInv, TypeOK, RosterWellFormed, Joined,
     DeleteChannel
<1>14. NoDeadEntry'
  BY <1>1, <1>2, <1>3, <1>4 DEF IInv, TypeOK, NoDeadEntry, Joined, Entering,
     DeleteChannel
<1>15. DepartureIsFinal'
  BY <1>1, <1>2, <1>3, <1>4 DEF IInv, TypeOK, DepartureIsFinal, Entering,
     LeaveIsPending, Calling, Joined, DeleteChannel
<1> QED
  BY <1>5, <1>6, <1>7, <1>8, <1>9, <1>10, <1>11, <1>12, <1>13, <1>14,
     <1>15 DEF IInv

\* An answer brings the peer connection of the session's own voice user up.
LEMMA AnswerKeepsIInv ==
  ASSUME IInv, NEW c \in Conns, Answer(c)
  PROVE  IInv'
<1>1. /\ Voice(c) \in Objs /\ Voice(c)[1] = c /\ Voice(c)[2] = cur[c]
      /\ home[Voice(c)] \in VCs
  BY VoiceIsObj DEF IInv, Holds, Answer
<1>2. \A p \in Objs : (Listed(p)' <=> Listed(p)) /\ (BeingClosed(p)' <=> BeingClosed(p))
  BY DEF IInv, TypeOK, Listed, BeingClosed, Answer
<1>3. /\ TypeOK' /\ Generations' /\ Joined' /\ Holds' /\ Entering'
      /\ NoMediaIsClosed' /\ LeaveIsPending' /\ Calling' /\ Stays'
      /\ RosterWellFormed' /\ NoDeadEntry' /\ DepartureIsFinal'
  BY <1>1, <1>2 DEF IInv, TypeOK, Holds, Handling, Generations, Got, Joined,
     RosterWellFormed, Entering, NoMediaIsClosed, LeaveIsPending, Calling, DepartureIsFinal,
     Stays, NoDeadEntry, Answer
<1> QED
  BY <1>3 DEF IInv

\* A lookup may bring an entry of the registry back, and nothing else.
LEMMA VoiceStateKeepsIInv ==
  ASSUME IInv, NEW c \in Conns, VoiceState(c)
  PROVE  IInv'
<1>1. /\ Voice(c) \in Objs /\ Voice(c)[1] = c /\ Voice(c)[2] = cur[c]
      /\ home[Voice(c)] \in VCs
  BY VoiceIsObj DEF IInv, Holds, VoiceState
<1>2. \A p \in Objs : (Listed(p)' <=> Listed(p)) /\ (BeingClosed(p)' <=> BeingClosed(p))
  BY DEF IInv, TypeOK, Listed, BeingClosed, VoiceState
<1>3. PICK ch \in Channels : ch = home[Voice(c)][1]
  BY <1>1, GotIsVC
<1>4. Got(ch) \in VCs /\ Got(ch)[1] = ch /\ Got(ch)[2] \in {1, 2}
  BY GotIsVC DEF IInv
<1>5. /\ At(c, "ready") /\ pc'[c] \in {"ready", "stuck"}
      /\ \A d \in Conns : d # c => pc'[d] = pc[d] /\ at'[d] = at[d]
      /\ pc' \in [Conns -> {"ready", "closed", "panicked"} \cup Handling]
      /\ at' \in [Conns -> VCs \cup {None}]
      /\ UNCHANGED <<roster, session, ending, kick, peers, history>>
  <2>1. Broadcast(c, Got(ch), Account[c], "ready")
    BY <1>3 DEF VoiceState
  <2>2. At(c, "ready") /\ UNCHANGED <<roster, session, ending, kick, peers, history>>
    BY DEF VoiceState
  <2>3. /\ \/ pc' = [pc EXCEPT ![c] = "ready"] \/ pc' = [pc EXCEPT ![c] = "stuck"]
        /\ \/ at' = [at EXCEPT ![c] = None] \/ at' = [at EXCEPT ![c] = Got(ch)]
    BY <2>1 DEF Broadcast
  <2>4. pc \in [Conns -> {"ready", "closed", "panicked"} \cup Handling]
        /\ at \in [Conns -> VCs \cup {None}]
    BY DEF IInv, TypeOK
  <2>5. /\ pc'[c] \in {"ready", "stuck"}
        /\ pc' \in [Conns -> {"ready", "closed", "panicked"} \cup Handling]
        /\ \A d \in Conns : d # c => pc'[d] = pc[d]
    BY <2>3, <2>4 DEF Handling
  <2>6. at' \in [Conns -> VCs \cup {None}] /\ \A d \in Conns : d # c => at'[d] = at[d]
    BY <1>4, <2>3, <2>4
  <2> QED
    BY <2>2, <2>5, <2>6
<1>6. TypeOK' /\ Generations'
  <2>1. GetOrCreate(ch)
    BY <1>3 DEF VoiceState
  <2>2. /\ registered' \subseteq Channels /\ deleted' = deleted
        /\ made' \in [Channels -> 0..2] /\ Generations'
    BY <1>4, <2>1 DEF IInv, TypeOK, Generations, Got, GetOrCreate
  <2> QED
    BY <1>5, <2>2 DEF IInv, TypeOK
<1>7. /\ Joined' /\ Holds' /\ Entering' /\ NoMediaIsClosed' /\ LeaveIsPending'
      /\ Calling' /\ Stays'
  BY <1>2, <1>5 DEF IInv, TypeOK, Holds, Joined, Entering, NoMediaIsClosed,
     LeaveIsPending, Calling, Stays
<1>8. RosterWellFormed' /\ NoDeadEntry' /\ DepartureIsFinal'
  BY <1>2, <1>5 DEF IInv, TypeOK, RosterWellFormed, NoDeadEntry, DepartureIsFinal
<1> QED
  BY <1>6, <1>7, <1>8 DEF IInv

\* leaveVoice looks its channel up.
LEMMA LeaveVoiceKeepsIInv ==
  ASSUME IInv, NEW c \in Conns, LeaveVoice(c)
  PROVE  IInv'
<1>1. /\ Voice(c) \in Objs /\ Voice(c)[1] = c /\ Voice(c)[2] = cur[c]
      /\ home[Voice(c)] \in VCs
  BY VoiceIsObj DEF IInv, Holds, LeaveVoice
<1>2. \A p \in Objs : (Listed(p)' <=> Listed(p)) /\ (BeingClosed(p)' <=> BeingClosed(p))
  BY DEF IInv, TypeOK, Listed, BeingClosed, LeaveVoice
<1>3. \A vc \in VCs : vc[1] \in Channels
  BY GotIsVC
<1>4. \A h \in Channels : Got(h) \in VCs /\ Got(h)[1] = h /\ Got(h)[2] \in {1, 2}
  BY GotIsVC DEF IInv
<1>5. /\ TypeOK' /\ Generations' /\ Joined' /\ Holds' /\ Entering'
      /\ NoMediaIsClosed' /\ LeaveIsPending' /\ Calling' /\ Stays'
      /\ RosterWellFormed' /\ NoDeadEntry' /\ DepartureIsFinal'
  BY <1>1, <1>2, <1>3, <1>4 DEF IInv, TypeOK, Holds, Handling, Generations, Got,
     Joined, RosterWellFormed, Entering, NoMediaIsClosed, LeaveIsPending, Calling,
     DepartureIsFinal, Stays, NoDeadEntry, LeaveVoice, GetOrCreate
<1> QED
  BY <1>5 DEF IInv

\* A connection that is not in voice ends.
LEMMA DisconnectKeepsIInv ==
  ASSUME IInv, NEW c \in Conns, Disconnect(c)
  PROVE  IInv'
<1>1. \A p \in Objs : (Listed(p)' <=> Listed(p)) /\ (BeingClosed(p)' <=> BeingClosed(p))
  BY DEF IInv, TypeOK, Listed, BeingClosed, Disconnect
<1>2. /\ TypeOK' /\ Generations' /\ Joined' /\ Holds' /\ Entering'
      /\ NoMediaIsClosed' /\ LeaveIsPending' /\ Calling' /\ Stays'
      /\ RosterWellFormed' /\ NoDeadEntry' /\ DepartureIsFinal'
  BY <1>1 DEF IInv, TypeOK, Holds, Handling, Generations, Got, Joined,
     RosterWellFormed, Entering, NoMediaIsClosed, LeaveIsPending, Calling, DepartureIsFinal,
     Stays, NoDeadEntry, Disconnect
<1> QED
  BY <1>2 DEF IInv

\* The sweep starts with the values the registry has.
LEMMA KickServerKeepsIInv ==
  ASSUME IInv, NEW c \in Conns, NEW u \in UserIds, KickServer(c, u)
  PROVE  IInv'
<1>1. \A h \in registered : <<h, made[h]>> \in VCs
  BY DEF IInv, TypeOK, Generations, VCs
<1>2. sweep' \in [Conns -> SUBSET VCs]
  BY <1>1 DEF IInv, TypeOK, KickServer
<1>3. /\ At(c, "ready") /\ Goto(c, "sweep")
      /\ target' = [target EXCEPT ![c] = u]
      /\ UNCHANGED <<registry, roster, session, at, ending, closing, victim, peers, history>>
  BY DEF KickServer
<1>4. \A p \in Objs : (Listed(p)' <=> Listed(p)) /\ (BeingClosed(p)' <=> BeingClosed(p))
  BY <1>3 DEF IInv, TypeOK, Listed, BeingClosed
<1>5. TypeOK' /\ Generations' /\ Joined' /\ Holds'
  BY <1>2, <1>3, <1>4 DEF IInv, TypeOK, Holds, Handling, Generations, Got, Joined
<1>6. Entering' /\ NoMediaIsClosed' /\ LeaveIsPending' /\ Calling' /\ Stays'
  BY <1>2, <1>3, <1>4 DEF IInv, TypeOK, Entering, NoMediaIsClosed, LeaveIsPending,
     Calling, Stays
<1>7. RosterWellFormed' /\ NoDeadEntry' /\ DepartureIsFinal'
  BY <1>2, <1>3, <1>4 DEF IInv, TypeOK, RosterWellFormed, NoDeadEntry, DepartureIsFinal
<1> QED
  BY <1>5, <1>6, <1>7 DEF IInv

\* kick-voice looks its channel up.
LEMMA KickVoiceKeepsIInv ==
  ASSUME IInv, NEW c \in Conns, NEW ch \in Channels, NEW u \in UserIds, KickVoice(c, ch, u)
  PROVE  IInv'
<1>1. \A p \in Objs : (Listed(p)' <=> Listed(p)) /\ (BeingClosed(p)' <=> BeingClosed(p))
  BY DEF IInv, TypeOK, Listed, BeingClosed, KickVoice
<1>2. \A vc \in VCs : vc[1] \in Channels
  BY GotIsVC
<1>3. \A h \in Channels : Got(h) \in VCs /\ Got(h)[1] = h /\ Got(h)[2] \in {1, 2}
  BY GotIsVC DEF IInv
<1>4. /\ TypeOK' /\ Generations' /\ Joined' /\ Holds' /\ Entering'
      /\ NoMediaIsClosed' /\ LeaveIsPending' /\ Calling' /\ Stays'
      /\ RosterWellFormed' /\ NoDeadEntry' /\ DepartureIsFinal'
  BY <1>1, <1>2, <1>3 DEF IInv, TypeOK, Holds, Handling, Generations, Got, Joined,
     RosterWellFormed, Entering, NoMediaIsClosed, LeaveIsPending, Calling, DepartureIsFinal,
     Stays, NoDeadEntry, KickVoice, GetOrCreate
<1> QED
  BY <1>4 DEF IInv

\* The new voice user takes the place of whoever was listed, or is dropped.
LEMMA EnterVoiceKeepsIInv ==
  ASSUME IInv, NEW c \in Conns, EnterVoice(c)
  PROVE  IInv'
<1>1. joins[c] \in Nat \ {0} /\ joins[c] <= MaxJoins[c]
  BY DEF IInv, TypeOK, Holds, EnterVoice
<1>2. PICK o \in Objs : o = <<c, joins[c]>> /\ o[1] = c /\ o[2] = joins[c]
  BY <1>1, PairsAreObjs
<1>3. home[o] \in VCs /\ Account[c] \in UserIds
  BY <1>1, <1>2 DEF IInv, Joined, TypeOK
<1>4. /\ At(c, "enter") /\ Goto(c, "ready")
      /\ UNCHANGED <<registry, joins, at, ending, kick, peers, announced>>
  BY DEF EnterVoice
<1>5. CASE UNCHANGED <<roster, cur, replaced>>
  <2>1. \A p \in Objs : (Listed(p)' <=> Listed(p)) /\ (BeingClosed(p)' <=> BeingClosed(p))
    BY <1>4, <1>5 DEF IInv, TypeOK, Listed, BeingClosed
  <2>2. /\ TypeOK' /\ Generations' /\ Joined' /\ Holds' /\ Entering'
        /\ NoMediaIsClosed' /\ LeaveIsPending' /\ Calling' /\ Stays'
        /\ RosterWellFormed' /\ NoDeadEntry' /\ DepartureIsFinal'
    BY <1>2, <1>4, <1>5, <2>1 DEF IInv, TypeOK, Holds, Handling, Generations, Got,
       Joined, RosterWellFormed, Entering, NoMediaIsClosed, LeaveIsPending, Calling,
       DepartureIsFinal, Stays, NoDeadEntry
  <2> QED
    BY <2>2 DEF IInv
<1>6. CASE /\ roster' = [roster EXCEPT ![home[o]][Id(o)] = o]
            /\ cur' = [cur EXCEPT ![c] = joins[c]]
            /\ replaced' = replaced \cup ({roster[home[o]][Id(o)]} \ {None})
  <2>1. /\ roster' \in [VCs -> [UserIds -> Objs \cup {None}]]
        /\ \A v \in VCs, w \in UserIds :
             roster'[v][w] = IF v = home[o] /\ w = Id(o) THEN o ELSE roster[v][w]
    BY <1>2, <1>3, <1>6 DEF IInv, TypeOK
  <2>2. /\ cur' = [cur EXCEPT ![c] = joins[c]]
        /\ replaced' \in SUBSET Objs /\ replaced \subseteq replaced'
    BY <1>2, <1>3, <1>6 DEF IInv, TypeOK
  <2>3. \A p \in Objs : BeingClosed(p)' <=> BeingClosed(p)
    BY <1>4 DEF BeingClosed
  <2>4. Listed(o)' /\ \A p \in Objs : Listed(p)' => p = o \/ Listed(p)
    <3>1. \A p \in Objs : Id(p) \in UserIds /\ (home[p] # None => home[p] \in VCs)
      BY DEF IInv, TypeOK
    <3>2. Listed(o)'
      BY <1>3, <1>4, <2>1, <3>1 DEF Listed
    <3>3. \A p \in Objs : Listed(p)' => p = o \/ Listed(p)
      BY <1>4, <2>1, <3>1 DEF Listed
    <3> QED
      BY <3>2, <3>3
  <2>5. \A p \in Objs : Listed(p) => Listed(p)' \/ p \in replaced'
    BY <1>2, <1>3, <1>4, <1>6, <2>1 DEF IInv, TypeOK, Listed
  <2>6. TypeOK' /\ Generations'
    BY <1>2, <1>3, <1>4, <2>1, <2>2, <2>3, <2>4, <2>5 DEF IInv, TypeOK, Holds,
       Handling, Generations, Got
  <2>7. Joined' /\ Holds'
    BY <1>2, <1>3, <1>4, <2>1, <2>2, <2>3, <2>4, <2>5 DEF IInv, TypeOK, Joined,
       Holds, RosterWellFormed
  <2>8. Entering' /\ NoMediaIsClosed' /\ LeaveIsPending' /\ Calling' /\ Stays'
    BY <1>2, <1>3, <1>4, <2>1, <2>2, <2>3, <2>4, <2>5 DEF IInv, TypeOK, Entering,
       Joined, Holds, NoMediaIsClosed, LeaveIsPending, Calling, DepartureIsFinal, Stays
  <2>9. NoDeadEntry' /\ DepartureIsFinal'
    BY <1>2, <1>3, <1>4, <2>1, <2>2, <2>3, <2>4, <2>5 DEF IInv, TypeOK, NoDeadEntry,
       Joined, Entering, DepartureIsFinal, LeaveIsPending
  <2>10. RosterWellFormed'
    <3> SUFFICES ASSUME NEW v \in VCs, NEW w \in UserIds, roster'[v][w] # None
                 PROVE  Id(roster'[v][w]) = w /\ home[roster'[v][w]] = v
      BY <1>4 DEF RosterWellFormed
    <3>1. CASE v = home[o] /\ w = Id(o)
      <4>1. roster'[v][w] = o
        BY <2>1, <3>1
      <4> QED
        BY <3>1, <4>1
    <3>2. CASE ~(v = home[o] /\ w = Id(o))
      <4>1. roster'[v][w] = roster[v][w]
        BY <2>1, <3>2
      <4> QED
        BY <4>1 DEF IInv, RosterWellFormed
    <3> QED
      BY <3>1, <3>2
  <2> QED
    BY <2>6, <2>7, <2>8, <2>9, <2>10 DEF IInv
<1> QED
  BY <1>2, <1>5, <1>6 DEF EnterVoice

\* RemoveUserIf takes off the session's own voice user or nobody.
LEMMA LeaveRosterKeepsIInv ==
  ASSUME IInv, NEW c \in Conns, LeaveRoster(c)
  PROVE  IInv'
<1>1. /\ Voice(c) \in Objs /\ Voice(c)[1] = c /\ Voice(c)[2] = cur[c]
      /\ home[Voice(c)] \in VCs
  BY VoiceIsObj DEF IInv, Holds, LeaveRoster
<1>2. at[c] \in VCs /\ Id(Voice(c)) \in UserIds
  BY <1>1 DEF IInv, TypeOK, Holds, LeaveRoster
<1>3. /\ roster' \in [VCs -> [UserIds -> Objs \cup {None}]]
      /\ \A v \in VCs, w \in UserIds :
           roster'[v][w] = IF v = at[c] /\ w = Id(Voice(c)) /\ roster[v][w] = Voice(c)
                             THEN None ELSE roster[v][w]
  <2>1. RemoveUserIf(at[c], Voice(c))
    BY DEF LeaveRoster
  <2> QED
    BY <1>1, <1>2, <2>1, RemovalIsLocal DEF IInv, Removes
<1>4. /\ At(c, "remove") /\ Goto(c, "close")
      /\ at' = [at EXCEPT ![c] = IF Removes(@, Voice(c)) THEN @ ELSE None]
      /\ UNCHANGED <<registry, session, ending, kick, peers, history>>
  BY DEF LeaveRoster
<1>5. Removes(at[c], Voice(c)) => home[Voice(c)] = at[c] /\ Listed(Voice(c))
  BY <1>1, <1>2 DEF IInv, TypeOK, Removes, RosterWellFormed, Listed
<1>6. \A p \in Objs :
        /\ BeingClosed(p)' <=> BeingClosed(p)
        /\ Listed(p)' <=> Listed(p) /\ ~(p = Voice(c) /\ home[p] = at[c])
  BY <1>1, <1>2, <1>3, <1>4 DEF IInv, TypeOK, Listed, BeingClosed
<1>7. at' \in [Conns -> VCs \cup {None}]
  BY <1>2, <1>4 DEF IInv, TypeOK
<1>8. TypeOK' /\ Generations'
  BY <1>1, <1>2, <1>3, <1>4, <1>5, <1>6, <1>7 DEF IInv, TypeOK, Holds, Handling,
     Generations, Got
<1>9. Joined' /\ Holds'
  BY <1>1, <1>2, <1>3, <1>4, <1>5, <1>6, <1>7 DEF IInv, TypeOK, Joined, Holds,
     RosterWellFormed
<1>10. Entering' /\ NoMediaIsClosed' /\ Stays'
  BY <1>1, <1>2, <1>3, <1>4, <1>5, <1>6, <1>7 DEF IInv, TypeOK, Entering, Joined,
     Holds, NoMediaIsClosed, Stays
<1>11. Calling'
  BY <1>4, <1>6 DEF IInv, Calling
<1>12. LeaveIsPending'
  <2> SUFFICES ASSUME NEW p \in Objs, At(p[1], "close")', at'[p[1]] # None,
                      cur'[p[1]] = p[2]
               PROVE  announced[p] = 0 /\ callback[p] # "tell" /\ ~Listed(p)'
    BY <1>4 DEF LeaveIsPending
  <2>1. CASE p[1] = c
    <3>1. p = Voice(c)
      BY <1>1, <1>4, <2>1
    <3>2. Removes(at[c], Voice(c))
      BY <1>4, <2>1 DEF IInv, TypeOK
    <3>3. Listed(p) /\ ~Listed(p)'
      BY <1>5, <1>6, <3>1, <3>2
    <3>4. announced[p] = 0
      <4>1. announced[p] \in Nat
        BY DEF IInv, TypeOK
      <4>2. announced[p] <= 1 /\ (announced[p] = 1 => ~Listed(p))
        BY DEF IInv, DepartureIsFinal
      <4> QED
        BY <3>3, <4>1, <4>2
    <3>5. callback[p] # "tell"
      BY <3>3 DEF IInv, Calling
    <3> QED
      BY <3>3, <3>4, <3>5
  <2>2. CASE p[1] # c
    BY <1>4, <1>6, <2>2 DEF IInv, TypeOK, LeaveIsPending
  <2> QED
    BY <2>1, <2>2
<1>13. RosterWellFormed' /\ NoDeadEntry' /\ DepartureIsFinal'
  BY <1>1, <1>2, <1>3, <1>4, <1>5, <1>6, <1>7 DEF IInv, TypeOK, RosterWellFormed,
     Joined, NoDeadEntry, Entering, DepartureIsFinal, LeaveIsPending, Calling
<1> QED
  BY <1>8, <1>9, <1>10, <1>12, <1>13, <1>11 DEF IInv

\* The write of a Broadcast returns, and nothing else happens.
LEMMA ResumeKeepsIInv ==
  ASSUME IInv, NEW c \in Conns, Resume(c)
  PROVE  IInv'
<1>1. \A p \in Objs : (Listed(p)' <=> Listed(p)) /\ (BeingClosed(p)' <=> BeingClosed(p))
  BY DEF IInv, TypeOK, Listed, BeingClosed, Resume
<1>2. /\ TypeOK' /\ Generations' /\ Joined' /\ Holds' /\ Entering'
      /\ NoMediaIsClosed' /\ LeaveIsPending' /\ Calling' /\ Stays'
      /\ RosterWellFormed' /\ NoDeadEntry' /\ DepartureIsFinal'
  BY <1>1 DEF IInv, TypeOK, Holds, Handling, Generations, Got, Joined,
     RosterWellFormed, Entering, NoMediaIsClosed, LeaveIsPending, Calling,
     DepartureIsFinal, Stays, NoDeadEntry, Resume
<1> QED
  BY <1>2 DEF IInv

\* A peer connection that is closed has its handler started, if it was open.
LEMMA ClosingStarts ==
  ASSUME IInv, NEW o \in Objs, CloseRtc(o)
  PROVE  /\ rtc' \in [Objs -> {"none", "new", "live", "down", "closed"}]
         /\ callback' \in [Objs -> {"idle", "due", "tell", "stuck", "hangup"}]
         /\ rtc'[o] = "closed"
         /\ \A p \in Objs : p # o => rtc'[p] = rtc[p] /\ callback'[p] = callback[p]
         /\ callback[o] # "idle" => callback'[o] = callback[o]
         /\ callback[o] = "idle" => callback'[o] \in {"idle", "due"}
         /\ Open(o) => callback'[o] = "due"
  BY DEF IInv, TypeOK, Calling, CloseRtc, Started

\* A departure is announced by the leave that took its voice user off.
LEMMA CloseMediaKeepsIInv ==
  ASSUME IInv, NEW c \in Conns, CloseMedia(c)
  PROVE  IInv'
<1>1. PICK o \in Objs : o = Voice(c) /\ o[1] = c /\ o[2] = cur[c] /\ home[o] \in VCs
  BY VoiceIsObj DEF IInv, Holds, CloseMedia
<1>2. \A p \in Objs : (Listed(p)' <=> Listed(p)) /\ (BeingClosed(p)' <=> BeingClosed(p))
  BY DEF IInv, TypeOK, Listed, BeingClosed, CloseMedia
<1>3. /\ At(c, "close") /\ media' = [media EXCEPT ![o] = FALSE]
      /\ cur' = [cur EXCEPT ![c] = 0]
      /\ announced' = [announced EXCEPT ![o] = IF at[c] # None THEN @ + 1 ELSE @]
      /\ UNCHANGED <<registry, roster, joins, ending, kick, home, relaying, replaced>>
      /\ CloseRtc(o)
  BY <1>1 DEF CloseMedia
<1>4. /\ at' \in [Conns -> VCs \cup {None}]
      /\ pc' \in [Conns -> {"ready", "closed", "panicked"} \cup Handling]
      /\ pc'[c] \in {"ready", "closed", "stuck"}
      /\ \A d \in Conns : d # c => pc'[d] = pc[d] /\ at'[d] = at[d]
  BY <1>1 DEF CloseMedia, Broadcast, IInv, TypeOK, Handling
<1>5. /\ rtc' \in [Objs -> {"none", "new", "live", "down", "closed"}]
      /\ callback' \in [Objs -> {"idle", "due", "tell", "stuck", "hangup"}]
      /\ rtc'[o] = "closed"
      /\ \A p \in Objs : p # o => rtc'[p] = rtc[p] /\ callback'[p] = callback[p]
      /\ callback[o] # "idle" => callback'[o] = callback[o]
      /\ callback[o] = "idle" => callback'[o] \in {"idle", "due"}
      /\ Open(o) => callback'[o] = "due"
  BY <1>3, ClosingStarts
<1>6. at[c] # None => announced[o] = 0 /\ callback[o] # "tell" /\ ~Listed(o)
  BY <1>1, <1>3 DEF IInv, LeaveIsPending
<1>7. TypeOK' /\ Generations'
  <2>1. /\ cur' \in [Conns -> Nat] /\ media' \in [Objs -> BOOLEAN]
        /\ announced' \in [Objs -> Nat]
        /\ \A d \in Conns : cur'[d] <= joins[d]
    BY <1>3 DEF IInv, TypeOK
  <2> QED
    BY <1>3, <1>4, <1>5, <2>1 DEF IInv, TypeOK, Generations, Got
<1>8. Joined' /\ Holds'
  BY <1>1, <1>2, <1>3, <1>4, <1>5 DEF IInv, TypeOK, Joined, Holds, RosterWellFormed
<1>9. Entering' /\ NoMediaIsClosed' /\ Stays'
  BY <1>1, <1>2, <1>3, <1>4, <1>5 DEF IInv, TypeOK, Entering, Joined, Holds,
     NoMediaIsClosed, Stays
<1>10. LeaveIsPending' /\ Calling'
  BY <1>1, <1>2, <1>3, <1>4, <1>5, <1>6 DEF IInv, TypeOK, LeaveIsPending, Calling
<1>11. RosterWellFormed' /\ NoDeadEntry'
  BY <1>1, <1>2, <1>3, <1>4, <1>5 DEF IInv, TypeOK, RosterWellFormed, NoDeadEntry, Joined
<1>12. DepartureIsFinal'
  BY <1>1, <1>2, <1>3, <1>6 DEF IInv, TypeOK, DepartureIsFinal
<1> QED
  BY <1>7, <1>8, <1>9, <1>10, <1>11, <1>12 DEF IInv

\* KickUser takes a voice user off its roster and holds it until it is closed.
LEMMA KickUserKeepsIInv ==
  ASSUME IInv, NEW c \in Conns, KickUser(c)
  PROVE  IInv'
<1>1. PICK vc \in sweep[c] :
        /\ sweep' = [sweep EXCEPT ![c] = @ \ {vc}]
        /\ \/ roster[vc][target[c]] = None /\ UNCHANGED <<roster, victim, pc>>
           \/ /\ roster[vc][target[c]] # None
              /\ roster' = [roster EXCEPT ![vc][target[c]] = None]
              /\ victim' = [victim EXCEPT ![c] = roster[vc][target[c]]]
              /\ Goto(c, IF At(c, "kick") THEN "kickClose" ELSE "sweepClose")
  BY DEF KickUser
<1>2. /\ pc[c] \in {"kick", "sweep"}
      /\ UNCHANGED <<registry, session, at, ending, target, closing, peers, history>>
      /\ vc \in VCs /\ target[c] \in UserIds
      /\ sweep' \in [Conns -> SUBSET VCs]
  BY <1>1 DEF KickUser, IInv, TypeOK, Holds
<1>3. CASE UNCHANGED <<roster, victim, pc>>
  <2>1. \A p \in Objs : (Listed(p)' <=> Listed(p)) /\ (BeingClosed(p)' <=> BeingClosed(p))
    BY <1>2, <1>3 DEF IInv, TypeOK, Listed, BeingClosed
  <2>2. /\ TypeOK' /\ Generations' /\ Joined' /\ Holds' /\ Entering'
        /\ NoMediaIsClosed' /\ LeaveIsPending' /\ Calling' /\ Stays'
        /\ RosterWellFormed' /\ NoDeadEntry' /\ DepartureIsFinal'
    BY <1>2, <1>3, <2>1 DEF IInv, TypeOK, Holds, Handling, Generations, Got, Joined,
       RosterWellFormed, Entering, NoMediaIsClosed, LeaveIsPending, Calling,
       DepartureIsFinal, Stays, NoDeadEntry
  <2> QED
    BY <2>2 DEF IInv
<1>4. CASE /\ roster[vc][target[c]] # None
            /\ roster' = [roster EXCEPT ![vc][target[c]] = None]
            /\ victim' = [victim EXCEPT ![c] = roster[vc][target[c]]]
            /\ Goto(c, IF At(c, "kick") THEN "kickClose" ELSE "sweepClose")
  <2>1. /\ roster' \in [VCs -> [UserIds -> Objs \cup {None}]]
        /\ \A v \in VCs, w \in UserIds :
             roster'[v][w] = IF v = vc /\ w = target[c] THEN None ELSE roster[v][w]
    BY <1>2, <1>4 DEF IInv, TypeOK
  <2>2. PICK o \in Objs : o = roster[vc][target[c]]
    BY <1>2, <1>4 DEF IInv, TypeOK
  <2>3. victim' = [victim EXCEPT ![c] = o] /\ victim[c] = None
    BY <1>2, <1>4, <2>2 DEF IInv, Holds
  <2>4. home[o] = vc /\ Id(o) = target[c] /\ roster[vc][target[c]] = o
    BY <1>2, <2>2, VoiceAssumption DEF IInv, RosterWellFormed
  <2>5. /\ Goto(c, IF At(c, "kick") THEN "kickClose" ELSE "sweepClose")
        /\ victim' \in [Conns -> Objs \cup {None}]
    BY <1>4, <2>3 DEF IInv, TypeOK
  <2>6. \A p \in Objs :
          /\ BeingClosed(p)' <=> BeingClosed(p) \/ p = o
          /\ Listed(p)' <=> Listed(p) /\ p # o
          /\ Listed(o)
    <3>1. \A p \in Objs : BeingClosed(p)' <=> BeingClosed(p) \/ p = o
      BY <1>2, <2>3 DEF IInv, TypeOK, BeingClosed
    <3>2. \A p \in Objs : Id(p) \in UserIds /\ (home[p] # None => home[p] \in VCs)
      BY DEF IInv, TypeOK
    <3>3. Listed(o)
      BY <1>2, <2>4 DEF Listed
    <3>4. \A p \in Objs : Listed(p)' <=> Listed(p) /\ p # o
      BY <1>2, <2>1, <2>4, <3>2 DEF Listed
    <3> QED
      BY <3>1, <3>3, <3>4
  <2>7. TypeOK' /\ Generations'
    BY <1>2, <2>1, <2>3, <2>4, <2>5, <2>6 DEF IInv, TypeOK, Holds, Handling,
       Generations, Got
  <2>8. Joined' /\ Holds'
    BY <1>2, <2>1, <2>3, <2>4, <2>5, <2>6 DEF IInv, TypeOK, Joined, Holds,
       RosterWellFormed
  <2>9. Entering' /\ NoMediaIsClosed' /\ LeaveIsPending' /\ Calling' /\ Stays'
    BY <1>2, <2>1, <2>3, <2>4, <2>5, <2>6 DEF IInv, TypeOK, Entering, Joined, Holds,
       NoMediaIsClosed, LeaveIsPending, Calling, DepartureIsFinal, Stays
  <2>10. RosterWellFormed' /\ NoDeadEntry' /\ DepartureIsFinal'
    BY <1>2, <2>1, <2>3, <2>4, <2>5, <2>6 DEF IInv, TypeOK, RosterWellFormed,
       Joined, NoDeadEntry, Entering, DepartureIsFinal, LeaveIsPending
  <2> QED
    BY <2>7, <2>8, <2>9, <2>10 DEF IInv
<1> QED
  BY <1>1, <1>3, <1>4

\* What was taken off a roster is closed, or was closed before by its own session.
LEMMA CloseVictimKeepsIInv ==
  ASSUME IInv, NEW c \in Conns, NEW there \in {"kick", "sweep", "closing"}, CloseVictim(c, there),
         \/ At(c, "kickClose") /\ there = "kick"
         \/ At(c, "sweepClose") /\ there = "sweep"
         \/ At(c, "closeOne") /\ there = "closing"
  PROVE  IInv'
<1>1. PICK o \in Objs : o = victim[c]
  BY DEF IInv, TypeOK, Holds
<1>2. /\ victim' = [victim EXCEPT ![c] = None]
      /\ home[o] # None
      /\ UNCHANGED <<registry, roster, session, at, ending, target, sweep, closing, home,
                      media, relaying, history>>
  BY <1>1 DEF CloseVictim, IInv, Joined, BeingClosed
<1>3. \A p \in Objs :
        /\ BeingClosed(p)' => BeingClosed(p)
        /\ BeingClosed(p) => BeingClosed(p)' \/ p = o
        /\ Listed(p)' <=> Listed(p)
  BY <1>1, <1>2 DEF IInv, TypeOK, Listed, BeingClosed
<1>4. BeingClosed(o)
  BY <1>1 DEF BeingClosed
<1>5. CASE CloseRtc(o) /\ Goto(c, there)
  <2>1. /\ rtc' \in [Objs -> {"none", "new", "live", "down", "closed"}]
        /\ callback' \in [Objs -> {"idle", "due", "tell", "stuck", "hangup"}]
        /\ rtc'[o] = "closed"
        /\ \A p \in Objs : p # o => rtc'[p] = rtc[p] /\ callback'[p] = callback[p]
        /\ callback[o] # "idle" => callback'[o] = callback[o]
        /\ callback[o] = "idle" => callback'[o] \in {"idle", "due"}
        /\ Open(o) => callback'[o] = "due"
    BY <1>5, ClosingStarts
  <2>2. TypeOK' /\ Generations'
    BY <1>1, <1>2, <1>5, <2>1 DEF IInv, TypeOK, Holds, Handling, Generations, Got
  <2>3. Joined' /\ Holds'
    BY <1>1, <1>2, <1>3, <1>4, <1>5, <2>1 DEF IInv, TypeOK, Joined, Holds, RosterWellFormed
  <2>4. NoMediaIsClosed' /\ Stays'
    BY <1>2, <1>3, <1>5, <2>1 DEF IInv, TypeOK, Holds, NoMediaIsClosed, Stays
  <2>5. Entering'
    BY <1>1, <1>2, <1>3, <1>4, <1>5, <2>1 DEF IInv, TypeOK, Entering
  <2>6. LeaveIsPending' /\ Calling'
    BY <1>1, <1>2, <1>3, <1>4, <1>5, <2>1 DEF IInv, TypeOK, LeaveIsPending, Calling
  <2>7. RosterWellFormed' /\ NoDeadEntry' /\ DepartureIsFinal'
    BY <1>1, <1>2, <1>3, <1>4, <1>5, <2>1 DEF IInv, TypeOK, RosterWellFormed, Joined,
       NoDeadEntry, DepartureIsFinal
  <2> QED
    BY <2>2, <2>3, <2>4, <2>6, <2>7, <2>5 DEF IInv
<1>6. CASE ~media[o] /\ Goto(c, "panicked") /\ UNCHANGED <<rtc, callback>>
  <2>1. /\ TypeOK' /\ Generations' /\ Joined' /\ Holds' /\ Entering'
        /\ NoMediaIsClosed' /\ LeaveIsPending' /\ Calling' /\ Stays'
        /\ RosterWellFormed' /\ NoDeadEntry' /\ DepartureIsFinal'
    BY <1>1, <1>2, <1>3, <1>6 DEF IInv, TypeOK, Holds, Handling, Generations, Got,
       Joined, RosterWellFormed, Entering, NoMediaIsClosed, LeaveIsPending, Calling,
       DepartureIsFinal, Stays, NoDeadEntry
  <2> QED
    BY <2>1 DEF IInv
<1> QED
  BY <1>1, <1>5, <1>6 DEF CloseVictim

\* A kick that has looked at every channel holds nothing.
LEMMA KickDoneKeepsIInv ==
  ASSUME IInv, NEW c \in Conns, KickDone(c)
  PROVE  IInv'
<1>1. \A p \in Objs : (Listed(p)' <=> Listed(p)) /\ (BeingClosed(p)' <=> BeingClosed(p))
  BY DEF IInv, TypeOK, Listed, BeingClosed, KickDone
<1>2. /\ TypeOK' /\ Generations' /\ Joined' /\ Holds' /\ Entering'
      /\ NoMediaIsClosed' /\ LeaveIsPending' /\ Calling' /\ Stays'
      /\ RosterWellFormed' /\ NoDeadEntry' /\ DepartureIsFinal'
  BY <1>1 DEF IInv, TypeOK, Holds, Handling, Generations, Got, Joined,
     RosterWellFormed, Entering, NoMediaIsClosed, LeaveIsPending, Calling, DepartureIsFinal,
     Stays, NoDeadEntry, KickDone
<1> QED
  BY <1>2 DEF IInv

\* Whoever CloseAll takes off the roster is held until it is closed.
LEMMA CloseAllKeepsIInv ==
  ASSUME IInv, NEW c \in Conns, CloseAll(c)
  PROVE  IInv'
<1>1. at[c] \in VCs /\ closing[c] = {}
  <2>1. pc[c] = "closeAll"
    BY DEF CloseAll
  <2>2. at[c] # None /\ closing[c] = {}
    BY <2>1 DEF IInv, Holds
  <2> QED
    BY <2>2 DEF IInv, TypeOK
<1>2. /\ roster' \in [VCs -> [UserIds -> Objs \cup {None}]]
      /\ \A v \in VCs, w \in UserIds : roster'[v][w] = IF v = at[c] THEN None ELSE roster[v][w]
  BY <1>1 DEF IInv, TypeOK, CloseAll
<1>3. /\ closing' \in [Conns -> SUBSET Objs]
      /\ \A d \in Conns : d # c => closing'[d] = closing[d]
      /\ \A o \in Objs : o \in closing'[c] <=> \E u \in UserIds : roster[at[c]][u] = o
  BY <1>1 DEF IInv, TypeOK, CloseAll
<1>4. \A o \in Objs : o \in closing'[c] <=> home[o] = at[c] /\ Listed(o)
  BY <1>1, <1>3 DEF IInv, TypeOK, RosterWellFormed, Listed
<1>5. /\ At(c, "closeAll") /\ Goto(c, "closing") /\ at' = [at EXCEPT ![c] = None]
      /\ UNCHANGED <<registry, session, ending, target, sweep, victim, peers, history>>
  BY DEF CloseAll
<1>6. \A p \in Objs : Listed(p)' <=> Listed(p) /\ home[p] # at[c]
  BY <1>1, <1>2, <1>5 DEF IInv, TypeOK, Listed
<1>7. \A p \in Objs : BeingClosed(p)' <=> BeingClosed(p) \/ (Listed(p) /\ home[p] = at[c])
  BY <1>1, <1>3, <1>4, <1>5 DEF BeingClosed
<1>8. TypeOK' /\ Generations'
  BY <1>1, <1>2, <1>3, <1>5, <1>6, <1>7 DEF IInv, TypeOK, Holds, Handling,
     Generations, Got
<1>9. Joined' /\ Holds'
  BY <1>1, <1>2, <1>3, <1>5, <1>6, <1>7 DEF IInv, TypeOK, Joined, Holds,
     RosterWellFormed
<1>10. Entering' /\ NoMediaIsClosed' /\ LeaveIsPending' /\ Calling' /\ Stays'
  BY <1>1, <1>2, <1>3, <1>5, <1>6, <1>7 DEF IInv, TypeOK, Entering, Joined, Holds,
     NoMediaIsClosed, LeaveIsPending, Calling, DepartureIsFinal, Stays
<1>11. RosterWellFormed' /\ NoDeadEntry' /\ DepartureIsFinal'
  BY <1>1, <1>2, <1>3, <1>5, <1>6, <1>7 DEF IInv, TypeOK, RosterWellFormed, Joined,
     NoDeadEntry, Entering, DepartureIsFinal, LeaveIsPending, Calling
<1> QED
  BY <1>8, <1>9, <1>10, <1>11 DEF IInv

\* CloseAll skips only voice users that were closed already.
LEMMA TestMediaKeepsIInv ==
  ASSUME IInv, NEW c \in Conns, TestMedia(c)
  PROVE  IInv'
<1>1. PICK o \in closing[c] :
        /\ closing' = [closing EXCEPT ![c] = @ \ {o}]
        /\ \/ victim' = [victim EXCEPT ![c] = o] /\ Goto(c, "closeOne")
           \/ ~media[o] /\ UNCHANGED <<victim, pc>>
  BY DEF TestMedia
<1>2. /\ o \in Objs /\ At(c, "closing") /\ victim[c] = None
      /\ UNCHANGED <<registry, roster, session, at, ending, target, sweep, peers, history>>
  BY <1>1 DEF TestMedia, IInv, TypeOK, Holds
<1>3. closing' \in [Conns -> SUBSET Objs] /\ victim' \in [Conns -> Objs \cup {None}]
  BY <1>1, <1>2 DEF IInv, TypeOK
<1>4. \A p \in Objs :
        /\ BeingClosed(p)' => BeingClosed(p)
        /\ BeingClosed(p) => BeingClosed(p)' \/ (p = o /\ ~media[o])
        /\ Listed(p)' <=> Listed(p)
  BY <1>1, <1>2 DEF IInv, TypeOK, Listed, BeingClosed
<1>5. TypeOK' /\ Generations'
  BY <1>1, <1>2, <1>3, <1>4 DEF IInv, TypeOK, Holds, Handling, Generations, Got
<1>6. Joined' /\ Holds'
  BY <1>1, <1>2, <1>3, <1>4 DEF IInv, TypeOK, Joined, Holds, RosterWellFormed
<1>7. Entering' /\ NoMediaIsClosed' /\ LeaveIsPending' /\ Calling' /\ Stays'
  BY <1>1, <1>2, <1>3, <1>4 DEF IInv, TypeOK, Entering, Joined, Holds,
     NoMediaIsClosed, LeaveIsPending, Calling, DepartureIsFinal, Stays
<1>8. RosterWellFormed' /\ NoDeadEntry' /\ DepartureIsFinal'
  BY <1>1, <1>2, <1>3, <1>4 DEF IInv, TypeOK, RosterWellFormed, Joined, NoDeadEntry,
     Entering, DepartureIsFinal, LeaveIsPending, Calling
<1> QED
  BY <1>5, <1>6, <1>7, <1>8 DEF IInv

\* A CloseAll that has closed everybody holds nothing.
LEMMA CloseDoneKeepsIInv ==
  ASSUME IInv, NEW c \in Conns, CloseDone(c)
  PROVE  IInv'
<1>1. \A p \in Objs : (Listed(p)' <=> Listed(p)) /\ (BeingClosed(p)' <=> BeingClosed(p))
  BY DEF IInv, TypeOK, Listed, BeingClosed, CloseDone
<1>2. /\ TypeOK' /\ Generations' /\ Joined' /\ Holds' /\ Entering'
      /\ NoMediaIsClosed' /\ LeaveIsPending' /\ Calling' /\ Stays'
      /\ RosterWellFormed' /\ NoDeadEntry' /\ DepartureIsFinal'
  BY <1>1 DEF IInv, TypeOK, Holds, Handling, Generations, Got, Joined,
     RosterWellFormed, Entering, NoMediaIsClosed, LeaveIsPending, Calling, DepartureIsFinal,
     Stays, NoDeadEntry, CloseDone
<1> QED
  BY <1>2 DEF IInv

\* A dead peer connection has its handler on its way.
LEMMA PeerDownKeepsIInv ==
  ASSUME IInv, NEW o \in Objs, PeerDown(o)
  PROVE  IInv'
<1>1. \A p \in Objs : (Listed(p)' <=> Listed(p)) /\ (BeingClosed(p)' <=> BeingClosed(p))
  BY DEF IInv, TypeOK, Listed, BeingClosed, PeerDown
<1>2. /\ TypeOK' /\ Generations' /\ Joined' /\ Holds' /\ Entering'
      /\ NoMediaIsClosed' /\ LeaveIsPending' /\ Calling' /\ Stays'
      /\ RosterWellFormed' /\ NoDeadEntry' /\ DepartureIsFinal'
  BY <1>1 DEF IInv, TypeOK, Holds, Handling, Generations, Got, Joined,
     RosterWellFormed, Entering, NoMediaIsClosed, LeaveIsPending, Calling, DepartureIsFinal,
     Stays, NoDeadEntry, PeerDown, Started
<1> QED
  BY <1>2 DEF IInv

\* The handler of a state change takes its own voice user off, or nobody.
LEMMA StateChangeKeepsIInv ==
  ASSUME IInv, NEW o \in Objs, StateChange(o)
  PROVE  IInv'
<1>1. home[o] \in VCs /\ Id(o) \in UserIds
  BY DEF IInv, TypeOK, Joined, StateChange
<1>2. /\ roster' \in [VCs -> [UserIds -> Objs \cup {None}]]
      /\ \A v \in VCs, w \in UserIds :
           roster'[v][w] = IF v = home[o] /\ w = Id(o) /\ roster[v][w] = o
                             THEN None ELSE roster[v][w]
  <2>1. RemoveUserIf(home[o], o)
    BY DEF StateChange
  <2> QED
    BY <1>1, <2>1, RemovalIsLocal DEF IInv, Removes
<1>3. /\ callback[o] = "due"
      /\ callback' = [callback EXCEPT ![o] = IF Listed(o) THEN "tell" ELSE "hangup"]
      /\ UNCHANGED <<registry, conns, home, media, rtc, relaying, history>>
  BY <1>1 DEF StateChange, Removes, Listed, IInv, VoiceAssumption
<1>4. \A p \in Objs : BeingClosed(p)' <=> BeingClosed(p)
  BY <1>3 DEF BeingClosed
<1>5. \A p \in Objs : Listed(p)' <=> Listed(p) /\ p # o
  <2>1. \A p \in Objs : Id(p) \in UserIds /\ (home[p] # None => home[p] \in VCs)
    BY DEF IInv, TypeOK
  <2>2. home' = home
    BY <1>3
  <2> QED
    BY <1>1, <1>2, <2>1, <2>2 DEF Listed
<1>6. /\ callback' \in [Objs -> {"idle", "due", "tell", "stuck", "hangup"}]
      /\ callback'[o] = IF Listed(o) THEN "tell" ELSE "hangup"
      /\ \A p \in Objs : p # o => callback'[p] = callback[p]
  BY <1>3 DEF IInv, TypeOK
<1>7. ~Open(o) /\ (Listed(o) => announced[o] = 0)
  <2>1. ~Open(o)
    BY <1>3 DEF IInv, Calling
  <2>2. announced[o] \in Nat /\ announced[o] <= 1 /\ (announced[o] = 1 => ~Listed(o))
    BY DEF IInv, TypeOK, DepartureIsFinal
  <2> QED
    BY <2>1, <2>2
<1>8. TypeOK' /\ Generations'
  BY <1>1, <1>2, <1>3, <1>6 DEF IInv, TypeOK, Holds, Handling, Generations, Got
<1>9. Joined' /\ Holds'
  BY <1>1, <1>2, <1>3, <1>4, <1>5, <1>6 DEF IInv, TypeOK, Joined, Holds, RosterWellFormed
<1>10. Entering' /\ NoMediaIsClosed' /\ Stays'
  BY <1>1, <1>3, <1>4, <1>5, <1>6, <1>7 DEF IInv, TypeOK, Entering, Joined, Holds,
     NoMediaIsClosed, Stays
<1>11. LeaveIsPending' /\ Calling'
  BY <1>1, <1>3, <1>5, <1>6, <1>7 DEF IInv, TypeOK, LeaveIsPending, Calling
<1>12. RosterWellFormed'
  BY <1>1, <1>2, <1>3, <1>4, <1>5 DEF IInv, TypeOK, RosterWellFormed, Joined
<1>13. NoDeadEntry' /\ DepartureIsFinal'
  BY <1>3, <1>5, <1>6 DEF IInv, TypeOK, NoDeadEntry, DepartureIsFinal
<1> QED
  BY <1>8, <1>9, <1>10, <1>11, <1>12, <1>13 DEF IInv

\* It announces a departure that nobody has announced and nobody else will.
LEMMA TellLeaveKeepsIInv ==
  ASSUME IInv, NEW o \in Objs, TellLeave(o)
  PROVE  IInv'
<1>1. \A p \in Objs : (Listed(p)' <=> Listed(p)) /\ (BeingClosed(p)' <=> BeingClosed(p))
  BY DEF IInv, TypeOK, Listed, BeingClosed, TellLeave
<1>2. /\ callback[o] = "tell" /\ callback'[o] \in {"hangup", "stuck"}
      /\ callback' \in [Objs -> {"idle", "due", "tell", "stuck", "hangup"}]
      /\ \A p \in Objs : p # o => callback'[p] = callback[p] /\ announced'[p] = announced[p]
      /\ announced' \in [Objs -> Nat] /\ announced[o] = 0 /\ announced'[o] = 1 /\ ~Listed(o)
      /\ UNCHANGED <<registry, roster, conns, home, media, rtc, relaying, replaced>>
  BY DEF TellLeave, IInv, TypeOK, Calling
<1>3. ~Open(o) /\ home[o] # None
  BY <1>2 DEF IInv, Calling, Joined
<1>4. TypeOK' /\ Generations' /\ Joined' /\ Holds'
  BY <1>1, <1>2, <1>3 DEF IInv, TypeOK, Holds, Handling, Generations, Got, Joined
<1>5. Entering' /\ NoMediaIsClosed' /\ Stays'
  BY <1>1, <1>2, <1>3 DEF IInv, TypeOK, Entering, NoMediaIsClosed, Stays
<1>6. LeaveIsPending' /\ Calling'
  BY <1>1, <1>2, <1>3 DEF IInv, TypeOK, LeaveIsPending, Calling
<1>7. RosterWellFormed' /\ NoDeadEntry'
  BY <1>1, <1>2, <1>3 DEF IInv, TypeOK, RosterWellFormed, NoDeadEntry
<1>8. DepartureIsFinal'
  BY <1>1, <1>2 DEF IInv, DepartureIsFinal
<1> QED
  BY <1>4, <1>5, <1>6, <1>7, <1>8 DEF IInv

\* Its Broadcast returns.
LEMMA ResumeTellingKeepsIInv ==
  ASSUME IInv, NEW o \in Objs, ResumeTelling(o)
  PROVE  IInv'
<1>1. \A p \in Objs : (Listed(p)' <=> Listed(p)) /\ (BeingClosed(p)' <=> BeingClosed(p))
  BY DEF IInv, TypeOK, Listed, BeingClosed, ResumeTelling
<1>2. /\ TypeOK' /\ Generations' /\ Joined' /\ Holds' /\ Entering'
      /\ NoMediaIsClosed' /\ LeaveIsPending' /\ Calling' /\ Stays'
      /\ RosterWellFormed' /\ NoDeadEntry' /\ DepartureIsFinal'
  BY <1>1 DEF IInv, TypeOK, Holds, Handling, Generations, Got, Joined,
     RosterWellFormed, Entering, NoMediaIsClosed, LeaveIsPending, Calling,
     DepartureIsFinal, Stays, NoDeadEntry, ResumeTelling
<1> QED
  BY <1>2 DEF IInv

\* It closes the peer connection of a voice user that is off the roster.
LEMMA HangUpKeepsIInv ==
  ASSUME IInv, NEW o \in Objs, HangUp(o)
  PROVE  IInv'
<1>1. \A p \in Objs : (Listed(p)' <=> Listed(p)) /\ (BeingClosed(p)' <=> BeingClosed(p))
  BY DEF IInv, TypeOK, Listed, BeingClosed, HangUp
<1>2. /\ TypeOK' /\ Generations' /\ Joined' /\ Holds' /\ Entering'
      /\ NoMediaIsClosed' /\ LeaveIsPending' /\ Calling' /\ Stays'
      /\ RosterWellFormed' /\ NoDeadEntry' /\ DepartureIsFinal'
  BY <1>1 DEF IInv, TypeOK, Holds, Handling, Generations, Got, Joined,
     RosterWellFormed, Entering, NoMediaIsClosed, LeaveIsPending, Calling,
     DepartureIsFinal, Stays, NoDeadEntry, HangUp
<1> QED
  BY <1>2 DEF IInv

\* A ForwardTrack that waits for a client changes nothing,
LEMMA RelayStallsKeepsIInv ==
  ASSUME IInv, NEW o \in Objs, RelayStalls(o)
  PROVE  IInv'
<1>1. \A p \in Objs : (Listed(p)' <=> Listed(p)) /\ (BeingClosed(p)' <=> BeingClosed(p))
  BY DEF IInv, TypeOK, Listed, BeingClosed, RelayStalls
<1>2. /\ TypeOK' /\ Generations' /\ Joined' /\ Holds' /\ Entering'
      /\ NoMediaIsClosed' /\ LeaveIsPending' /\ Calling' /\ Stays'
      /\ RosterWellFormed' /\ NoDeadEntry' /\ DepartureIsFinal'
  BY <1>1 DEF IInv, TypeOK, Holds, Handling, Generations, Got, Joined,
     RosterWellFormed, Entering, NoMediaIsClosed, LeaveIsPending, Calling,
     DepartureIsFinal, Stays, NoDeadEntry, RelayStalls
<1> QED
  BY <1>2 DEF IInv

\* nor does one that goes on.
LEMMA RelayResumesKeepsIInv ==
  ASSUME IInv, NEW o \in Objs, RelayResumes(o)
  PROVE  IInv'
<1>1. \A p \in Objs : (Listed(p)' <=> Listed(p)) /\ (BeingClosed(p)' <=> BeingClosed(p))
  BY DEF IInv, TypeOK, Listed, BeingClosed, RelayResumes
<1>2. /\ TypeOK' /\ Generations' /\ Joined' /\ Holds' /\ Entering'
      /\ NoMediaIsClosed' /\ LeaveIsPending' /\ Calling' /\ Stays'
      /\ RosterWellFormed' /\ NoDeadEntry' /\ DepartureIsFinal'
  BY <1>1 DEF IInv, TypeOK, Holds, Handling, Generations, Got, Joined,
     RosterWellFormed, Entering, NoMediaIsClosed, LeaveIsPending, Calling,
     DepartureIsFinal, Stays, NoDeadEntry, RelayResumes
<1> QED
  BY <1>2 DEF IInv

-----------------------------------------------------------------------------
\* Every critical section of every handler preserves the inductive invariant.
LEMMA VoiceStep == IInv /\ [Next]_vars => IInv'
<1> SUFFICES ASSUME IInv, [Next]_vars PROVE IInv'
  OBVIOUS
<1>1. ASSUME NEW c \in Conns, Message(c) PROVE IInv'
  BY <1>1, AuthKeepsIInv, JoinVoiceKeepsIInv, DeleteChannelKeepsIInv, AnswerKeepsIInv,
     VoiceStateKeepsIInv, LeaveVoiceKeepsIInv, DisconnectKeepsIInv, KickServerKeepsIInv,
     KickVoiceKeepsIInv
  DEF Message
<1>2. ASSUME NEW c \in Conns, Continue(c) PROVE IInv'
  <2>1. CASE KickClose(c) \/ CloseOne(c)
    BY <2>1, CloseVictimKeepsIInv DEF KickClose, CloseOne
  <2>2. CASE ~(KickClose(c) \/ CloseOne(c))
    BY <1>2, <2>2, EnterVoiceKeepsIInv, LeaveRosterKeepsIInv, CloseMediaKeepsIInv,
       KickUserKeepsIInv, KickDoneKeepsIInv, CloseAllKeepsIInv, TestMediaKeepsIInv,
       CloseDoneKeepsIInv
    DEF Continue
  <2> QED
    BY <2>1, <2>2
<1>3. ASSUME NEW o \in Objs, Callback(o) \/ Outside(o) PROVE IInv'
  BY <1>3, StateChangeKeepsIInv, TellLeaveKeepsIInv, HangUpKeepsIInv, PeerDownKeepsIInv,
     ResumeTellingKeepsIInv, RelayStallsKeepsIInv, RelayResumesKeepsIInv
  DEF Callback, Outside
<1>4. CASE UNCHANGED vars
  BY <1>4
  DEF vars, IInv, TypeOK, Generations, Joined, Holds, Entering, NoMediaIsClosed,
      LeaveIsPending, Calling, Stays, RosterWellFormed, NoDeadEntry, DepartureIsFinal, Listed,
      BeingClosed
<1> QED
  BY <1>1, <1>2, <1>3, <1>4, ResumeKeepsIInv DEF Next

\* The inductive invariant holds in every reachable state of every instance.
THEOREM VoiceInvariant == Spec => []IInv
  BY VoiceInit, VoiceStep, PTL DEF Spec

\* Every variable keeps its type; a channel never needs a third VoiceChannel value.
THEOREM TypeCorrect == Spec => []TypeOK
  BY VoiceInvariant, PTL DEF IInv

\* However channels are deleted and asked for again: a roster lists only voice users
\* that joined that very VoiceChannel value, each under its own id.
THEOREM RostersAreWellFormed == Spec => []RosterWellFormed
  BY VoiceInvariant, PTL DEF IInv

\* Nobody stays listed behind a dead peer connection unless its handler is due.
THEOREM NobodyIsListedDead == Spec => []NoDeadEntry
  BY VoiceInvariant, PTL DEF IInv

\* Leaves, kicks, deletions and state changes together announce a departure at most
\* once, and not before it.
THEOREM DeparturesAreFinal == Spec => []DepartureIsFinal
  BY VoiceInvariant, PTL DEF IInv

\* No stale leave and no state change of another session takes a session with an open
\* peer connection off its roster.
THEOREM SessionsStayListed == Spec => []StaysListed
<1>1. IInv => StaysListed
  <2> SUFFICES ASSUME IInv, NEW c \in Conns, HasMedia(c), ~At(c, "close"), Open(Voice(c))
               PROVE  Listed(Voice(c)) \/ BeingClosed(Voice(c)) \/ Voice(c) \in replaced
    BY DEF StaysListed
  <2>1. Voice(c) \in Objs /\ Voice(c)[1] = c /\ Voice(c)[2] = cur[c]
    BY VoiceIsObj DEF IInv
  <2> QED
    BY <2>1 DEF IInv, Stays
<1> QED
  BY <1>1, VoiceInvariant, PTL
-----------------------------------------------------------------------------
(* Voice implements Calls: who is listed, absent or leaving decides the phase.  *)

\* These three exclude each other.
LEMMA PhasesExclude ==
  ASSUME IInv, NEW o \in Objs
  PROVE  ~(Listed(o) /\ Absent(o)) /\ ~(Listed(o) /\ Leaving(o)) /\ ~(Absent(o) /\ Leaving(o))
<1>1. ~(Listed(o) /\ Absent(o))
  BY DEF IInv, Joined, Entering, Listed, Absent
<1>2. ~(Listed(o) /\ Leaving(o))
  BY DEF IInv, LeaveIsPending, Calling, Leaving
<1>3. ~(Absent(o) /\ Leaving(o))
  BY DEF IInv, TypeOK, Absent, Leaving, Joined, Entering
<1> QED
  BY <1>1, <1>2, <1>3

\* A step that neither moves a voice user nor announces one is none of a call.
LEMMA NobodyMoves ==
  ASSUME announced' = announced,
         \A p \in Objs :
           /\ Listed(p)' <=> Listed(p)
           /\ Absent(p)' <=> Absent(p)
           /\ Leaving(p)' <=> Leaving(p)
           /\ Listed(p) => home'[p] = home[p]
  PROVE  UNCHANGED Promise!vars
<1>1. \A p \in Objs : Phase(p)' = Phase(p) /\ Room(p)' = Room(p)
  BY DEF Phase, Room
<1> QED
  BY <1>1 DEF Promise!vars

\* Auth, a lookup, an answer, a kick and what follows it, a peer that goes down.
LEMMA QuietSteps ==
  ASSUME IInv, IInv', NEW c \in Conns,
         \/ Auth(c) \/ Answer(c) \/ VoiceState(c) \/ LeaveVoice(c) \/ Disconnect(c)
         \/ \E u \in UserIds : KickServer(c, u) \/ \E ch \in Channels : KickVoice(c, ch, u)
         \/ \E ch \in Channels : DeleteChannel(c, ch)
         \/ KickDone(c) \/ TestMedia(c) \/ CloseDone(c) \/ KickClose(c) \/ CloseOne(c)
         \/ Resume(c)
  PROVE  UNCHANGED Promise!vars
<1>1. UNCHANGED <<announced, roster, home, joins>>
  BY DEF Auth, Answer, VoiceState, LeaveVoice, Disconnect, KickServer, KickVoice,
     DeleteChannel, KickDone, TestMedia, CloseDone, KickClose, CloseOne, CloseVictim, Resume
<1>2. /\ pc[c] \notin {"enter", "close"} /\ pc'[c] \notin {"enter", "close"}
      /\ \A d \in Conns : d # c =>
           pc'[d] = pc[d] /\ at'[d] = at[d] /\ cur'[d] = cur[d] /\ joins'[d] = joins[d]
  BY DEF IInv, TypeOK, Auth, Answer, VoiceState, LeaveVoice, Disconnect, KickServer, KickVoice,
     DeleteChannel, KickDone, TestMedia, CloseDone, KickClose, CloseOne, CloseVictim, Resume,
     Broadcast
<1>3. \A p \in Objs : callback'[p] = "tell" <=> callback[p] = "tell"
  <2>1. CASE UNCHANGED callback
    BY <2>1
  <2>2. CASE KickClose(c) \/ CloseOne(c)
    <3>1. victim[c] \in Objs
      BY <2>2 DEF IInv, TypeOK, Holds, KickClose, CloseOne
    <3> QED
      BY <2>1, <2>2, <3>1, ClosingStarts DEF KickClose, CloseOne, CloseVictim
  <2> QED
    BY <2>1, <2>2 DEF Auth, Answer, VoiceState, LeaveVoice, Disconnect, KickServer, KickVoice,
       DeleteChannel, KickDone, TestMedia, CloseDone, Resume
<1>4. \A p \in Objs : (Absent(p)' <=> Absent(p)) /\ (Leaving(p)' <=> Leaving(p))
  BY <1>1, <1>2, <1>3 DEF Absent, Leaving
<1>5. \A p \in Objs : Listed(p)' <=> Listed(p)
  BY <1>1 DEF Listed
<1> QED
  BY <1>1, <1>4, <1>5, NobodyMoves

\* The new voice user of a join stays outside until it enters.
LEMMA JoiningIsQuiet ==
  ASSUME IInv, IInv', NEW c \in Conns, NEW ch \in Channels, JoinVoice(c, ch)
  PROVE  UNCHANGED Promise!vars
<1>1. joins[c] < MaxJoins[c] /\ TypeOK
  BY DEF JoinVoice, IInv
<1>2. PICK o \in Objs : o = <<c, joins[c] + 1>> /\ o[1] = c /\ o[2] = joins[c] + 1
  BY <1>1, NextJoinIsObj
<1>3. /\ pc[c] = "ready" /\ pc' = [pc EXCEPT ![c] = "enter"]
      /\ joins' = [joins EXCEPT ![c] = @ + 1]
      /\ home' = [home EXCEPT ![o] = Got(ch)]
      /\ UNCHANGED <<roster, cur, at, callback, announced>>
  BY <1>2 DEF JoinVoice
<1>4. /\ joins'[c] = joins[c] + 1 /\ pc'[c] = "enter"
      /\ \A d \in Conns : d # c => pc'[d] = pc[d] /\ joins'[d] = joins[d]
      /\ \A p \in Objs : p # o => home'[p] = home[p]
      /\ joins[c] \in Nat
  BY <1>3 DEF IInv, TypeOK
<1>5. \A p \in Objs : Absent(p)' <=> Absent(p)
  <2> SUFFICES ASSUME NEW p \in Objs PROVE Absent(p)' <=> Absent(p)
    OBVIOUS
  <2>1. CASE p[1] # c
    BY <1>4, <2>1 DEF Absent
  <2>2. CASE p[1] = c
    <3>1. p[2] \in Nat /\ joins[c] \in Nat
      BY <1>4
    <3>2. Absent(p) <=> p[2] > joins[c]
      BY <1>3, <2>2 DEF Absent
    <3>3. Absent(p)' <=> p[2] > joins[c] + 1 \/ joins[c] + 1 = p[2]
      BY <1>4, <2>2 DEF Absent
    <3> QED
      BY <3>1, <3>2, <3>3
  <2> QED
    BY <2>1, <2>2
<1>6. \A p \in Objs : Leaving(p)' <=> Leaving(p)
  BY <1>3, <1>4 DEF Leaving
<1>7. ~Listed(o) /\ ~Listed(o)'
  <2>1. Absent(o)
    BY <1>2, <1>4 DEF Absent
  <2>2. Absent(o)'
    BY <1>5, <2>1
  <2>3. ~Listed(o)
    BY <2>1, PhasesExclude
  <2>4. ~Listed(o)'
    BY <1>2, <1>4 DEF IInv, Entering
  <2> QED
    BY <2>3, <2>4
<1>8. \A p \in Objs : (Listed(p)' <=> Listed(p)) /\ (Listed(p) => home'[p] = home[p])
  <2>1. \A p \in Objs : p # o => (Listed(p)' <=> Listed(p))
    BY <1>3, <1>4 DEF Listed
  <2> QED
    BY <1>4, <1>7, <2>1
<1> QED
  BY <1>3, <1>5, <1>6, <1>8, NobodyMoves

\* A join that enters replaces whoever of its account is listed; one that fails is over.
LEMMA EnteringEnters ==
  ASSUME IInv, IInv', NEW c \in Conns, EnterVoice(c)
  PROVE  Promise!Next
<1>1. joins[c] \in Nat \ {0} /\ joins[c] <= MaxJoins[c]
  BY DEF IInv, TypeOK, Holds, EnterVoice
<1>2. PICK o \in Objs : o = <<c, joins[c]>> /\ o[1] = c /\ o[2] = joins[c]
  BY <1>1, PairsAreObjs
<1>3. home[o] \in VCs /\ Account[c] \in UserIds
  BY <1>1, <1>2 DEF IInv, Joined, TypeOK
<1>4. /\ pc[c] = "enter" /\ pc' = [pc EXCEPT ![c] = "ready"]
      /\ UNCHANGED <<joins, at, home, callback, announced>>
  BY DEF EnterVoice
<1>5. cur'[c] = cur[c] \/ cur'[c] = joins[c]
  BY DEF EnterVoice, IInv, TypeOK
<1>6. /\ pc'[c] = "ready"
      /\ \A d \in Conns : d # c => pc'[d] = pc[d] /\ cur'[d] = cur[d]
  BY <1>4 DEF EnterVoice, IInv, TypeOK
<1>7. \A p \in Objs : (Absent(p)' <=> Absent(p) /\ p # o) /\ (Leaving(p)' <=> Leaving(p))
  <2> SUFFICES ASSUME NEW p \in Objs
               PROVE  (Absent(p)' <=> Absent(p) /\ p # o) /\ (Leaving(p)' <=> Leaving(p))
    OBVIOUS
  <2>1. CASE p[1] # c
    BY <1>2, <1>4, <1>6, <2>1 DEF Absent, Leaving
  <2>2. CASE p[1] = c
    <3>1. p[2] = joins[c] <=> p = o
      BY <1>2, <2>2
    <3>2. p[2] \in Nat
      OBVIOUS
    <3>3. Absent(p) <=> p[2] > joins[c] \/ joins[c] = p[2]
      BY <1>4, <2>2 DEF Absent
    <3>4. Absent(p)' <=> p[2] > joins[c]
      BY <1>4, <1>6, <2>2 DEF Absent
    <3>5. Leaving(p)' <=> Leaving(p)
      BY <1>4, <1>6, <2>2 DEF Leaving
    <3> QED
      BY <1>1, <3>1, <3>2, <3>3, <3>4, <3>5
  <2> QED
    BY <2>1, <2>2
<1>8. Absent(o) /\ ~Listed(o) /\ ~Leaving(o)
  <2>1. Absent(o)
    BY <1>2, <1>4 DEF Absent
  <2> QED
    BY <2>1, PhasesExclude
<1>9. CASE UNCHANGED <<roster, cur, replaced>>
  <2>1. \A p \in Objs : Listed(p)' <=> Listed(p)
    BY <1>4, <1>9 DEF Listed
  <2>2. \A p \in Objs : /\ Phase(p)' = IF p = o THEN "gone" ELSE Phase(p)
                        /\ Room(p)' = IF p = o THEN None ELSE Room(p)
    BY <1>4, <1>7, <1>8, <2>1 DEF Phase, Room
  <2>3. Phase(o) = "out"
    BY <1>8 DEF Phase
  <2>4. Promise!Abandon(o)
    BY <1>4, <2>2, <2>3 DEF Promise!Abandon, Promise!Dismiss
  <2> QED
    BY <2>4 DEF Promise!Next
<1>10. CASE roster' = [roster EXCEPT ![home[o]][Id(o)] = o]
  <2>1. /\ roster' \in [VCs -> [UserIds -> Objs \cup {None}]]
        /\ \A v \in VCs, w \in UserIds :
             roster'[v][w] = IF v = home[o] /\ w = Id(o) THEN o ELSE roster[v][w]
    BY <1>2, <1>3, <1>10 DEF IInv, TypeOK
  <2>2. \A p \in Objs : Id(p) \in UserIds /\ (home[p] # None => home[p] \in VCs)
    BY DEF IInv, TypeOK
  <2> DEFINE Old == {q \in Promise!Members(home[o]) : Id(q) = Id(o)}
  <2>3. \A p \in Objs : p \in Old <=> Listed(p) /\ home[p] = home[o] /\ Id(p) = Id(o)
    BY <1>3 DEF Promise!Members, Room
  <2>4. \A p \in Objs : Listed(p)' <=> p = o \/ (Listed(p) /\ p \notin Old)
    <3>1. Listed(o)'
      BY <1>2, <1>3, <1>4, <2>1, <2>2 DEF Listed
    <3>2. \A p \in Objs : p # o => (Listed(p)' <=> Listed(p) /\ p \notin Old)
      BY <1>3, <1>4, <2>1, <2>2, <2>3 DEF Listed
    <3> QED
      BY <3>1, <3>2
  <2>5. \A p \in Old : p \in Objs /\ Listed(p) /\ ~Absent(p) /\ ~Leaving(p)
    BY <2>3, PhasesExclude DEF Promise!Members
  <2> HIDE DEF Old
  <2>6. \A p \in Objs :
          /\ Phase(p)' = IF p = o THEN "in" ELSE IF p \in Old THEN "gone" ELSE Phase(p)
          /\ Room(p)' = IF p = o THEN home[o] ELSE IF p \in Old THEN None ELSE Room(p)
    BY <1>4, <1>7, <1>8, <2>4, <2>5 DEF Phase, Room
  <2>7. Phase(o) = "out"
    BY <1>8 DEF Phase
  <2>8. Old = {q \in Promise!Members(home[o]) :
                 [p \in Objs |-> Id(p)][q] = [p \in Objs |-> Id(p)][o]}
    BY <2>2 DEF Old, Promise!Members
  <2>9. Promise!Enter(o, home[o])
    BY <1>4, <2>6, <2>7, <2>8 DEF Promise!Enter
  <2> QED
    BY <1>3, <2>9 DEF Promise!Next
<1> QED
  BY <1>2, <1>9, <1>10 DEF EnterVoice

\* RemoveUserIf of leaveVoice is the leave, if it finds the session's voice user.
LEMMA LeavingLeaves ==
  ASSUME IInv, IInv', NEW c \in Conns, LeaveRoster(c)
  PROVE  Promise!Next \/ UNCHANGED Promise!vars
<1>1. PICK o \in Objs : o = Voice(c) /\ o[1] = c /\ o[2] = cur[c] /\ home[o] \in VCs
  BY VoiceIsObj DEF IInv, Holds, LeaveRoster
<1>2. /\ o \in Objs /\ o[1] = c /\ o[2] = cur[c] /\ home[o] \in VCs /\ at[c] \in VCs
      /\ Id(o) \in UserIds
  BY <1>1 DEF IInv, TypeOK, Holds, LeaveRoster
<1>3. /\ pc[c] = "remove" /\ pc' = [pc EXCEPT ![c] = "close"]
      /\ at' = [at EXCEPT ![c] = IF Removes(at[c], o) THEN at[c] ELSE None]
      /\ UNCHANGED <<joins, cur, home, callback, announced>>
  BY <1>1 DEF LeaveRoster
<1>4. /\ pc'[c] = "close" /\ at'[c] = IF Removes(at[c], o) THEN at[c] ELSE None
      /\ \A d \in Conns : d # c => pc'[d] = pc[d] /\ at'[d] = at[d]
  BY <1>3 DEF IInv, TypeOK
<1>5. \A v \in VCs, w \in UserIds :
        roster'[v][w] = IF v = at[c] /\ w = Id(o) /\ Removes(at[c], o) THEN None
                                                                    ELSE roster[v][w]
  <2>1. RemoveUserIf(at[c], o)
    BY <1>1 DEF LeaveRoster
  <2> QED
    BY <1>2, <2>1, RemovalIsLocal DEF IInv
<1>6. \A p \in Objs : Absent(p)' <=> Absent(p)
  BY <1>3, <1>4 DEF Absent
<1>7. \A p \in Objs : p[1] = c /\ p[2] = cur[c] <=> p = o
  BY <1>2
<1>8. \A p \in Objs : Leaving(p)' <=> Leaving(p) \/ (p = o /\ Removes(at[c], o))
  BY <1>2, <1>3, <1>4, <1>7 DEF Leaving
<1>9. Removes(at[c], o) => home[o] = at[c] /\ Listed(o)
  <2>1. o # None /\ home[o] # None
    BY <1>2
  <2>2. Removes(at[c], o) => home[o] = at[c]
    BY <1>2, <2>1 DEF IInv, Removes, RosterWellFormed
  <2> QED
    BY <2>1, <2>2 DEF Removes, Listed
<1>10. \A p \in Objs : Listed(p)' <=> Listed(p) /\ ~(p = o /\ Removes(at[c], o))
  <2>1. \A p \in Objs : Id(p) \in UserIds /\ (home[p] # None => home[p] \in VCs)
    BY DEF IInv, TypeOK
  <2>2. \A p \in Objs : p # o => (Listed(p)' <=> Listed(p))
    BY <1>3, <1>5, <2>1 DEF Listed, Removes
  <2>3. Listed(o)' <=> Listed(o) /\ ~Removes(at[c], o)
    BY <1>2, <1>3, <1>5, <1>9 DEF Listed
  <2> QED
    BY <2>2, <2>3
<1>11. CASE ~Removes(at[c], o)
  <2>1. UNCHANGED Promise!vars
    BY <1>3, <1>6, <1>8, <1>10, <1>11, NobodyMoves
  <2> QED
    BY <2>1
<1>12. CASE Removes(at[c], o)
  <2>1. Listed(o) /\ ~Absent(o) /\ ~Leaving(o)
    BY <1>2, <1>9, <1>12, PhasesExclude
  <2>2. \A p \in Objs : /\ Phase(p)' = IF p = o THEN "left" ELSE Phase(p)
                        /\ Room(p)' = IF p = o THEN None ELSE Room(p)
    BY <1>3, <1>6, <1>8, <1>10, <1>12, <2>1 DEF Phase, Room
  <2>3. Phase(o) = "in"
    BY <2>1 DEF Phase
  <2>4. Promise!Leave(o)
    BY <1>2, <1>3, <2>2, <2>3 DEF Promise!Leave
  <2> QED
    BY <1>2, <2>4 DEF Promise!Next
<1> QED
  BY <1>11, <1>12

\* The end of leaveVoice announces the departure of whoever its first half removed.
LEMMA ClosingTells ==
  ASSUME IInv, IInv', NEW c \in Conns, CloseMedia(c)
  PROVE  Promise!Next \/ UNCHANGED Promise!vars
<1>1. PICK o \in Objs : o = Voice(c) /\ o[1] = c /\ o[2] = cur[c] /\ cur[c] # 0
  BY VoiceIsObj DEF IInv, Holds, CloseMedia
<1>2. /\ pc[c] = "close" /\ pc'[c] # "enter" /\ pc'[c] # "close"
      /\ announced' = [announced EXCEPT ![o] = IF at[c] # None THEN @ + 1 ELSE @]
      /\ UNCHANGED <<roster, home, joins>>
      /\ \A d \in Conns : d # c => pc'[d] = pc[d] /\ at'[d] = at[d] /\ cur'[d] = cur[d]
  BY <1>1 DEF CloseMedia, Broadcast, IInv, TypeOK
<1>3. \A p \in Objs : callback'[p] = "tell" <=> callback[p] = "tell"
  <2>1. CloseRtc(o)
    BY <1>1 DEF CloseMedia
  <2> QED
    BY <2>1, ClosingStarts
<1>4. \A p \in Objs : (Listed(p)' <=> Listed(p)) /\ (Absent(p)' <=> Absent(p))
  BY <1>2 DEF Listed, Absent
<1>5. \A p \in Objs : p[1] = c /\ p[2] = cur[c] <=> p = o
  BY <1>1
<1>6. /\ at[c] # None => Leaving(o) /\ ~Leaving(o)'
      /\ \A p \in Objs : p # o \/ at[c] = None => (Leaving(p)' <=> Leaving(p))
  <2>1. at[c] # None => callback[o] # "tell"
    BY <1>1, <1>2 DEF IInv, LeaveIsPending
  <2> QED
    BY <1>1, <1>2, <1>5, <1>3, <2>1 DEF Leaving
<1>7. CASE at[c] = None
  <2>1. announced' = announced
    BY <1>2, <1>7 DEF IInv, TypeOK
  <2>2. \A p \in Objs : Leaving(p)' <=> Leaving(p)
    BY <1>6, <1>7
  <2>3. UNCHANGED Promise!vars
    BY <1>2, <1>4, <2>1, <2>2, NobodyMoves
  <2> QED
    BY <2>3
<1>8. CASE at[c] # None
  <2>1. Leaving(o) /\ ~Leaving(o)' /\ ~Listed(o) /\ ~Absent(o)
    BY <1>6, <1>8, PhasesExclude
  <2>2. \A p \in Objs : p # o => (Leaving(p)' <=> Leaving(p))
    BY <1>6
  <2>3. \A p \in Objs : /\ Phase(p)' = IF p = o THEN "gone" ELSE Phase(p)
                        /\ Room(p)' = Room(p)
    BY <1>2, <1>4, <2>1, <2>2 DEF Phase, Room
  <2>4. Phase(o) = "left"
    BY <2>1 DEF Phase
  <2>5. announced' = [announced EXCEPT ![o] = @ + 1]
    BY <1>2, <1>8
  <2>6. Promise!Tell(o)
    BY <2>3, <2>4, <2>5 DEF Promise!Tell
  <2> QED
    BY <2>6 DEF Promise!Next
<1> QED
  BY <1>7, <1>8

\* A kick removes whoever it finds.
LEMMA KickingRemoves ==
  ASSUME IInv, IInv', NEW c \in Conns, KickUser(c)
  PROVE  Promise!Next \/ UNCHANGED Promise!vars
<1>1. PICK vc \in sweep[c] :
        \/ UNCHANGED <<roster, pc>>
        \/ /\ roster[vc][target[c]] # None
           /\ roster' = [roster EXCEPT ![vc][target[c]] = None]
           /\ Goto(c, IF At(c, "kick") THEN "kickClose" ELSE "sweepClose")
  BY DEF KickUser
<1>2. /\ vc \in VCs /\ target[c] \in UserIds
      /\ pc[c] \in {"kick", "sweep"} /\ pc'[c] \notin {"enter", "close"}
      /\ UNCHANGED <<joins, cur, at, home, callback, announced>>
      /\ \A d \in Conns : d # c => pc'[d] = pc[d]
  BY <1>1 DEF KickUser, IInv, TypeOK, Holds
<1>3. \A p \in Objs : (Absent(p)' <=> Absent(p)) /\ (Leaving(p)' <=> Leaving(p))
  BY <1>2 DEF Absent, Leaving
<1>4. CASE UNCHANGED roster
  <2>1. \A p \in Objs : Listed(p)' <=> Listed(p)
    BY <1>2, <1>4 DEF Listed
  <2>2. UNCHANGED Promise!vars
    BY <1>2, <1>3, <2>1, NobodyMoves
  <2> QED
    BY <2>2
<1>5. CASE /\ roster[vc][target[c]] # None
           /\ roster' = [roster EXCEPT ![vc][target[c]] = None]
  <2>1. PICK o \in Objs : o = roster[vc][target[c]]
    BY <1>2, <1>5 DEF IInv, TypeOK
  <2>2. home[o] = vc /\ Id(o) = target[c] /\ home[o] # None
    BY <1>2, <1>5, <2>1 DEF IInv, RosterWellFormed
  <2>3. \A v \in VCs, w \in UserIds :
          roster'[v][w] = IF v = vc /\ w = target[c] THEN None ELSE roster[v][w]
    BY <1>2, <1>5 DEF IInv, TypeOK
  <2>4. Listed(o)
    BY <2>1, <2>2 DEF Listed
  <2>5. \A p \in Objs : Listed(p)' <=> Listed(p) /\ p # o
    <3>1. \A p \in Objs : Id(p) \in UserIds /\ (home[p] # None => home[p] \in VCs)
      BY DEF IInv, TypeOK
    <3> QED
      BY <1>2, <2>1, <2>2, <2>3, <3>1 DEF Listed
  <2>6. ~Absent(o) /\ ~Leaving(o)
    BY <2>4, PhasesExclude
  <2>7. \A p \in Objs : /\ Phase(p)' = IF p = o THEN "gone" ELSE Phase(p)
                        /\ Room(p)' = IF p = o THEN None ELSE Room(p)
    BY <1>2, <1>3, <2>4, <2>5, <2>6 DEF Phase, Room
  <2>8. Phase(o) = "in"
    BY <2>4 DEF Phase
  <2>9. Promise!Remove(o)
    BY <1>2, <2>7, <2>8 DEF Promise!Remove, Promise!Dismiss
  <2> QED
    BY <2>9 DEF Promise!Next
<1> QED
  BY <1>1, <1>4, <1>5

\* CloseAll clears the channel.
LEMMA ClosingAllClears ==
  ASSUME IInv, IInv', NEW c \in Conns, CloseAll(c)
  PROVE  Promise!Next
<1>1. PICK vc \in VCs : vc = at[c]
  BY DEF IInv, TypeOK, Holds, CloseAll
<1>2. /\ pc[c] = "closeAll" /\ pc'[c] = "closing"
      /\ UNCHANGED <<joins, cur, home, callback, announced>>
      /\ \A d \in Conns : d # c => pc'[d] = pc[d] /\ at'[d] = at[d]
      /\ \A v \in VCs, w \in UserIds : roster'[v][w] = IF v = vc THEN None ELSE roster[v][w]
  BY <1>1 DEF IInv, TypeOK, CloseAll
<1>3. \A p \in Objs : (Absent(p)' <=> Absent(p)) /\ (Leaving(p)' <=> Leaving(p))
  BY <1>2 DEF Absent, Leaving
<1>4. \A p \in Objs : p \in Promise!Members(vc) <=> Listed(p) /\ home[p] = vc
  BY DEF Promise!Members, Room
<1>5. \A p \in Objs : Listed(p)' <=> Listed(p) /\ p \notin Promise!Members(vc)
  <2>1. \A p \in Objs : Id(p) \in UserIds /\ (home[p] # None => home[p] \in VCs)
    BY DEF IInv, TypeOK
  <2> QED
    BY <1>2, <1>4, <2>1 DEF Listed
<1>6. \A p \in Objs :
        /\ Phase(p)' = IF p \in Promise!Members(vc) THEN "gone" ELSE Phase(p)
        /\ Room(p)' = IF p \in Promise!Members(vc) THEN None ELSE Room(p)
  BY <1>2, <1>3, <1>4, <1>5, PhasesExclude DEF Phase, Room
<1>7. Promise!Clear(vc)
  BY <1>2, <1>6 DEF Promise!Clear, Promise!Dismiss
<1> QED
  BY <1>7 DEF Promise!Next

\* The handler of a state change makes a voice user leave that is still listed.
LEMMA FailingLeaves ==
  ASSUME IInv, IInv', NEW o \in Objs, StateChange(o)
  PROVE  Promise!Next \/ UNCHANGED Promise!vars
<1>1. home[o] \in VCs /\ Id(o) \in UserIds /\ home[o] # None
  BY DEF IInv, TypeOK, Joined, StateChange
<1>2. /\ callback[o] = "due"
      /\ callback' = [callback EXCEPT ![o] = IF Listed(o) THEN "tell" ELSE "hangup"]
      /\ UNCHANGED <<joins, cur, at, pc, home, announced>>
  BY <1>1 DEF StateChange, Removes, Listed
<1>3. \A v \in VCs, w \in UserIds :
        roster'[v][w] = IF v = home[o] /\ w = Id(o) /\ Listed(o) THEN None ELSE roster[v][w]
  <2>1. RemoveUserIf(home[o], o)
    BY DEF StateChange
  <2> QED
    BY <1>1, <2>1, RemovalIsLocal DEF IInv, Removes, Listed
<1>4. \A p \in Objs : /\ Absent(p)' <=> Absent(p)
                      /\ Leaving(p)' <=> Leaving(p) \/ (p = o /\ Listed(o))
  BY <1>2 DEF IInv, TypeOK, Absent, Leaving
<1>5. \A p \in Objs : Listed(p)' <=> Listed(p) /\ p # o
  <2>1. \A p \in Objs : Id(p) \in UserIds /\ (home[p] # None => home[p] \in VCs)
    BY DEF IInv, TypeOK
  <2> QED
    BY <1>1, <1>2, <1>3, <2>1 DEF Listed
<1>6. CASE ~Listed(o)
  BY <1>2, <1>4, <1>5, <1>6, NobodyMoves
<1>7. CASE Listed(o)
  <2>1. ~Absent(o) /\ ~Leaving(o)
    BY <1>7, PhasesExclude
  <2>2. \A p \in Objs : /\ Phase(p)' = IF p = o THEN "left" ELSE Phase(p)
                        /\ Room(p)' = IF p = o THEN None ELSE Room(p)
    BY <1>2, <1>4, <1>5, <1>7, <2>1 DEF Phase, Room
  <2>3. Phase(o) = "in"
    BY <1>7 DEF Phase
  <2>4. Promise!Leave(o)
    BY <1>2, <2>2, <2>3 DEF Promise!Leave
  <2> QED
    BY <2>4 DEF Promise!Next
<1> QED
  BY <1>6, <1>7

\* It tells of that once, and leaveVoice does not.
LEMMA FailingTells ==
  ASSUME IInv, IInv', NEW o \in Objs, TellLeave(o)
  PROVE  Promise!Next
<1>1. /\ callback[o] = "tell" /\ callback'[o] # "tell"
      /\ \A p \in Objs : p # o => callback'[p] = callback[p]
      /\ announced' = [announced EXCEPT ![o] = @ + 1]
      /\ UNCHANGED <<roster, joins, cur, at, pc, home>>
  BY DEF TellLeave, IInv, TypeOK
<1>2. Leaving(o) /\ ~Listed(o) /\ ~Absent(o)
  <2>1. Leaving(o)
    BY <1>1 DEF Leaving
  <2> QED
    BY <2>1, PhasesExclude
<1>3. ~Leaving(o)'
  BY <1>1 DEF IInv, LeaveIsPending, Leaving
<1>4. \A p \in Objs : /\ Absent(p)' <=> Absent(p)
                      /\ Listed(p)' <=> Listed(p)
                      /\ p # o => (Leaving(p)' <=> Leaving(p))
  BY <1>1 DEF Absent, Listed, Leaving
<1>5. \A p \in Objs : /\ Phase(p)' = IF p = o THEN "gone" ELSE Phase(p)
                      /\ Room(p)' = Room(p)
  BY <1>1, <1>2, <1>3, <1>4 DEF Phase, Room
<1>6. Phase(o) = "left"
  BY <1>2 DEF Phase
<1>7. Promise!Tell(o)
  BY <1>1, <1>5, <1>6 DEF Promise!Tell
<1> QED
  BY <1>7 DEF Promise!Next

\* Nothing else that pion or the network does moves anybody.
LEMMA PionIsQuiet ==
  ASSUME IInv, NEW o \in Objs, HangUp(o) \/ Outside(o)
  PROVE  UNCHANGED Promise!vars
<1>1. UNCHANGED <<roster, joins, cur, at, pc, home, announced>>
  BY DEF HangUp, Outside, PeerDown, ResumeTelling, RelayStalls, RelayResumes
<1>2. \A p \in Objs : callback'[p] = "tell" <=> callback[p] = "tell"
  BY DEF HangUp, Outside, PeerDown, ResumeTelling, RelayStalls, RelayResumes, Started,
     IInv, TypeOK
<1>3. \A p \in Objs : /\ Listed(p)' <=> Listed(p)
                      /\ Absent(p)' <=> Absent(p)
                      /\ Leaving(p)' <=> Leaving(p)
  BY <1>1, <1>2 DEF Listed, Absent, Leaving
<1> QED
  BY <1>1, <1>3, NobodyMoves

\* Every step of Voice is a step of Calls, or none.
LEMMA PromiseStep ==
  ASSUME IInv, IInv', [Next]_vars
  PROVE  Promise!Next \/ UNCHANGED Promise!vars
<1>1. ASSUME NEW c \in Conns, Message(c) PROVE UNCHANGED Promise!vars
  BY <1>1, QuietSteps, JoiningIsQuiet DEF Message
<1>2. ASSUME NEW c \in Conns, Continue(c)
      PROVE  Promise!Next \/ UNCHANGED Promise!vars
  BY <1>2, QuietSteps, EnteringEnters, LeavingLeaves, ClosingTells, KickingRemoves,
     ClosingAllClears
  DEF Continue
<1>3. ASSUME NEW o \in Objs, Callback(o) \/ Outside(o)
      PROVE  Promise!Next \/ UNCHANGED Promise!vars
  BY <1>3, FailingLeaves, FailingTells, PionIsQuiet DEF Callback
<1>4. ASSUME NEW c \in Conns, Resume(c) PROVE UNCHANGED Promise!vars
  BY <1>4, QuietSteps
<1>5. CASE UNCHANGED vars
  <2>1. \A p \in Objs : /\ Listed(p)' <=> Listed(p)
                        /\ Absent(p)' <=> Absent(p)
                        /\ Leaving(p)' <=> Leaving(p)
    BY <1>5 DEF vars, Listed, Absent, Leaving
  <2>2. UNCHANGED Promise!vars
    BY <1>5, <2>1, NobodyMoves DEF vars
  <2> QED
    BY <2>2
<1> QED
  BY <1>1, <1>2, <1>3, <1>5, <1>4 DEF Next

\* Voice implements Calls: entering, the two halves of a leave and of a state change
\* handler, a kick and a deletion are its steps, everything else stutters.
THEOREM VoiceKeepsThePromise == Spec => CallsSpec
<1>1. Init => Promise!Init
  BY DEF Init, Promise!Init, Phase, Room, Listed, Absent, Leaving
<1>2. IInv /\ IInv' /\ [Next]_vars => [Promise!Next]_(Promise!vars)
  BY PromiseStep
<1> QED
  BY <1>1, <1>2, VoiceInvariant, PTL DEF Spec, CallsSpec, Promise!Spec

-----------------------------------------------------------------------------
(* Who is listed has Media: what leaveVoice finds depends on the registry.       *)

\* The second value of a channel is only made after it was deleted.
FirstValue ==
  \A o \in Objs : home[o] # None /\ home[o][1] \notin deleted =>
    home[o] = <<home[o][1], 1>> /\ home[o][1] \in registered

\* Until then leaveVoice looks up the very value that its voice user is listed in.
LeaveFindsIt ==
  \A o \in Objs : cur[o[1]] = o[2] /\ home[o][1] \notin deleted =>
    /\ At(o[1], "remove") => at[o[1]] = home[o]
    /\ At(o[1], "close") => ~Listed(o)

MediaInv == FirstValue /\ LeaveFindsIt /\ ListedHaveMedia

\* Channels are deleted for good, and an entry is dropped from the registry with that.
LEMMA FirstValueStep == IInv /\ FirstValue /\ [Next]_vars => FirstValue'
<1> SUFFICES ASSUME IInv, FirstValue, [Next]_vars PROVE FirstValue'
  OBVIOUS
<1> USE DEF FirstValue
<1>1. ASSUME home' = home, deleted \subseteq deleted',
             \A ch \in registered : ch \in deleted' \/ ch \in registered'
      PROVE  FirstValue'
  BY <1>1
<1>2. ASSUME NEW c \in Conns, NEW ch \in Channels, JoinVoice(c, ch) PROVE FirstValue'
  <2>1. joins[c] < MaxJoins[c] /\ TypeOK
    BY <1>2 DEF JoinVoice, IInv
  <2>2. PICK o \in Objs : o = <<c, joins[c] + 1>> /\ o[1] = c /\ o[2] = joins[c] + 1
    BY <2>1, NextJoinIsObj
  <2>3. /\ home' = [home EXCEPT ![o] = Got(ch)]
        /\ registered' = registered \cup {ch} /\ UNCHANGED deleted
    BY <1>2, <2>2 DEF JoinVoice, GetOrCreate
  <2>4. ch \notin deleted => Got(ch) = <<ch, 1>>
    BY DEF Got, IInv, Generations
  <2>5. Got(ch)[1] = ch
    BY DEF Got
  <2>6. \A p \in Objs : home'[p] = IF p = o THEN Got(ch) ELSE home[p]
    BY <2>3 DEF IInv, TypeOK
  <2> QED
    BY <2>3, <2>4, <2>5, <2>6
<1>3. ASSUME NEW c \in Conns, Message(c), \A ch \in Channels : ~JoinVoice(c, ch)
      PROVE  FirstValue'
  <2>1. home' = home /\ deleted \subseteq deleted'
    BY <1>3 DEF Message, Auth, DeleteChannel, Answer, VoiceState, LeaveVoice, Disconnect,
       KickServer, KickVoice, GetOrCreate
  <2>2. \A ch \in registered : ch \in deleted' \/ ch \in registered'
    BY <1>3 DEF Message, Auth, DeleteChannel, Answer, VoiceState, LeaveVoice, Disconnect,
       KickServer, KickVoice, GetOrCreate
  <2> QED
    BY <1>1, <2>1, <2>2
<1>4. ASSUME UNCHANGED <<registry, home>> PROVE FirstValue'
  BY <1>1, <1>4
<1>5. ASSUME NEW c \in Conns, Continue(c) PROVE UNCHANGED <<registry, home>>
  BY <1>5 DEF Continue, EnterVoice, LeaveRoster, CloseMedia, KickUser, KickClose, KickDone,
     CloseAll, TestMedia, CloseOne, CloseDone, CloseVictim
<1>6. ASSUME NEW o \in Objs, Callback(o) \/ Outside(o) PROVE UNCHANGED <<registry, home>>
  BY <1>6 DEF Callback, Outside, PeerDown, StateChange, TellLeave, HangUp, ResumeTelling,
     RelayStalls, RelayResumes
<1>7. ASSUME NEW c \in Conns, Resume(c) PROVE UNCHANGED <<registry, home>>
  BY <1>7 DEF Resume
<1> QED
  BY <1>2, <1>3, <1>4, <1>5, <1>6, <1>7 DEF Next, vars

\* No step takes the mark of a deleted channel away.
LEMMA DeletedForGood ==
  ASSUME [Next]_vars
  PROVE  deleted \subseteq deleted'
<1>1. ASSUME NEW c \in Conns, Message(c) PROVE deleted \subseteq deleted'
  BY <1>1 DEF Message, Auth, JoinVoice, DeleteChannel, Answer, VoiceState, LeaveVoice,
     Disconnect, KickServer, KickVoice, GetOrCreate
<1>2. ASSUME NEW c \in Conns, Continue(c) PROVE deleted' = deleted
  BY <1>2 DEF Continue, EnterVoice, LeaveRoster, CloseMedia, KickUser, KickClose, KickDone,
     CloseAll, TestMedia, CloseOne, CloseDone, CloseVictim
<1>3. ASSUME NEW o \in Objs, Callback(o) \/ Outside(o) PROVE deleted' = deleted
  BY <1>3 DEF Callback, Outside, PeerDown, StateChange, TellLeave, HangUp, ResumeTelling,
     RelayStalls, RelayResumes
<1>4. ASSUME NEW c \in Conns, Resume(c) PROVE deleted' = deleted
  BY <1>4 DEF Resume
<1> QED
  BY <1>1, <1>2, <1>3, <1>4 DEF Next, vars

\* A step that lists nobody new, takes nobody's Media, and starts or ends no leave.
LEMMA MediaStays ==
  ASSUME LeaveFindsIt, ListedHaveMedia, NEW c \in Conns,
         deleted \subseteq deleted',
         pc'[c] \notin {"remove", "close"},
         \A d \in Conns : d # c => pc'[d] = pc[d] /\ at'[d] = at[d] /\ cur'[d] = cur[d],
         \A p \in Objs : Listed(p)' => Listed(p) /\ media'[p] = media[p],
         \A p \in Objs : home'[p] = home[p]
  PROVE  LeaveFindsIt' /\ ListedHaveMedia'
<1>1. ListedHaveMedia'
  BY DEF ListedHaveMedia
<1>2. LeaveFindsIt'
  BY DEF LeaveFindsIt
<1> QED
  BY <1>1, <1>2

\* Every critical section keeps what ForwardTrack relies on.
LEMMA MediaStep == IInv /\ IInv' /\ MediaInv /\ [Next]_vars => MediaInv'
<1> SUFFICES ASSUME IInv, IInv', FirstValue, LeaveFindsIt, ListedHaveMedia, [Next]_vars
             PROVE  LeaveFindsIt' /\ ListedHaveMedia'
  BY FirstValueStep DEF MediaInv
<1>1. \A p \in Objs : Id(p) \in UserIds /\ (home[p] # None => home[p] \in VCs)
  BY DEF IInv, TypeOK
<1>2. ASSUME home' = home,
             \A v \in VCs, w \in UserIds : roster'[v][w] \in {roster[v][w], None}
      PROVE  \A p \in Objs : Listed(p)' => Listed(p)
  BY <1>1, <1>2 DEF Listed
<1>3. ASSUME NEW c \in Conns,
             \/ Auth(c) \/ Answer(c) \/ VoiceState(c) \/ Disconnect(c)
             \/ \E u \in UserIds : KickServer(c, u) \/ \E ch \in Channels : KickVoice(c, ch, u)
             \/ \E ch \in Channels : DeleteChannel(c, ch)
             \/ KickDone(c) \/ TestMedia(c) \/ CloseDone(c) \/ KickClose(c) \/ CloseOne(c)
             \/ Resume(c)
      PROVE  LeaveFindsIt' /\ ListedHaveMedia'
  <2>1. UNCHANGED <<roster, home, media>> /\ deleted \subseteq deleted'
    BY <1>3 DEF Auth, Answer, VoiceState, Disconnect, KickServer, KickVoice,
       DeleteChannel, KickDone, TestMedia, CloseDone, KickClose, CloseOne, CloseVictim,
       Resume, GetOrCreate
  <2>2. /\ pc'[c] \notin {"remove", "close"}
        /\ \A d \in Conns : d # c => pc'[d] = pc[d] /\ at'[d] = at[d] /\ cur'[d] = cur[d]
    BY <1>3 DEF IInv, TypeOK, Auth, Answer, VoiceState, Disconnect, KickServer,
       KickVoice, DeleteChannel, KickDone, TestMedia, CloseDone, KickClose, CloseOne,
       CloseVictim, Resume, Broadcast
  <2>3. \A p \in Objs : Listed(p)' => Listed(p)
    BY <2>1 DEF Listed
  <2> QED
    BY <2>1, <2>2, <2>3, MediaStays
<1>4. ASSUME NEW c \in Conns, NEW ch \in Channels, JoinVoice(c, ch)
      PROVE  LeaveFindsIt' /\ ListedHaveMedia'
  <2>1. joins[c] < MaxJoins[c] /\ TypeOK
    BY <1>4 DEF JoinVoice, IInv
  <2>2. PICK o \in Objs : o = <<c, joins[c] + 1>> /\ o[1] = c /\ o[2] = joins[c] + 1
    BY <2>1, NextJoinIsObj
  <2>3. /\ home' = [home EXCEPT ![o] = Got(ch)] /\ media' = [media EXCEPT ![o] = TRUE]
        /\ joins' = [joins EXCEPT ![c] = @ + 1] /\ pc' = [pc EXCEPT ![c] = "enter"]
        /\ UNCHANGED <<roster, at, cur, deleted>>
    BY <1>4, <2>2 DEF JoinVoice, GetOrCreate
  <2>4. /\ pc'[c] = "enter" /\ joins'[c] = o[2]
        /\ \A d \in Conns : d # c => pc'[d] = pc[d]
        /\ \A p \in Objs : p # o => home'[p] = home[p] /\ media'[p] = media[p]
    BY <2>2, <2>3 DEF IInv, TypeOK
  <2>5. ~Listed(o)'
    BY <2>2, <2>4 DEF IInv, Entering
  <2>6. \A p \in Objs : p # o => (Listed(p)' <=> Listed(p))
    BY <2>3, <2>4 DEF Listed
  <2>7. ListedHaveMedia'
    BY <2>3, <2>4, <2>5, <2>6 DEF ListedHaveMedia
  <2>8. LeaveFindsIt'
    <3> SUFFICES ASSUME NEW p \in Objs, cur'[p[1]] = p[2], home'[p][1] \notin deleted'
                 PROVE  /\ pc'[p[1]] = "remove" => at'[p[1]] = home'[p]
                        /\ pc'[p[1]] = "close" => ~Listed(p)'
      BY DEF LeaveFindsIt
    <3>1. CASE p[1] = c
      BY <2>4, <3>1
    <3>2. CASE p[1] # c
      <4>1. p # o /\ cur[p[1]] = p[2] /\ home[p][1] \notin deleted
        BY <2>2, <2>3, <2>4, <3>2
      <4> QED
        BY <2>3, <2>4, <2>6, <3>2, <4>1 DEF LeaveFindsIt
    <3> QED
      BY <3>1, <3>2
  <2> QED
    BY <2>7, <2>8
<1>5. ASSUME NEW c \in Conns, LeaveVoice(c) PROVE LeaveFindsIt' /\ ListedHaveMedia'
  <2>1. PICK o \in Objs : o = Voice(c) /\ o[1] = c /\ o[2] = cur[c] /\ home[o] \in VCs
    BY <1>5, VoiceIsObj DEF IInv, LeaveVoice
  <2>2. /\ UNCHANGED <<roster, home, media, deleted, cur>>
        /\ pc' = [pc EXCEPT ![c] = "remove"] /\ at' = [at EXCEPT ![c] = Got(home[o][1])]
    BY <1>5, <2>1 DEF LeaveVoice, GetOrCreate
  <2>3. /\ pc'[c] = "remove" /\ at'[c] = Got(home[o][1])
        /\ \A d \in Conns : d # c => pc'[d] = pc[d] /\ at'[d] = at[d]
    BY <2>2 DEF IInv, TypeOK
  <2>4. \A p \in Objs : Listed(p)' <=> Listed(p)
    BY <2>2 DEF Listed
  <2>5. ListedHaveMedia'
    BY <2>2, <2>4 DEF ListedHaveMedia
  <2>6. home[o][1] \notin deleted => Got(home[o][1]) = home[o]
    <3>1. home[o] # None /\ home[o][1] \in Channels
      BY <2>1, GotIsVC
    <3>2. home[o][1] \notin deleted =>
            /\ home[o] = <<home[o][1], 1>> /\ home[o][1] \in registered
            /\ made[home[o][1]] = 1
      BY <3>1 DEF FirstValue, IInv, Generations
    <3> QED
      BY <3>2 DEF Got
  <2>7. LeaveFindsIt'
    <3> SUFFICES ASSUME NEW p \in Objs, cur[p[1]] = p[2], home[p][1] \notin deleted
                 PROVE  /\ pc'[p[1]] = "remove" => at'[p[1]] = home[p]
                        /\ pc'[p[1]] = "close" => ~Listed(p)'
      BY <2>2 DEF LeaveFindsIt
    <3>1. CASE p[1] = c
      <4>1. p = o
        BY <2>1, <3>1
      <4> QED
        BY <2>3, <2>6, <3>1, <4>1
    <3>2. CASE p[1] # c
      BY <2>3, <2>4, <3>2 DEF LeaveFindsIt
    <3> QED
      BY <3>1, <3>2
  <2> QED
    BY <2>5, <2>7
<1>6. ASSUME NEW c \in Conns, EnterVoice(c) PROVE LeaveFindsIt' /\ ListedHaveMedia'
  <2>1. joins[c] \in Nat \ {0} /\ joins[c] <= MaxJoins[c]
    BY <1>6 DEF IInv, TypeOK, Holds, EnterVoice
  <2>2. PICK o \in Objs : o = <<c, joins[c]>> /\ o[1] = c /\ o[2] = joins[c]
    BY <2>1, PairsAreObjs
  <2>3. /\ pc[c] = "enter" /\ pc' = [pc EXCEPT ![c] = "ready"]
        /\ UNCHANGED <<at, home, media, deleted>>
    BY <1>6 DEF EnterVoice
  <2>4. /\ pc'[c] = "ready"
        /\ \A d \in Conns : d # c => pc'[d] = pc[d] /\ cur'[d] = cur[d]
    BY <1>6, <2>3 DEF EnterVoice, IInv, TypeOK
  <2>5. media[o] /\ home[o] \in VCs
    BY <2>1, <2>2, <2>3 DEF IInv, Entering, Joined, TypeOK
  <2>6. \A v \in VCs, w \in UserIds : roster'[v][w] \in {roster[v][w], o}
    <3>1. roster' = roster \/ roster' = [roster EXCEPT ![home[o]][Id(o)] = o]
      BY <1>6, <2>2 DEF EnterVoice
    <3> QED
      BY <1>1, <2>5, <3>1 DEF IInv, TypeOK
  <2>7. \A p \in Objs : Listed(p)' => p = o \/ Listed(p)
    BY <1>1, <2>3, <2>6 DEF Listed
  <2>8. ListedHaveMedia'
    BY <2>3, <2>5, <2>7 DEF ListedHaveMedia
  <2>9. LeaveFindsIt'
    BY <2>2, <2>3, <2>4, <2>7 DEF LeaveFindsIt
  <2> QED
    BY <2>8, <2>9
<1>7. ASSUME NEW c \in Conns, LeaveRoster(c) PROVE LeaveFindsIt' /\ ListedHaveMedia'
  <2>1. PICK o \in Objs : o = Voice(c) /\ o[1] = c /\ o[2] = cur[c] /\ home[o] \in VCs
    BY <1>7, VoiceIsObj DEF IInv, Holds, LeaveRoster
  <2>2. /\ at[c] \in VCs /\ RemoveUserIf(at[c], o) /\ pc[c] = "remove"
        /\ pc' = [pc EXCEPT ![c] = "close"]
        /\ UNCHANGED <<home, media, deleted, cur>>
    BY <1>7, <2>1 DEF IInv, TypeOK, Holds, LeaveRoster
  <2>3. \A v \in VCs, w \in UserIds :
          roster'[v][w] = IF v = at[c] /\ w = Id(o) /\ Removes(at[c], o)
                            THEN None ELSE roster[v][w]
    BY <2>2, RemovalIsLocal DEF IInv
  <2>4. \A p \in Objs : Listed(p)' => Listed(p)
    BY <1>2, <2>2, <2>3
  <2>5. /\ pc'[c] = "close"
        /\ \A d \in Conns : d # c => pc'[d] = pc[d] /\ at'[d] = at[d]
    BY <1>7, <2>2 DEF IInv, TypeOK, LeaveRoster
  <2>6. home[o][1] \notin deleted => ~Listed(o)'
    <3>1. home[o][1] \notin deleted => at[c] = home[o]
      BY <2>1, <2>2 DEF LeaveFindsIt
    <3>2. o # None
      OBVIOUS
    <3> QED
      BY <1>1, <2>1, <2>2, <2>3, <3>1, <3>2 DEF Listed, Removes
  <2>7. ListedHaveMedia'
    BY <2>2, <2>4 DEF ListedHaveMedia
  <2>8. LeaveFindsIt'
    <3> SUFFICES ASSUME NEW p \in Objs, cur[p[1]] = p[2], home[p][1] \notin deleted
                 PROVE  /\ pc'[p[1]] = "remove" => at'[p[1]] = home[p]
                        /\ pc'[p[1]] = "close" => ~Listed(p)'
      BY <2>2 DEF LeaveFindsIt
    <3>1. CASE p[1] = c
      <4>1. p = o
        BY <2>1, <3>1
      <4> QED
        BY <2>5, <2>6, <3>1, <4>1
    <3>2. CASE p[1] # c
      BY <2>4, <2>5, <3>2 DEF LeaveFindsIt
    <3> QED
      BY <3>1, <3>2
  <2> QED
    BY <2>7, <2>8
<1>8. ASSUME NEW c \in Conns, CloseMedia(c) PROVE LeaveFindsIt' /\ ListedHaveMedia'
  <2>1. PICK o \in Objs : o = Voice(c) /\ o[1] = c /\ o[2] = cur[c]
    BY <1>8, VoiceIsObj DEF IInv, Holds, CloseMedia
  <2>2. /\ pc[c] = "close" /\ pc'[c] \notin {"remove", "close"}
        /\ UNCHANGED <<roster, home, deleted>>
        /\ \A d \in Conns : d # c => pc'[d] = pc[d] /\ at'[d] = at[d] /\ cur'[d] = cur[d]
        /\ \A p \in Objs : p # o => media'[p] = media[p]
    BY <1>8, <2>1 DEF CloseMedia, Broadcast, IInv, TypeOK
  <2>3. \A p \in Objs : Listed(p)' <=> Listed(p)
    BY <2>2 DEF Listed
  <2>4. ListedHaveMedia'
    <3>1. home[o][1] \notin deleted => ~Listed(o)
      BY <2>1, <2>2 DEF LeaveFindsIt
    <3> QED
      BY <2>2, <2>3, <3>1 DEF ListedHaveMedia
  <2>5. LeaveFindsIt'
    BY <2>2, <2>3 DEF LeaveFindsIt
  <2> QED
    BY <2>4, <2>5
<1>9. ASSUME NEW c \in Conns, KickUser(c) \/ CloseAll(c)
      PROVE  LeaveFindsIt' /\ ListedHaveMedia'
  <2>1. \A v \in VCs, w \in UserIds : roster'[v][w] \in {roster[v][w], None}
    <3>1. CASE KickUser(c)
      <4>1. PICK vc \in sweep[c] :
              roster' = roster \/ roster' = [roster EXCEPT ![vc][target[c]] = None]
        BY <3>1 DEF KickUser
      <4>2. vc \in VCs /\ target[c] \in UserIds
        BY <3>1, <4>1 DEF KickUser, IInv, TypeOK, Holds
      <4> QED
        BY <4>1, <4>2 DEF IInv, TypeOK
    <3>2. CASE CloseAll(c)
      BY <3>2 DEF CloseAll, IInv, TypeOK, Holds
    <3> QED
      BY <1>9, <3>1, <3>2
  <2>2. /\ pc'[c] \notin {"remove", "close"}
        /\ UNCHANGED <<home, media, deleted, cur>>
        /\ \A d \in Conns : d # c => pc'[d] = pc[d] /\ at'[d] = at[d]
    BY <1>9 DEF KickUser, CloseAll, IInv, TypeOK
  <2> QED
    BY <1>2, <2>1, <2>2, MediaStays
<1>10. ASSUME NEW o \in Objs, Callback(o) \/ Outside(o)
       PROVE  LeaveFindsIt' /\ ListedHaveMedia'
  <2>1. UNCHANGED <<pc, at, cur, home, media, deleted>>
    BY <1>10 DEF Callback, Outside, PeerDown, StateChange, TellLeave, HangUp, ResumeTelling,
       RelayStalls, RelayResumes
  <2>2. \A p \in Objs : Listed(p)' => Listed(p)
    <3>1. CASE UNCHANGED roster
      BY <2>1, <3>1 DEF Listed
    <3>2. CASE StateChange(o)
      <4>1. home[o] \in VCs /\ RemoveUserIf(home[o], o)
        BY <3>2 DEF IInv, TypeOK, Joined, StateChange
      <4> QED
        BY <1>2, <2>1, <4>1, RemovalIsLocal DEF IInv
    <3> QED
      BY <1>10, <3>1, <3>2 DEF Callback, Outside, PeerDown, TellLeave, HangUp, ResumeTelling,
         RelayStalls, RelayResumes
  <2> QED
    BY <2>1, <2>2 DEF LeaveFindsIt, ListedHaveMedia
<1>11. CASE UNCHANGED vars
  BY <1>11 DEF vars, LeaveFindsIt, ListedHaveMedia, Listed
<1> QED
  BY <1>3, <1>4, <1>5, <1>6, <1>7, <1>8, <1>9, <1>10, <1>11 DEF Next, Message, Continue

\* On the roster of a channel that was never deleted is nobody without Media.
THEOREM MediaIsThere == Spec => []ListedHaveMedia
<1>1. Init => MediaInv
  BY DEF Init, MediaInv, FirstValue, LeaveFindsIt, ListedHaveMedia, Listed
<1>2. IInv /\ IInv' /\ MediaInv /\ [Next]_vars => MediaInv'
  BY MediaStep
<1>3. MediaInv => ListedHaveMedia
  BY DEF MediaInv
<1> QED
  BY <1>1, <1>2, <1>3, VoiceInvariant, PTL DEF Spec

-----------------------------------------------------------------------------
(* Relay: tracks and offers on top of Voice.                                   *)

\* Relay adds variables to Voice and takes none of its steps away.
LEMMA RelayStepIsVoice == [RelayNext]_relayVars => [Next]_vars
  BY DEF RelayNext, relayVars, OnTrack, ForwardTrack, AnswerTrack

\* Whatever holds of the voice users holds of them under Relay.
THEOREM RelayIsVoice == RelaySpec => Spec
<1>1. RelayInit => Init
  BY DEF RelayInit
<1> QED
  BY <1>1, RelayStepIsVoice, PTL DEF RelaySpec, Spec

\* Of a call, nobody goes back outside, and only who is outside comes in.
LEMMA CallsGoForward ==
  ASSUME Promise!Next \/ UNCHANGED Promise!vars, NEW p \in Objs
  PROVE  /\ Phase(p)' = "out" => Phase(p) = "out"
         /\ Phase(p)' = "in" => Phase(p) \in {"in", "out"}
<1>1. CASE UNCHANGED Promise!vars
  <2>1. [o \in Objs |-> Phase(o)]' = [o \in Objs |-> Phase(o)]
    BY <1>1 DEF Promise!vars
  <2>2. Phase(p)' = Phase(p)
    BY <2>1
  <2> QED
    BY <2>2
<1>2. CASE Promise!Next
  BY <1>2
  DEF Promise!Next, Promise!Enter, Promise!Abandon, Promise!Leave, Promise!Tell,
      Promise!Remove, Promise!Clear, Promise!Dismiss
<1> QED
  BY <1>1, <1>2

\* A voice user that has entered keeps its channel, is not listed again once it is off
\* the roster, and does not get a closed peer connection back, or one that is new.
LEMMA NobodyReturns ==
  ASSUME IInv, IInv', [Next]_vars, NEW p \in Objs, ~Absent(p)
  PROVE  /\ ~Absent(p)' /\ (Listed(p)' => Listed(p))
         /\ home'[p] = home[p]
         /\ rtc'[p] # "closed" => rtc[p] # "closed"
         /\ rtc'[p] \in {"none", "new"} => rtc[p] \in {"none", "new"}
<1>1. ~(Listed(p)' /\ Absent(p)')
  BY DEF IInv, Joined, Entering, Listed, Absent
<1>2. /\ Phase(p)' = "out" => Phase(p) = "out"
      /\ Phase(p)' = "in" => Phase(p) \in {"in", "out"}
  BY PromiseStep, CallsGoForward
<1>3. ~Absent(p)' /\ (Listed(p)' => Listed(p))
  BY <1>1, <1>2 DEF Phase
<1> DEFINE RtcForward == /\ rtc'[p] # "closed" => rtc[p] # "closed"
                         /\ rtc'[p] \in {"none", "new"} => rtc[p] \in {"none", "new"}
<1>4. ASSUME NEW c \in Conns, NEW ch \in Channels, JoinVoice(c, ch)
      PROVE  home'[p] = home[p] /\ rtc'[p] = rtc[p]
  <2>1. joins[c] < MaxJoins[c] /\ TypeOK
    BY <1>4 DEF JoinVoice, IInv
  <2>2. PICK o \in Objs : o = <<c, joins[c] + 1>> /\ o[1] = c /\ o[2] = joins[c] + 1
    BY <2>1, NextJoinIsObj
  <2>3. Absent(o)
    BY <2>1, <2>2 DEF TypeOK, Absent
  <2>4. home' = [home EXCEPT ![o] = Got(ch)] /\ rtc' = [rtc EXCEPT ![o] = "new"]
    BY <1>4, <2>2 DEF JoinVoice
  <2> QED
    BY <2>1, <2>3, <2>4 DEF TypeOK
<1>5. ASSUME home' = home, \/ rtc' = rtc
                           \/ \E o \in Objs : rtc' = [rtc EXCEPT ![o] = "closed"]
                           \/ \E o \in Objs : rtc[o] # "closed" /\ rtc' = [rtc EXCEPT ![o] = "live"]
                           \/ \E o \in Objs : rtc[o] # "closed" /\ rtc' = [rtc EXCEPT ![o] = "down"]
      PROVE  home'[p] = home[p] /\ RtcForward
  BY <1>5 DEF IInv, TypeOK
<1>6. ASSUME NEW c \in Conns, Answer(c) \/ CloseMedia(c) \/ KickClose(c) \/ CloseOne(c)
      PROVE  home'[p] = home[p] /\ RtcForward
  <2>1. CASE Answer(c)
    <3>1. PICK o \in Objs : o = Voice(c)
      BY <2>1, VoiceIsObj DEF IInv, Answer
    <3> QED
      BY <1>5, <2>1, <3>1 DEF Answer
  <2>2. CASE CloseMedia(c)
    <3>1. PICK o \in Objs : o = Voice(c)
      BY <2>2, VoiceIsObj DEF IInv, Holds, CloseMedia
    <3> QED
      BY <1>5, <2>2, <3>1 DEF CloseMedia, CloseRtc
  <2>3. CASE KickClose(c) \/ CloseOne(c)
    <3>1. PICK o \in Objs : o = victim[c]
      BY <2>3 DEF KickClose, CloseOne, IInv, TypeOK, Holds
    <3>2. home' = home /\ (rtc' = rtc \/ rtc' = [rtc EXCEPT ![o] = "closed"])
      BY <2>3, <3>1 DEF KickClose, CloseOne, CloseVictim, CloseRtc
    <3> QED
      BY <1>5, <3>2
  <2> QED
    BY <1>6, <2>1, <2>2, <2>3
<1>7. ASSUME NEW o \in Objs, Callback(o) \/ Outside(o)
      PROVE  home'[p] = home[p] /\ RtcForward
  BY <1>5, <1>7 DEF Callback, Outside, PeerDown, StateChange, TellLeave, HangUp,
     ResumeTelling, RelayStalls, RelayResumes
<1>8. ASSUME NEW c \in Conns,
             \/ Auth(c) \/ VoiceState(c) \/ LeaveVoice(c) \/ Disconnect(c)
             \/ \E u \in UserIds : KickServer(c, u) \/ \E ch \in Channels : KickVoice(c, ch, u)
             \/ \E ch \in Channels : DeleteChannel(c, ch)
             \/ EnterVoice(c) \/ LeaveRoster(c) \/ KickUser(c) \/ KickDone(c)
             \/ CloseAll(c) \/ TestMedia(c) \/ CloseDone(c) \/ Resume(c)
      PROVE  home'[p] = home[p] /\ RtcForward
  BY <1>8 DEF Auth, VoiceState, LeaveVoice, Disconnect, KickServer, KickVoice,
     DeleteChannel, EnterVoice, LeaveRoster, KickUser, KickDone, CloseAll, TestMedia,
     CloseDone, Resume
<1>9. home'[p] = home[p] /\ RtcForward
  BY <1>4, <1>6, <1>7, <1>8 DEF Next, Message, Continue, vars
<1> QED
  BY <1>3, <1>9

\* A track belongs to a voice user that has entered and answered its join, and an offer
\* was made, or left out, to somebody who was in the channel with it.
Tracks ==
  /\ track \in [Objs -> {"none", "arrived", "forwarded"}]
  /\ hears \subseteq Objs \X Objs /\ passed \subseteq Objs \X Objs
  /\ \A o \in Objs : track[o] # "none" =>
       ~Absent(o) /\ home[o] # None /\ rtc[o] \notin {"none", "new"}
  /\ \A o, p \in Objs : <<p, o>> \in hears \cup passed => ~Absent(o) /\ ~Absent(p)

RelayInv == Tracks /\ SomebodyHears /\ OffersStayInTheChannel /\ CrashNeedsDeletion

\* ForwardTrack reaches whoever is listed in its channel under another id.
LEMMA OthersAreListed ==
  ASSUME IInv, NEW o \in Objs, home[o] # None
  PROVE  /\ Others(o) \subseteq Objs
         /\ \A p \in Objs : p \in Others(o) <=>
              Listed(p) /\ home[p] = home[o] /\ Id(p) # Id(o)
<1>1. home[o] \in VCs
  BY DEF IInv, TypeOK
<1>2. Others(o) \subseteq Objs
  BY <1>1 DEF Others, IInv, TypeOK
<1>3. \A p \in Objs : p # None /\ Id(p) \in UserIds
  OBVIOUS
<1>4. \A p \in Objs : p \in Others(o) => Listed(p) /\ home[p] = home[o] /\ Id(p) # Id(o)
  <2> SUFFICES ASSUME NEW p \in Objs, p \in Others(o)
               PROVE  Listed(p) /\ home[p] = home[o] /\ Id(p) # Id(o)
    OBVIOUS
  <2>1. PICK u \in UserIds : u # Id(o) /\ roster[home[o]][u] = p
    BY DEF Others
  <2>2. Id(p) = u /\ home[p] = home[o]
    BY <1>1, <1>3, <2>1 DEF IInv, RosterWellFormed
  <2> QED
    BY <2>1, <2>2 DEF Listed
<1>5. \A p \in Objs : Listed(p) /\ home[p] = home[o] /\ Id(p) # Id(o) => p \in Others(o)
  BY <1>3 DEF Others, Listed
<1> QED
  BY <1>2, <1>4, <1>5

\* What the voice users do takes no offer back that still matters.
LEMMA VoiceStepKeepsRelay ==
  ASSUME IInv, IInv', MediaInv, RelayInv, [Next]_vars, UNCHANGED <<track, offers, down>>
  PROVE  RelayInv'
<1>1. \A p \in Objs : ~Absent(p) =>
        /\ ~Absent(p)' /\ (Listed(p)' => Listed(p))
        /\ home'[p] = home[p]
        /\ rtc'[p] # "closed" => rtc[p] # "closed"
        /\ rtc'[p] \in {"none", "new"} => rtc[p] \in {"none", "new"}
  BY NobodyReturns
<1>2. Tracks'
  BY <1>1 DEF RelayInv, Tracks, offers
<1>3. OffersStayInTheChannel'
  BY <1>1 DEF RelayInv, Tracks, OffersStayInTheChannel, offers
<1>4. SomebodyHears'
  BY <1>1 DEF RelayInv, Tracks, SomebodyHears, offers
<1>5. CrashNeedsDeletion'
  <2>1. deleted \subseteq deleted'
    BY DeletedForGood
  <2> QED
    BY <2>1 DEF RelayInv, CrashNeedsDeletion
<1> QED
  BY <1>2, <1>3, <1>4, <1>5 DEF RelayInv

\* A track arrives at a peer connection that is up, so its voice user has entered.
LEMMA OnTrackKeepsRelay ==
  ASSUME IInv, RelayInv, NEW o \in Objs, OnTrack(o)
  PROVE  RelayInv'
<1>1. ~Absent(o) /\ home[o] # None
  BY DEF IInv, TypeOK, Joined, Entering, Absent, OnTrack
<1>2. /\ track' = [track EXCEPT ![o] = "arrived"]
      /\ rtc[o] = "live"
      /\ UNCHANGED <<vars, hears, passed, down>>
  BY DEF OnTrack, offers
<1>3. \A p \in Objs : (Listed(p)' <=> Listed(p)) /\ (Absent(p)' <=> Absent(p))
  BY <1>2 DEF vars, Listed, Absent
<1>4. Tracks'
  BY <1>1, <1>2, <1>3 DEF RelayInv, Tracks, vars
<1>5. SomebodyHears'
  BY <1>2, <1>3 DEF RelayInv, Tracks, SomebodyHears, vars
<1>6. OffersStayInTheChannel' /\ CrashNeedsDeletion'
  BY <1>2 DEF RelayInv, OffersStayInTheChannel, CrashNeedsDeletion, vars
<1> QED
  BY <1>4, <1>5, <1>6 DEF RelayInv

\* ForwardTrack offers a track to whoever came before and still takes offers.
LEMMA ForwardTrackKeepsRelay ==
  ASSUME IInv, MediaInv, RelayInv, NEW o \in Objs, ForwardTrack(o)
  PROVE  RelayInv'
<1>1. /\ track[o] = "arrived" /\ track' = [track EXCEPT ![o] = "forwarded"]
      /\ UNCHANGED vars
  BY DEF ForwardTrack
<1>2. ~Absent(o) /\ home[o] # None
  BY <1>1 DEF RelayInv, Tracks
<1>3. /\ Others(o) \subseteq Objs
      /\ \A p \in Objs : p \in Others(o) <=>
           Listed(p) /\ home[p] = home[o] /\ Id(p) # Id(o)
  BY <1>2, OthersAreListed
<1>4. \A p \in Objs : (Listed(p)' <=> Listed(p)) /\ (Absent(p)' <=> Absent(p))
  BY <1>1 DEF vars, Listed, Absent
<1>5. \A p \in Others(o) : p \in Objs /\ Listed(p) /\ ~Absent(p)
  BY <1>3, PhasesExclude
<1>6. UNCHANGED <<home, rtc, media, deleted>>
  BY <1>1 DEF vars
<1>7. track' \in [Objs -> {"none", "arrived", "forwarded"}]
      /\ \A p \in Objs : track'[p] = IF p = o THEN "forwarded" ELSE track[p]
  BY <1>1 DEF RelayInv, Tracks
<1>8. CASE \A p \in Others(o) : media[p]
  <2> DEFINE joined == {p \in Others(o) : rtc[p] \in {"live", "down"}}
  <2>1. /\ down' = down
        /\ hears' = hears \cup (joined \ unanswered) \X {o}
        /\ passed' = passed \cup (joined \cap unanswered) \X {o}
    BY <1>8 DEF ForwardTrack
  <2>2. joined \subseteq Objs /\ joined \subseteq Others(o)
    BY <1>3
  <2>3. \A p \in Others(o) : rtc[p] \notin {"none", "new", "closed"} => p \in joined
    BY <1>3 DEF IInv, TypeOK
  <2> HIDE DEF joined
  <2>4. /\ hears' \subseteq Objs \X Objs /\ passed' \subseteq Objs \X Objs
        /\ \A p, q \in Objs : <<p, q>> \in hears' => <<p, q>> \in hears \/ (q = o /\ p \in joined)
        /\ \A p, q \in Objs : <<p, q>> \in hears' \cup passed' <=>
             <<p, q>> \in hears \cup passed \/ (q = o /\ p \in joined)
    BY <2>1, <2>2 DEF RelayInv, Tracks
  <2>5. Tracks'
    BY <1>1, <1>2, <1>4, <1>5, <1>6, <1>7, <2>4, <2>2 DEF RelayInv, Tracks
  <2>6. OffersStayInTheChannel'
    BY <1>3, <1>6, <2>4, <2>2 DEF RelayInv, OffersStayInTheChannel
  <2>7. SomebodyHears'
    <3> SUFFICES ASSUME ~down, NEW p \in Objs, NEW q \in Objs,
                        Listed(p), rtc[p] # "closed", track'[p] = "forwarded",
                        Listed(q), rtc[q] # "closed", track'[q] = "forwarded",
                        home[p] = home[q], Id(p) # Id(q)
                 PROVE  <<p, q>> \in hears' \cup passed' \/ <<q, p>> \in hears' \cup passed'
      BY <1>4, <1>6, <2>1 DEF SomebodyHears
    <3>1. CASE p = o \/ q = o
      <4>1. rtc[p] \notin {"none", "new"} /\ rtc[q] \notin {"none", "new"}
        BY <1>1, <1>7 DEF RelayInv, Tracks
      <4> QED
        BY <1>3, <2>4, <2>3, <3>1, <4>1
    <3>2. CASE p # o /\ q # o
      BY <1>7, <2>4, <3>2 DEF RelayInv, SomebodyHears
    <3> QED
      BY <3>1, <3>2
  <2>8. CrashNeedsDeletion'
    BY <1>6, <2>1 DEF RelayInv, CrashNeedsDeletion
  <2> QED
    BY <2>5, <2>6, <2>7, <2>8 DEF RelayInv
<1>9. CASE \E p \in Others(o) : ~media[p]
  <2>1. down' = TRUE /\ hears' = hears /\ passed' = passed
    BY <1>9 DEF ForwardTrack, offers
  <2>2. PICK p \in Others(o) : ~media[p]
    BY <1>9
  <2>3. p \in Objs /\ Listed(p)
    BY <1>5
  <2>4. home[p][1] \in deleted
    BY <2>2, <2>3 DEF MediaInv, ListedHaveMedia
  <2>5. Tracks'
    BY <1>1, <1>2, <1>4, <1>6, <1>7, <2>1 DEF RelayInv, Tracks
  <2>6. OffersStayInTheChannel' /\ SomebodyHears' /\ CrashNeedsDeletion'
    BY <1>6, <2>1, <2>4 DEF RelayInv, OffersStayInTheChannel, SomebodyHears,
       CrashNeedsDeletion
  <2> QED
    BY <2>5, <2>6 DEF RelayInv
<1> QED
  BY <1>8, <1>9

\* An answer makes room for the next offer.
LEMMA AnswerTrackKeepsRelay ==
  ASSUME RelayInv, NEW c \in Conns, AnswerTrack(c)
  PROVE  RelayInv'
<1>1. UNCHANGED <<vars, track, hears, passed, down>>
  BY DEF AnswerTrack
<1>2. \A p \in Objs : (Listed(p)' <=> Listed(p)) /\ (Absent(p)' <=> Absent(p))
  BY <1>1 DEF vars, Listed, Absent
<1> QED
  BY <1>1, <1>2 DEF RelayInv, Tracks, SomebodyHears, OffersStayInTheChannel,
     CrashNeedsDeletion, vars

\* The inductive invariant of the tracks, on top of that of the voice users.
THEOREM RelayInvariant == RelaySpec => []RelayInv
<1>1. RelayInit => RelayInv
  BY DEF RelayInit, RelayInv, Tracks, SomebodyHears, OffersStayInTheChannel,
     CrashNeedsDeletion
<1>2. Init => MediaInv
  BY DEF Init, MediaInv, FirstValue, LeaveFindsIt, ListedHaveMedia, Listed
<1>3. IInv /\ IInv' /\ MediaInv /\ RelayInv /\ [RelayNext]_relayVars => RelayInv'
  <2> SUFFICES ASSUME IInv, IInv', MediaInv, RelayInv, [RelayNext]_relayVars
               PROVE  RelayInv'
    OBVIOUS
  <2>1. CASE [Next]_vars /\ UNCHANGED <<track, offers, down>>
    BY <2>1, VoiceStepKeepsRelay
  <2>2. ASSUME NEW o \in Objs, OnTrack(o) \/ ForwardTrack(o) PROVE RelayInv'
    BY <2>2, OnTrackKeepsRelay, ForwardTrackKeepsRelay
  <2>3. ASSUME NEW c \in Conns, AnswerTrack(c) PROVE RelayInv'
    BY <2>3, AnswerTrackKeepsRelay
  <2> QED
    BY <2>1, <2>2, <2>3 DEF RelayNext, relayVars
<1> QED
  BY <1>1, <1>2, <1>3, MediaStep, RelayIsVoice, VoiceInvariant, PTL DEF RelaySpec, Spec

\* In every channel, whoever comes and goes: of two accounts that are listed with an open
\* peer connection and whose tracks were forwarded, one at least was offered the other's,
\* or was passed over because it had an offer to answer.
THEOREM OneOfTwoHears == RelaySpec => []SomebodyHears
  BY RelayInvariant, PTL DEF RelayInv

\* Nobody is offered the track of another channel, nor one of the own account.
THEOREM VoiceStaysInItsChannel == RelaySpec => []OffersStayInTheChannel
  BY RelayInvariant, PTL DEF RelayInv

\* ForwardTrack does not bring the process down before a voice channel was deleted.
THEOREM NoCrashBeforeDeletion == RelaySpec => []CrashNeedsDeletion
  BY RelayInvariant, PTL DEF RelayInv
=============================================================================
