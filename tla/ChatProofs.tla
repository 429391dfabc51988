------------------------------ MODULE ChatProofs -----------------------------
(***************************************************************************)
(* Presence and Chat for every number of connections, accounts, messages   *)
(* and channels.  An entry is made from what a handler read earlier, so    *)
(* the inductive invariant says what a handler between the read and the    *)
(* entry may still rely on, after whatever kicks and departures came       *)
(* between.  Chat only goes through steps of Presence.  The lock keeps     *)
(* ConnectedUsers as it is while an event is told, and the statement       *)
(* before it is what makes the telling the only one of its kind.  With     *)
(* that, Chat implements Feed.                                             *)
(***************************************************************************)
EXTENDS Chat, TLAPS

-----------------------------------------------------------------------------
(* Presence *)

\* Nobody is known before the first authentication, and then it is one of the
\* accounts the client can log in as.
KnownByLogin ==
  \A c \in Conns :
    /\ pc[c] = "anonymous" => me[c] = None
    /\ me[c] # None => me[c] \in LoginAs[c]

\* A handler on its way to AddConnectedUser is of an account that was let in.
AboutToBeListed ==
  \A c \in Conns : pc[c] = "present" => me[c] \in members \cup kicked

IInv ==
  /\ TypeOK
  /\ KnownByLogin
  /\ AboutToBeListed
  /\ OnlineHasConnection
  /\ ListedWasMember

-----------------------------------------------------------------------------
\* A server that has just started lists nobody.
LEMMA PresenceInit == Init => IInv
  BY PresenceAssumption
  DEF Init, IInv, TypeOK, KnownByLogin, AboutToBeListed, OnlineHasConnection,
      ListedWasMember, At, Ended

\* Every handler, entry and departure preserves the inductive invariant.
LEMMA PresenceStep == IInv /\ [Next]_vars => IInv'
<1> SUFFICES ASSUME IInv, [Next]_vars PROVE IInv'
  OBVIOUS
<1> USE PresenceAssumption
    DEF IInv, TypeOK, KnownByLogin, AboutToBeListed, OnlineHasConnection,
        ListedWasMember, At, Ended, Goto
<1>1. ASSUME NEW c \in Conns, Auth(c) PROVE IInv'
  <2> PICK u \in LoginAs[c] :
        /\ me' = [me EXCEPT ![c] = u]
        /\ \/ u \in members /\ Goto(c, "present")
           \/ (u \notin members \/ Faults) /\ Goto(c, "ready")
    BY <1>1 DEF Auth
  <2>1. u \in UserIds /\ u # None
    OBVIOUS
  <2>2. KnownByLogin' /\ AboutToBeListed' /\ TypeOK'
    BY <1>1, <2>1 DEF Auth
  <2>3. OnlineHasConnection'
    BY <1>1, <2>1 DEF Auth
  <2>4. ListedWasMember'
    BY <1>1 DEF Auth
  <2> QED
    BY <2>2, <2>3, <2>4
<1>2. ASSUME NEW c \in Conns, Refuse(c) PROVE IInv'
  BY <1>2 DEF Refuse
<1>3. ASSUME NEW c \in Conns, JoinServer(c) PROVE IInv'
  BY <1>3 DEF JoinServer
<1>4. ASSUME NEW c \in Conns, AddConnectedUser(c) PROVE IInv'
  BY <1>4 DEF AddConnectedUser
<1>5. ASSUME NEW c \in Conns, NEW u \in UserIds, KickServer(c, u) PROVE IInv'
  BY <1>5 DEF KickServer
<1>6. ASSUME NEW c \in Conns, Disconnect(c) PROVE IInv'
  BY <1>6 DEF Disconnect
<1>7. ASSUME NEW c \in Conns, RemoveConnectedUser(c) PROVE IInv'
  BY <1>7 DEF RemoveConnectedUser
<1>8. ASSUME NEW c \in Conns, Moderate(c) PROVE IInv'
  BY <1>8 DEF Moderate
<1>9. ASSUME NEW u \in UserIds, AddMember(u) PROVE IInv'
  BY <1>9 DEF AddMember
<1>10. CASE UNCHANGED vars
  BY <1>10 DEF vars
<1> QED
  BY <1>1, <1>2, <1>3, <1>4, <1>5, <1>6, <1>7, <1>8, <1>9, <1>10 DEF Next

\* The inductive invariant holds in every reachable state of every instance.
THEOREM PresenceInvariant == Spec => []IInv
  BY PresenceInit, PresenceStep, PTL DEF Spec

\* Every variable keeps its type.
THEOREM TypeCorrect == Spec => []TypeOK
  BY PresenceInvariant, PTL DEF IInv

\* For any number of connections: the entry of an account never names a connection of it
\* that is closed, except for that of the owner after a panic.
THEOREM EntriesAreAlive == Spec => []OnlineHasConnection
  BY PresenceInvariant, PTL DEF IInv

\* For any number of connections: an account is listed only after it was let in.
THEOREM EntriesWereMembers == Spec => []ListedWasMember
  BY PresenceInvariant, PTL DEF IInv

-----------------------------------------------------------------------------
(* Chat *)

\* An entry is of an account that its client can log in as.
ByLogin ==
  \A u \in UserIds : connected[u] # None => u \in LoginAs[connected[u]]

\* What a handler may rely on: the row it inserts is not there before its statement,
\* and its statement's effect is there afterwards.
JobsMatchRows ==
  \A c \in Conns, x \in Rows :
    /\ job[c] = <<"new", x>> => (step[c] = "write" <=> row[x] = "none")
    /\ job[c] = <<"gone", x>> /\ step[c] # "write" => row[x] = "gone"

\* Nobody else inserts the same row, or tells of the same event.
OneAtATime ==
  \A c, d \in Conns, x \in Rows :
    /\ job[c] = <<"new", x>> /\ job[d] = <<"new", x>> => c = d
    /\ /\ job[c] = <<"gone", x>> /\ job[d] = <<"gone", x>>
       /\ step[c] # "write" /\ step[d] # "write"
       => c = d

OwnMessages ==
  \A c \in Conns, m \in Messages : job[c] = <<"new", m>> => m[1] = c

\* Before the first write of a broadcast nobody has heard of its event, and until the
\* broadcast comes to an account its connection has not.
Untold ==
  \A c \in Conns, w \in Witnesses :
    /\ step[c] = "tell" => heard[w][job[c]] = 0
    /\ \A u \in left[c] : connected[u] = w => heard[w][job[c]] = 0

CInv ==
  /\ ChatTypeOK
  /\ JobsMatchRows
  /\ OneAtATime
  /\ OwnMessages
  /\ Untold
  /\ HeardIsSaved
  /\ HeardOnce
  /\ ListedHaveHeard
  /\ OneLivePerName

CIInv == IInv /\ ByLogin /\ CInv

-----------------------------------------------------------------------------
\* A busy handler has an event of one of the two kinds.
LEMMA JobShape ==
  ASSUME ChatTypeOK, NEW c \in Conns, step[c] # "idle"
  PROVE  \E x \in Rows : job[c] = <<"new", x>> \/ job[c] = <<"gone", x>>
  BY DEF ChatTypeOK, Events

\* A channel is no message.
LEMMA ChannelsAreNoMessages == Channels \cap Messages = {}
  BY ChatAssumption DEF Messages

\* A connection stands for one witness at most.
LEMMA WitnessOfOne ==
  ASSUME ByLogin, NEW u \in UserIds, NEW v \in UserIds,
         connected[u] \in Witnesses, connected[u] = connected[v]
  PROVE  u = v
  BY PresenceAssumption, ChatAssumption DEF ByLogin

\* No connection comes back.
EndsForGood == \A w \in Conns : Ended(w) => Ended(w)'

LEMMA NoStepReopens ==
  ASSUME TypeOK, [Next]_presenceVars
  PROVE  EndsForGood
<1> USE DEF EndsForGood, Ended, TypeOK, At, Goto
<1>1. ASSUME NEW c \in Conns,
             \/ Auth(c) \/ Refuse(c) \/ JoinServer(c) \/ AddConnectedUser(c) \/ Disconnect(c)
             \/ RemoveConnectedUser(c) \/ Moderate(c) \/ \E u \in UserIds : KickServer(c, u)
      PROVE  EndsForGood
  <2>1. pc[c] \notin {"closed", "panicked"} /\ \A w \in Conns : w # c => pc'[w] = pc[w]
    BY <1>1 DEF Auth, Refuse, JoinServer, AddConnectedUser, Disconnect,
                RemoveConnectedUser, Moderate, KickServer
  <2> QED
    BY <2>1
<1>2. CASE UNCHANGED pc
  BY <1>2
<1> QED
  BY <1>1, <1>2 DEF Next, AddMember, presenceVars, vars

\* Whom an event is told depends on the entries, on who tells it, and on the event.
LEMMA AudienceStays ==
  ASSUME NEW d \in Conns,
         connected' = connected, me'[d] = me[d], job'[d] = job[d]
  PROVE  Audience(d)' = Audience(d)
<1>1. Listed' = Listed
  BY DEF Listed
<1> QED
  BY <1>1 DEF Audience

\* A server that has just started has told nobody of anything.
LEMMA ChatInitially == ChatInit => CIInv
<1> SUFFICES ASSUME ChatInit PROVE CIInv
  OBVIOUS
<1>0. IInv
  BY PresenceInit DEF ChatInit
<1> USE DEF ChatInit, Init
<1>1. ByLogin
  BY DEF ByLogin
<1>2. ChatTypeOK
  BY DEF ChatTypeOK
<1>3. JobsMatchRows /\ OneAtATime /\ OwnMessages
  BY NoneIsNoEvent DEF JobsMatchRows, OneAtATime, OwnMessages, Rows, Events
<1>4. Untold /\ HeardIsSaved /\ HeardOnce /\ ListedHaveHeard
  BY DEF Untold, HeardIsSaved, HeardOnce, ListedHaveHeard, Events
<1>5. OneLivePerName
  BY DEF OneLivePerName, Rows
<1> QED
  BY <1>0, <1>1, <1>2, <1>3, <1>4, <1>5 DEF CIInv, CInv

-----------------------------------------------------------------------------
\* The steps of Presence keep tokens and entries together.
LEMMA PresenceKeepsLogins ==
  ASSUME IInv, ByLogin, [Next]_presenceVars
  PROVE  IInv' /\ ByLogin'
<1>1. IInv'
  BY PresenceStep DEF presenceVars
<1> USE DEF IInv, TypeOK, ByLogin
<1>2. ASSUME NEW c \in Conns, AddConnectedUser(c) PROVE ByLogin'
  BY <1>2 DEF AddConnectedUser, KnownByLogin, At
<1>3. ASSUME NEW c \in Conns, RemoveConnectedUser(c) PROVE ByLogin'
  BY <1>3 DEF RemoveConnectedUser
<1>4. CASE UNCHANGED connected
  BY <1>1, <1>4
<1> QED
  BY <1>1, <1>2, <1>3, <1>4
  DEF Next, presenceVars, vars, Auth, Refuse, JoinServer, Disconnect, Moderate, KickServer,
      AddMember

\* What a handler of Presence does, or a signup, leaves every broadcast under way as it was.
LEMMA AttendStep ==
  ASSUME CIInv, EndsForGood, (\E c \in Conns : Attend(c)) \/ Admit
  PROVE  CInv'
<1> USE DEF CIInv, IInv, CInv
<1>1. UNCHANGED <<row, step, job, left, heard>>
  BY DEF Attend, Admit, chatVars
<1>2. ChatTypeOK' /\ JobsMatchRows' /\ OneAtATime' /\ OwnMessages'
      /\ HeardIsSaved' /\ HeardOnce' /\ OneLivePerName'
  BY <1>1 DEF ChatTypeOK, JobsMatchRows, OneAtATime, OwnMessages, HeardIsSaved, HeardOnce,
              OneLivePerName, NameTaken
<1>3. ASSUME NEW d \in Conns, step[d] = "telling" PROVE connected' = connected /\ me'[d] = me[d]
  <2>1. CASE Admit
    BY <2>1 DEF Admit, AddMember
  <2>2. ASSUME NEW c \in Conns, Attend(c) PROVE connected' = connected /\ me'[d] = me[d]
    <3>1. ~Unlocked /\ d # c
      BY <1>3, <2>2 DEF Unlocked, Attend, Idle
    <3> QED
      BY <2>2, <3>1 DEF Attend, Registers, Unregisters, Auth, Refuse, JoinServer,
                        Disconnect, Moderate, KickServer, TypeOK
  <2> QED
    BY <2>1, <2>2
<1>4. Untold'
  <2>1. ASSUME NEW d \in Conns, NEW u \in left[d] PROVE step[d] = "telling"
    BY <2>1 DEF ChatTypeOK
  <2> QED
    BY <1>1, <1>3, <2>1 DEF Untold
<1>5. ListedHaveHeard'
  <2> SUFFICES ASSUME NEW d \in Conns, step[d] = "telling",
                      NEW u \in Audience(d)' \ left[d], connected'[u] \in Witnesses,
                      pc'[connected'[u]] \notin {"closed", "panicked"}
               PROVE  heard[connected'[u]][job[d]] > 0
    BY <1>1 DEF ListedHaveHeard, Ended
  <2>1. Audience(d)' = Audience(d) /\ connected' = connected
    BY <1>1, <1>3, AudienceStays
  <2>2. ~Ended(connected[u])
    BY <2>1, ChatAssumption DEF EndsForGood, Ended
  <2> QED
    BY <2>1, <2>2 DEF ListedHaveHeard
<1> QED
  BY <1>2, <1>4, <1>5

-----------------------------------------------------------------------------
\* A handler may start on an event that nobody else is inserting.
LEMMA BeginStep ==
  ASSUME CInv, NEW c \in Conns, Idle(c), NEW k \in {"new", "gone"}, NEW x \in Rows,
         Begin(c, <<k, x>>),
         k = "new" => /\ row[x] = "none"
                      /\ \A d \in Conns : job[d] # <<"new", x>>
                      /\ x \in Messages => x[1] = c
  PROVE  CInv'
<1> DEFINE e == <<k, x>>
<1>1. /\ step' = [step EXCEPT ![c] = "write"] /\ job' = [job EXCEPT ![c] = e]
      /\ UNCHANGED <<row, left, heard, connected, pc, me>>
      /\ e \in Events /\ step[c] = "idle" /\ left[c] = {}
  BY DEF Begin, presenceVars, vars, Idle, Events, CInv, ChatTypeOK
<1> USE <1>1 DEF CInv
<1>2. ChatTypeOK'
  BY NoneIsNoEvent DEF ChatTypeOK
<1>3. JobsMatchRows'
  BY DEF ChatTypeOK, JobsMatchRows
<1>4. OneAtATime'
  <2>1. \A d \in Conns \ {c} : job'[d] = job[d] /\ step'[d] = step[d]
    BY DEF ChatTypeOK
  <2>2. job'[c] = <<k, x>> /\ step'[c] = "write"
    BY DEF ChatTypeOK
  <2>3. ASSUME NEW a \in Conns, NEW b \in Conns, NEW y \in Rows,
               job'[a] = <<"new", y>>, job'[b] = <<"new", y>>
        PROVE  a = b
    <3>1. CASE k = "new"
      BY <3>1, <2>1, <2>2, <2>3 DEF OneAtATime
    <3>2. CASE k = "gone"
      BY <3>2, <2>1, <2>2, <2>3 DEF OneAtATime
    <3> QED
      BY <3>1, <3>2
  <2>4. ASSUME NEW a \in Conns, NEW b \in Conns, NEW y \in Rows,
               job'[a] = <<"gone", y>>, job'[b] = <<"gone", y>>,
               step'[a] # "write", step'[b] # "write"
        PROVE  a = b
    <3>1. a # c /\ b # c
      BY <2>2, <2>4
    <3> QED
      BY <3>1, <2>1, <2>4 DEF OneAtATime
  <2> QED
    BY <2>3, <2>4 DEF OneAtATime
<1>8. OwnMessages'
  BY DEF ChatTypeOK, OwnMessages
<1>5. HeardIsSaved' /\ HeardOnce' /\ OneLivePerName'
  BY DEF HeardIsSaved, HeardOnce, OneLivePerName, NameTaken
<1>6. Untold'
  BY DEF ChatTypeOK, Untold
<1>7. ListedHaveHeard'
  BY AudienceStays DEF ChatTypeOK, ListedHaveHeard, Ended
<1> QED
  BY <1>2, <1>3, <1>4, <1>5, <1>6, <1>7, <1>8

\* A handler may end, or fail, once it has nobody left to tell.
LEMMA EndStep ==
  ASSUME CInv, EndsForGood, NEW c \in Conns, GiveUp(c), left[c] = {},
         UNCHANGED <<row, left, heard, connected, me>>
  PROVE  CInv'
<1>1. /\ step' = [step EXCEPT ![c] = "idle"] /\ job' = [job EXCEPT ![c] = None]
  BY DEF GiveUp
<1> USE <1>1 DEF CInv
<1>2. ChatTypeOK'
  BY DEF ChatTypeOK
<1>3. JobsMatchRows' /\ OneAtATime'
  <2>1. \A d \in Conns \ {c} : job'[d] = job[d] /\ step'[d] = step[d]
    BY DEF ChatTypeOK
  <2>2. \A y \in Rows : job'[c] # <<"new", y>> /\ job'[c] # <<"gone", y>>
    <3>1. job'[c] = None
      BY DEF ChatTypeOK
    <3>2. \A y \in Rows : <<"new", y>> \in Events /\ <<"gone", y>> \in Events
      BY DEF Events
    <3> QED
      BY <3>1, <3>2, NoneIsNoEvent
  <2>3. JobsMatchRows'
    BY <2>1, <2>2 DEF JobsMatchRows
  <2>4. OneAtATime'
    BY <2>1, <2>2 DEF OneAtATime
  <2> QED
    BY <2>3, <2>4
<1>4. OwnMessages'
  BY NoneIsNoEvent DEF ChatTypeOK, OwnMessages, Events, Rows
<1>5. HeardIsSaved' /\ HeardOnce' /\ OneLivePerName'
  BY DEF HeardIsSaved, HeardOnce, OneLivePerName, NameTaken
<1>6. Untold'
  BY DEF ChatTypeOK, Untold
<1>7. ListedHaveHeard'
  BY AudienceStays, ChatAssumption DEF ChatTypeOK, ListedHaveHeard, EndsForGood
<1> QED
  BY <1>2, <1>3, <1>4, <1>5, <1>6, <1>7

-----------------------------------------------------------------------------
\* A statement takes effect: nobody has heard of the event, nobody tells of it yet, and
\* the handler goes on to tell or fails.
LEMMA PutStep ==
  ASSUME CInv, NEW c \in Conns, step[c] = "write",
         NEW k \in {"new", "gone"}, NEW x \in Rows, job[c] = <<k, x>>,
         k = "new" => Insertable(x) /\ Put(x, "live"),
         k = "gone" => row[x] = "live" /\ Put(x, "gone"),
         Succeed(c) \/ GiveUp(c),
         UNCHANGED <<left, heard, connected, pc, me>>
  PROVE  CInv'
<1> USE DEF CInv
<1> DEFINE e == <<k, x>>
<1>1. left[c] = {} /\ e \in Events /\ e # None
  BY DEF ChatTypeOK, Events
<1>2. /\ row \in [Rows -> {"none", "live", "gone"}]
      /\ k = "new" => row[x] = "none" /\ row' = [row EXCEPT ![x] = "live"]
      /\ k = "gone" => row[x] = "live" /\ row' = [row EXCEPT ![x] = "gone"]
  BY DEF ChatTypeOK, JobsMatchRows, Put
<1>3. /\ \A d \in Conns \ {c} : job'[d] = job[d] /\ step'[d] = step[d]
      /\ \/ job'[c] = e /\ step'[c] = "tell"
         \/ job'[c] = None /\ step'[c] = "idle"
  BY DEF ChatTypeOK, Succeed, GiveUp
<1>4. \A y \in Rows : None # <<"new", y>> /\ None # <<"gone", y>>
  <2>1. \A y \in Rows : <<"new", y>> \in Events /\ <<"gone", y>> \in Events
    BY DEF Events
  <2> QED
    BY <2>1, NoneIsNoEvent
<1>e. /\ job[c] = e
      /\ \A y \in Rows : e = <<"new", y>> <=> k = "new" /\ x = y
      /\ \A y \in Rows : e = <<"gone", y>> <=> k = "gone" /\ x = y
  <2>1. CASE k = "new"
    BY <2>1
  <2>2. CASE k = "gone"
    BY <2>2
  <2> QED
    BY <2>1, <2>2
<1> HIDE DEF e
<1>5. ChatTypeOK'
  <2>1. row' \in [Rows -> {"none", "live", "gone"}]
    BY <1>2
  <2>2. step' \in [Conns -> {"idle", "write", "tell", "telling"}]
        /\ job' \in [Conns -> Events \cup {None}]
    BY DEF ChatTypeOK, Succeed, GiveUp
  <2>3. \A d \in Conns : job'[d] = None <=> step'[d] = "idle"
    BY <1>1, <1>3 DEF ChatTypeOK
  <2>4. \A d \in Conns : left[d] # {} => step'[d] = "telling"
    BY <1>1, <1>3 DEF ChatTypeOK
  <2> QED
    BY <2>1, <2>2, <2>3, <2>4 DEF ChatTypeOK
<1>6. JobsMatchRows'
  <2>1. ASSUME NEW d \in Conns, d # c, NEW y \in Rows
        PROVE  /\ job[d] = <<"new", y>> => (step[d] = "write" <=> row'[y] = "none")
               /\ job[d] = <<"gone", y>> /\ step[d] # "write" => row'[y] = "gone"
    BY <1>2, <2>1 DEF JobsMatchRows, OneAtATime
  <2>2. ASSUME NEW y \in Rows
        PROVE  /\ job'[c] = <<"new", y>> => (step'[c] = "write" <=> row'[y] = "none")
               /\ job'[c] = <<"gone", y>> /\ step'[c] # "write" => row'[y] = "gone"
    <3>1. CASE job'[c] = None
      BY <3>1, <1>4
    <3>2. CASE job'[c] = e /\ step'[c] = "tell"
      <4>1. (k = "new" => row'[x] = "live") /\ (k = "gone" => row'[x] = "gone")
        BY <1>2
      <4> QED
        BY <3>2, <4>1, <1>e
    <3> QED
      BY <1>3, <3>1, <3>2
  <2> QED
    BY <1>3, <2>1, <2>2 DEF JobsMatchRows
<1>7. \A d \in Conns \ {c} : step[d] # "write" => job[d] # e
  <2>1. CASE k = "new"
    BY <2>1, <1>e DEF OneAtATime
  <2>2. CASE k = "gone"
    BY <2>2, <1>2, <1>e DEF JobsMatchRows
  <2> QED
    BY <2>1, <2>2
<1>8. OneAtATime'
  <2>1. ASSUME NEW a \in Conns, NEW b \in Conns, NEW y \in Rows,
               job'[a] = <<"new", y>>, job'[b] = <<"new", y>>
        PROVE  a = b
    <3>1. job[a] = <<"new", y>> /\ job[b] = <<"new", y>>
      BY <1>3, <1>4, <1>e, <2>1
    <3> QED
      BY <3>1 DEF OneAtATime
  <2>2. ASSUME NEW a \in Conns, NEW b \in Conns, NEW y \in Rows,
               job'[a] = <<"gone", y>>, job'[b] = <<"gone", y>>,
               step'[a] # "write", step'[b] # "write"
        PROVE  a = b
    BY <1>3, <1>4, <1>7, <1>e, <2>2 DEF OneAtATime
  <2> QED
    BY <2>1, <2>2 DEF OneAtATime
<1>9. OwnMessages'
  BY <1>3, <1>4, <1>e DEF OwnMessages, Rows
<1>10. \A w \in Witnesses : heard[w][e] = 0
  <2>1. \A w \in Witnesses : heard[w][e] \in Nat
    BY <1>1 DEF ChatTypeOK
  <2>2. ASSUME k = "new", NEW w \in Witnesses PROVE heard[w][e] = 0
    <3>1. e = <<"new", x>>
      BY <1>e, <2>2
    <3>2. ~(heard[w][<<"new", x>>] > 0)
      BY <1>2, <2>2 DEF HeardIsSaved
    <3> QED
      BY <2>1, <3>1, <3>2
  <2>3. ASSUME k = "gone", NEW w \in Witnesses PROVE heard[w][e] = 0
    <3>1. e = <<"gone", x>>
      BY <1>e, <2>3
    <3>2. ~(heard[w][<<"gone", x>>] > 0)
      BY <1>2, <2>3 DEF HeardIsSaved
    <3> QED
      BY <2>1, <3>1, <3>2
  <2> QED
    BY <2>2, <2>3
<1>11. Untold'
  <2>1. ASSUME NEW d \in Conns, NEW w \in Witnesses, step'[d] = "tell"
        PROVE  heard[w][job'[d]] = 0
    BY <1>3, <1>10, <2>1 DEF Untold
  <2>2. ASSUME NEW d \in Conns, NEW w \in Witnesses, NEW u \in left[d], connected[u] = w
        PROVE  heard[w][job'[d]] = 0
    BY <1>1, <1>3, <2>2 DEF Untold
  <2> QED
    BY <2>1, <2>2 DEF Untold
<1>12. HeardIsSaved' /\ HeardOnce'
  BY <1>2 DEF HeardIsSaved, HeardOnce
<1>13. ListedHaveHeard'
  <2> SUFFICES ASSUME NEW d \in Conns, step'[d] = "telling",
                      NEW u \in Audience(d)' \ left[d], connected[u] \in Witnesses,
                      ~Ended(connected[u])
               PROVE  heard[connected[u]][job'[d]] > 0
    BY DEF ListedHaveHeard, Ended
  <2>1. d # c /\ job'[d] = job[d] /\ step[d] = "telling" /\ Audience(d)' = Audience(d)
    BY <1>3, AudienceStays
  <2> QED
    BY <2>1 DEF ListedHaveHeard
<1>14. OneLivePerName'
  BY <1>2 DEF OneLivePerName, NameTaken, Insertable, Rows
<1> QED
  BY <1>5, <1>6, <1>8, <1>9, <1>11, <1>12, <1>13, <1>14

\* The statements, with and without an effect, and the panic after one.
LEMMA StatementStep ==
  ASSUME CInv, EndsForGood, NEW c \in Conns,
         Insert(c) \/ SoftDelete(c) \/ CloseAllPanics(c)
  PROVE  CInv'
<1>1. PICK k \in {"new", "gone"}, x \in Rows : job[c] = <<k, x>>
  BY JobShape DEF Insert, SoftDelete, CloseAllPanics, CInv
<1>2. left[c] = {} /\ job[c][1] = k /\ job[c][2] = x /\ UNCHANGED <<left, heard, connected, me>>
  BY <1>1 DEF Insert, SoftDelete, CloseAllPanics, CInv, ChatTypeOK, Moderate, presenceVars, vars
<1>3. CASE GiveUp(c) /\ UNCHANGED row
  BY <1>2, <1>3, EndStep
<1>4. CASE Insert(c) /\ Insertable(x) /\ Put(x, "live") /\ (Succeed(c) \/ GiveUp(c))
  <2>1. step[c] = "write" /\ k = "new" /\ UNCHANGED pc
    BY <1>2, <1>4 DEF Insert, presenceVars, vars
  <2> QED
    BY <1>1, <1>2, <1>4, <2>1, PutStep
<1>5. CASE SoftDelete(c) /\ row[x] = "live" /\ Put(x, "gone") /\ (Succeed(c) \/ GiveUp(c))
  <2>1. step[c] = "write" /\ k = "gone" /\ UNCHANGED pc
    BY <1>2, <1>5 DEF SoftDelete, presenceVars, vars
  <2> QED
    BY <1>1, <1>2, <1>5, <2>1, PutStep
<1> QED
  BY <1>2, <1>3, <1>4, <1>5 DEF Insert, SoftDelete, CloseAllPanics

-----------------------------------------------------------------------------
\* A broadcast begins with everybody in its audience left.
LEMMA TellStep ==
  ASSUME CInv, NEW c \in Conns, Tell(c)
  PROVE  CInv'
<1> USE DEF CInv
<1>1. /\ step[c] = "tell" /\ step' = [step EXCEPT ![c] = "telling"]
      /\ left' = [left EXCEPT ![c] = Audience(c)]
      /\ UNCHANGED <<row, job, heard, connected, pc, me>>
  BY DEF Tell, presenceVars, vars
<1>2. Audience(c) \subseteq UserIds
  BY DEF Audience, Listed
<1>3. ChatTypeOK'
  BY <1>1, <1>2 DEF ChatTypeOK
<1>4. JobsMatchRows' /\ OneAtATime' /\ OwnMessages'
  BY <1>1 DEF ChatTypeOK, JobsMatchRows, OneAtATime, OwnMessages
<1>5. Untold'
  BY <1>1 DEF ChatTypeOK, Untold
<1>6. HeardIsSaved' /\ HeardOnce' /\ OneLivePerName'
  BY <1>1 DEF HeardIsSaved, HeardOnce, OneLivePerName, NameTaken
<1>7. ListedHaveHeard'
  BY <1>1, AudienceStays DEF ChatTypeOK, ListedHaveHeard, Ended
<1> QED
  BY <1>3, <1>4, <1>5, <1>6, <1>7

\* No two handlers tell of one event.
LEMMA OneTeller ==
  ASSUME CInv, NEW c \in Conns, NEW d \in Conns, job[c] = job[d],
         step[c] \in {"tell", "telling"}, step[d] \in {"tell", "telling"}
  PROVE  c = d
<1>1. PICK x \in Rows : job[c] = <<"new", x>> \/ job[c] = <<"gone", x>>
  BY JobShape DEF CInv
<1> QED
  BY <1>1 DEF CInv, OneAtATime

\* A write of a broadcast is the first that its receiver gets of the event.
LEMMA DeliverStep ==
  ASSUME CInv, ByLogin, NEW c \in Conns, NEW u \in UserIds, Deliver(c, u)
  PROVE  CInv'
<1> USE DEF CInv
<1> DEFINE e == job[c]
           to == connected[u]
<1>1. /\ u \in left[c] /\ left' = [left EXCEPT ![c] = @ \ {u}]
      /\ UNCHANGED <<row, step, job, connected, pc, me>>
      /\ step[c] = "telling" /\ e \in Events
  BY NoneIsNoEvent DEF Deliver, presenceVars, vars, ChatTypeOK
<1>2. /\ heard' \in [Witnesses -> [Events -> Nat]]
      /\ \A w \in Witnesses, f \in Events :
           heard'[w][f] = IF w = to /\ f = e /\ ~At(to, "panicked")
                            THEN heard[w][f] + 1 ELSE heard[w][f]
  BY <1>1 DEF Deliver, ChatTypeOK
<1>3. to \in Witnesses => heard[to][e] = 0
  BY <1>1 DEF Untold
<1>4. ChatTypeOK'
  BY <1>1, <1>2 DEF ChatTypeOK
<1>5. JobsMatchRows' /\ OneAtATime' /\ OwnMessages' /\ OneLivePerName'
  BY <1>1 DEF JobsMatchRows, OneAtATime, OwnMessages, OneLivePerName, NameTaken
<1>6. HeardIsSaved'
  <2>1. \A x \in Rows : /\ e = <<"new", x>> => row[x] # "none"
                        /\ e = <<"gone", x>> => row[x] = "gone"
    BY <1>1 DEF JobsMatchRows
  <2>2. \A x \in Rows : <<"new", x>> \in Events /\ <<"gone", x>> \in Events
    BY DEF Events
  <2>3. \A w \in Witnesses, f \in Events : heard'[w][f] > 0 => heard[w][f] > 0 \/ f = e
    BY <1>2
  <2> QED
    BY <1>1, <2>1, <2>2, <2>3 DEF HeardIsSaved
<1>7. HeardOnce'
  BY <1>2, <1>3 DEF HeardOnce
<1>8. Untold'
  <2>1. ASSUME NEW d \in Conns, NEW w \in Witnesses, step[d] = "tell"
        PROVE  heard'[w][job[d]] = 0
    <3>1. job[d] \in Events /\ job[d] # e
      BY <1>1, <2>1, OneTeller, NoneIsNoEvent DEF ChatTypeOK
    <3> QED
      BY <1>2, <2>1, <3>1 DEF Untold
  <2>2. ASSUME NEW d \in Conns, NEW w \in Witnesses, NEW v \in left'[d], connected[v] = w
        PROVE  heard'[w][job[d]] = 0
    <3>1. v \in left[d] /\ v \in UserIds /\ (d = c => v # u)
      BY <1>1 DEF ChatTypeOK
    <3>2. step[d] = "telling" /\ job[d] \in Events /\ heard[w][job[d]] = 0
      BY <2>2, <3>1, NoneIsNoEvent DEF ChatTypeOK, Untold
    <3>3. ~(w = to /\ job[d] = e)
      BY <1>1, <2>2, <3>1, <3>2, OneTeller, WitnessOfOne
    <3> QED
      BY <1>2, <3>2, <3>3
  <2> QED
    BY <1>1, <2>1, <2>2 DEF Untold
<1>9. ListedHaveHeard'
  <2> SUFFICES ASSUME NEW d \in Conns, step[d] = "telling",
                      NEW v \in Audience(d) \ left'[d], connected[v] \in Witnesses,
                      ~Ended(connected[v])
               PROVE  heard'[connected[v]][job[d]] > 0
    BY <1>1, AudienceStays DEF ListedHaveHeard, Ended
  <2>1. job[d] \in Events
    BY NoneIsNoEvent DEF ChatTypeOK
  <2>2. CASE v = u /\ d = c
    BY <1>2, <1>3, <2>1, <2>2 DEF Ended, At
  <2>3. CASE ~(v = u /\ d = c)
    <3>1. v \notin left[d]
      BY <1>1, <2>3 DEF ChatTypeOK
    <3>2. heard[connected[v]][job[d]] > 0 /\ heard[connected[v]][job[d]] \in Nat
      BY <2>1, <3>1 DEF ListedHaveHeard, ChatTypeOK
    <3> QED
      BY <1>2, <2>1, <3>2
  <2> QED
    BY <2>2, <2>3
<1> QED
  BY <1>4, <1>5, <1>6, <1>7, <1>8, <1>9

-----------------------------------------------------------------------------
\* Every step preserves the inductive invariant, and is one of Presence or none to it.
LEMMA ChatStep == CIInv /\ [ChatNext]_allVars => CIInv' /\ [Next]_presenceVars
<1> SUFFICES ASSUME CIInv, [ChatNext]_allVars
             PROVE  CIInv' /\ [Next]_presenceVars
  OBVIOUS
<1> USE DEF CIInv
<1>1. [Next]_presenceVars
  <2>1. ASSUME NEW c \in Conns, Attend(c) PROVE Next
    BY <2>1 DEF Attend, Registers, Unregisters, Next
  <2>2. ASSUME NEW c \in Conns, CloseAllPanics(c) PROVE Next
    BY <2>2 DEF CloseAllPanics, Next
  <2>3. CASE Admit
    BY <2>3 DEF Admit, Next
  <2>4. CASE UNCHANGED presenceVars
    BY <2>4
  <2> QED
    BY <2>1, <2>2, <2>3, <2>4
    DEF ChatNext, allVars, presenceVars, vars, Post, Manage, Broadcast, TextMessage,
        DeleteMessage, CreateChannel, DeleteChannel, Begin, Insert, SoftDelete, Tell,
        Deliver, Told
<1>2. IInv' /\ ByLogin' /\ EndsForGood
  BY <1>1, PresenceKeepsLogins, NoStepReopens DEF IInv
<1>3. CInv'
  <2>1. CASE (\E c \in Conns : Attend(c)) \/ Admit
    BY <1>2, <2>1, AttendStep
  <2>2. ASSUME NEW c \in Conns, NEW m \in Messages, TextMessage(c, m) PROVE CInv'
    <3>1. m[1] = c /\ row[m] = "none" /\ Idle(c) /\ Begin(c, <<"new", m>>) /\ m \in Rows
      BY <2>2 DEF TextMessage, Ready, Rows
    <3>2. \A d \in Conns : job[d] # <<"new", m>>
      BY <3>1, NoneIsNoEvent DEF CInv, OwnMessages, ChatTypeOK, Idle, Events
    <3> QED
      BY <3>1, <3>2, BeginStep
  <2>3. ASSUME NEW c \in Conns, NEW m \in Messages, DeleteMessage(c, m) PROVE CInv'
    BY <2>3, BeginStep DEF DeleteMessage, Ready, Rows
  <2>4. ASSUME NEW c \in Conns, NEW ch \in Channels, CreateChannel(c, ch) PROVE CInv'
    BY <2>4, BeginStep, ChannelsAreNoMessages DEF CreateChannel, Ready, Rows
  <2>5. ASSUME NEW c \in Conns, NEW ch \in Channels, DeleteChannel(c, ch) PROVE CInv'
    BY <2>5, BeginStep DEF DeleteChannel, Ready, Rows
  <2>6. ASSUME NEW c \in Conns, Insert(c) \/ SoftDelete(c) \/ CloseAllPanics(c) PROVE CInv'
    BY <1>2, <2>6, StatementStep
  <2>7. ASSUME NEW c \in Conns, Tell(c) PROVE CInv'
    BY <2>7, TellStep
  <2>8. ASSUME NEW c \in Conns, NEW u \in UserIds, Deliver(c, u) PROVE CInv'
    BY <2>8, DeliverStep
  <2>9. ASSUME NEW c \in Conns, Told(c) PROVE CInv'
    BY <1>2, <2>9, EndStep DEF Told, presenceVars, vars
  <2>10. CASE UNCHANGED allVars
    BY <2>10
    DEF allVars, chatVars, presenceVars, vars, CInv, ChatTypeOK, JobsMatchRows, OneAtATime,
        OwnMessages, Untold, HeardIsSaved, HeardOnce, ListedHaveHeard, Audience, Listed,
        Ended, OneLivePerName, NameTaken
  <2> QED
    BY <2>1, <2>2, <2>3, <2>4, <2>5, <2>6, <2>7, <2>8, <2>9, <2>10
    DEF ChatNext, Post, Manage, Broadcast
<1> QED
  BY <1>1, <1>2, <1>3

\* The inductive invariant holds in every reachable state of every instance.
THEOREM ChatInvariant == ChatSpec => []CIInv
  BY ChatInitially, ChatStep, PTL DEF ChatSpec

\* Chat goes through the steps of Presence: what holds there of who is listed and who
\* has left holds among messages, channels and broadcasts, too.
THEOREM ChatIsPresence == ChatSpec => Spec
<1>1. ChatInit => Init
  BY DEF ChatInit
<1>2. CIInv /\ [ChatNext]_allVars => [Next]_vars
  BY ChatStep DEF presenceVars
<1> QED
  BY <1>1, <1>2, ChatInvariant, PTL DEF ChatSpec, Spec

\* Every variable of Chat keeps its type.
THEOREM ChatTypeCorrect == ChatSpec => []ChatTypeOK
  BY ChatInvariant, PTL DEF CIInv, CInv

\* For any number of posts, deletions, faults and connections: a client is told of what
\* was saved, and of what is gone for good.
THEOREM ClientsHearTheTruth == ChatSpec => []HeardIsSaved
  BY ChatInvariant, PTL DEF CIInv, CInv

\* For any number of owners' connections: nobody is told of one thing twice.
THEOREM ClientsHearOnce == ChatSpec => []HeardOnce
  BY ChatInvariant, PTL DEF CIInv, CInv

\* For any number of create-channels that overlap: live channels differ.
THEOREM LiveChannelsDiffer == ChatSpec => []OneLivePerName
  BY ChatInvariant, PTL DEF CIInv, CInv

\* For any number of broadcasts under way: who is listed has heard or is about to.
THEOREM BroadcastsReachTheListed == ChatSpec => []ListedHaveHeard
  BY ChatInvariant, PTL DEF CIInv, CInv

\* For any number of connections: none is written to after its handler has ended.
THEOREM ClosedHearNothing == ChatSpec => NoLateDelivery
<1>1. ASSUME CIInv, [ChatNext]_allVars, NEW w \in Witnesses, Ended(w)
      PROVE  heard'[w] = heard[w]
  <2>1. ASSUME NEW c \in Conns, NEW u \in UserIds, Deliver(c, u)
        PROVE  heard'[w] = heard[w]
    <3>1. connected[u] = w => At(w, "panicked")
      BY <1>1, PresenceAssumption, ChatAssumption
      DEF CIInv, ByLogin, IInv, OnlineHasConnection
    <3> QED
      BY <2>1, <3>1 DEF Deliver, CIInv, CInv, ChatTypeOK
  <2>2. CASE UNCHANGED heard
    BY <2>2
  <2> QED
    BY <1>1, <2>1, <2>2
    DEF ChatNext, allVars, Attend, Admit, chatVars, Post, Manage, Broadcast, TextMessage,
        DeleteMessage, CreateChannel, DeleteChannel, Begin, Insert, SoftDelete,
        CloseAllPanics, Tell, Told
<1>2. CIInv /\ [ChatNext]_allVars => [ClosedHearsNothing]_allVars
  BY <1>1 DEF ClosedHearsNothing
<1> QED
  BY <1>2, ChatInvariant, PTL DEF ChatSpec, NoLateDelivery

-----------------------------------------------------------------------------
(* The promise of Feed, kept step by step. *)
Closed == {c \in Witnesses : Ended(c)}

\* Handlers of Presence close a connection at most, and once.
LEMMA AttendingCloses ==
  ASSUME TypeOK, NEW c \in Conns, Attend(c) \/ Moderate(c)
  PROVE  Closed' = Closed \/ (c \in Witnesses /\ Closed' = Closed \cup {c})
<1> USE DEF At, Goto, Ended
<1>1. pc[c] \notin {"closed", "panicked"}
  BY DEF Attend, Auth, Refuse, JoinServer, Disconnect, Registers, Unregisters, Moderate,
         AddConnectedUser, RemoveConnectedUser, KickServer
<1>2. pc' = [pc EXCEPT ![c] = pc'[c]]
  BY TypeOK DEF TypeOK, Attend, Auth, Refuse, JoinServer, Disconnect, Registers, Unregisters, Moderate,
         AddConnectedUser, RemoveConnectedUser, KickServer
<1> QED
  BY <1>1, <1>2, ChatAssumption DEF Closed, TypeOK

\* A statement that takes effect is the saving or the removal of its row.
LEMMA StatementsSaveOrRemove ==
  ASSUME CIInv, NEW c \in Conns, Insert(c) \/ SoftDelete(c)
  PROVE  \/ UNCHANGED row
         \/ \E x \in Rows : Promise!Save(x) \/ Promise!Remove(x)
<1>1. UNCHANGED <<heard, presenceVars>> /\ Closed' = Closed
  BY DEF Insert, SoftDelete, presenceVars, vars, Closed, Ended
<1>2. CASE Insert(c)
  <2>1. PICK x \in Rows : job[c] = <<"new", x>>
    BY <1>2, JobShape DEF CIInv, CInv, Insert
  <2>2. row[x] = "none"
    BY <1>2, <2>1 DEF CIInv, CInv, JobsMatchRows, Insert
  <2>3. CASE Insertable(x) /\ Put(x, "live")
    <3>1. \A other \in RivalsOf(x) : row[other] # "live"
      BY <2>3 DEF Insertable, NameTaken, RivalsOf
    <3> QED
      BY <1>1, <2>2, <2>3, <3>1 DEF Put, Promise!Save, Closed
  <2> QED
    BY <1>2, <2>1, <2>3 DEF Insert
<1>3. CASE SoftDelete(c)
  <2>1. PICK x \in Rows : job[c] = <<"gone", x>>
    BY <1>3, JobShape DEF CIInv, CInv, SoftDelete
  <2>2. CASE row[x] = "live" /\ Put(x, "gone")
    BY <1>1, <2>2 DEF Put, Promise!Remove, Closed
  <2> QED
    BY <1>3, <2>1, <2>2 DEF SoftDelete
<1> QED
  BY <1>2, <1>3

\* A write to a witness tells it something true, for the first time, while it is open.
LEMMA DeliveriesTell ==
  ASSUME CIInv, NEW c \in Conns, NEW u \in UserIds, Deliver(c, u)
  PROVE  \/ UNCHANGED heard
         \/ \E w \in Witnesses, x \in Rows, what \in {"new", "gone"} : Promise!Tell(w, x, what)
<1> USE DEF CIInv, CInv, ChatTypeOK
<1>1. step[c] = "telling" /\ UNCHANGED <<row, presenceVars>> /\ Closed' = Closed
  BY DEF Deliver, presenceVars, vars, Closed, Ended
<1>2. PICK x \in Rows, what \in {"new", "gone"} : job[c] = <<what, x>>
  BY <1>1, JobShape
<1>3. CASE connected[u] \notin Witnesses
  BY <1>3 DEF Deliver
<1>4. CASE connected[u] \in Witnesses /\ At(connected[u], "panicked")
  BY <1>4 DEF Deliver
<1>5. CASE connected[u] \in Witnesses /\ ~At(connected[u], "panicked")
  <2> DEFINE w == connected[u]
  <2>1. heard[w][<<what, x>>] = 0
    BY <1>2, <1>5 DEF Deliver, Untold
  <2>2. row[x] \in (IF what = "new" THEN {"live", "gone"} ELSE {"gone"})
    BY <1>1, <1>2 DEF JobsMatchRows
  <2>3. w \notin Closed
    <3>1. w # None /\ LoginAs[w] = {u}
      BY <1>5, PresenceAssumption, ChatAssumption DEF ByLogin
    <3> QED
      BY <1>5, <3>1 DEF IInv, OnlineHasConnection, Closed
  <2>4. heard' = [heard EXCEPT ![w] = [heard[w] EXCEPT ![<<what, x>>] = 1]]
    <3>1. heard' = [v \in Witnesses |->
                     IF v = w THEN [heard[v] EXCEPT ![<<what, x>>] = @ + 1] ELSE heard[v]]
      BY <1>2, <1>5 DEF Deliver
    <3>2. [heard[w] EXCEPT ![<<what, x>>] = @ + 1] = [heard[w] EXCEPT ![<<what, x>>] = 1]
      BY <2>1
    <3> QED
      BY <1>5, <3>1, <3>2
  <2> QED
    BY <1>1, <1>5, <2>1, <2>2, <2>3, <2>4 DEF Promise!Tell, Closed
<1> QED
  BY <1>3, <1>4, <1>5

\* Every step of Chat is one of the feed, or nothing to it.
LEMMA FeedStep == CIInv /\ [ChatNext]_allVars => [Promise!Next]_(Promise!vars)
<1> SUFFICES ASSUME CIInv, [ChatNext]_allVars
             PROVE  [Promise!Next]_<<row, heard, Closed>>
  BY DEF Promise!vars, Closed
<1>0. TypeOK
  BY DEF CIInv, IInv
<1>1. ASSUME NEW c \in Conns, Attend(c) \/ CloseAllPanics(c)
      PROVE  [Promise!Next]_<<row, heard, Closed>>
  <2>1. UNCHANGED <<row, heard>> /\ (Attend(c) \/ Moderate(c))
    BY <1>1 DEF Attend, CloseAllPanics, chatVars
  <2>2. c \in Witnesses /\ Closed' = Closed \cup {c} => Promise!Close(c)
    BY <2>1 DEF Promise!Close, Closed
  <2> QED
    BY <1>0, <2>1, <2>2, AttendingCloses DEF Promise!Next
<1>2. ASSUME NEW c \in Conns, Insert(c) \/ SoftDelete(c)
      PROVE  [Promise!Next]_<<row, heard, Closed>>
  <2>1. UNCHANGED heard /\ Closed' = Closed
    BY <1>2 DEF Insert, SoftDelete, presenceVars, vars, Closed, Ended
  <2> QED
    BY <1>2, <2>1, StatementsSaveOrRemove DEF Promise!Next
<1>3. ASSUME NEW c \in Conns, NEW u \in UserIds, Deliver(c, u)
      PROVE  [Promise!Next]_<<row, heard, Closed>>
  <2>1. UNCHANGED row /\ Closed' = Closed
    BY <1>3 DEF Deliver, presenceVars, vars, Closed, Ended
  <2> QED
    BY <1>3, <2>1, DeliveriesTell DEF Promise!Next
<1>4. CASE UNCHANGED <<row, heard, presenceVars>>
  BY <1>4 DEF presenceVars, vars, Closed, Ended
<1>5. CASE Admit
  BY <1>5 DEF Admit, AddMember, chatVars, Closed, Ended
<1> QED
  BY <1>1, <1>2, <1>3, <1>4, <1>5
  DEF ChatNext, allVars, chatVars, presenceVars, vars, Post, Manage, Broadcast, TextMessage,
      DeleteMessage, CreateChannel, DeleteChannel, Begin, Tell, Told

\* Handlers and broadcasts implement the feed, for any number of connections, messages and
\* channels, with and without failing statements.
THEOREM ChatIsAFeed == ChatSpec => FeedSpec
<1>1. ChatInit => Promise!Init
  BY ChatAssumption DEF ChatInit, Init, Events, Promise!Init, Ended
<1> QED
  BY <1>1, FeedStep, ChatInvariant, PTL DEF ChatSpec, FeedSpec, Promise!Spec
=============================================================================
