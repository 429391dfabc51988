-------------------------------- MODULE Voice --------------------------------
(***************************************************************************)
(* Voice channels: one goroutine per websocket connection runs its read    *)
(* loop and handlers, pion runs a goroutine per change of state of a peer  *)
(* connection, and they share the registry of voice channels and the       *)
(* roster of each.  Every critical section is a step; whatever a handler   *)
(* does between two of them happens while the others run.                  *)
(*                                                                         *)
(* A voice user, the user.User that join-voice allocates, is <<c, k>>: the *)
(* k-th join of connection c.  The user.User of an authentication has no   *)
(* media and no voice channel, like a voice user after leaveVoice, so      *)
(* cur[c] = 0 stands for both.  A channel is deleted at most once, so it   *)
(* has at most two VoiceChannel values: <<ch, 1>>, and <<ch, 2>> when it   *)
(* is asked for again.  Memberships and ConnectedUsers are in Presence.    *)
(*                                                                         *)
(* A write to a client that does not read has no deadline.  Within a       *)
(* Broadcast it holds the lock of the roster, and is a state of its own;   *)
(* a write to one client returns within a step that is not fair.           *)
(***************************************************************************)
EXTENDS Naturals

CONSTANTS
  Conns,       \* authenticated websocket connections
  UserIds,     \* accounts
  Owner,       \* the account in servers.owner_id
  Account,     \* the account a connection logs in as
  Channels,    \* ids of voice channels
  NoName,      \* the empty id, which join-voice does not refuse
  Stopped,     \* connections whose client may have stopped reading
  MaxJoins,    \* bound: how many join-voice messages each connection sends
  None

Objs == UNION {{c} \X (1..MaxJoins[c]) : c \in Conns}
VCs == Channels \X {1, 2}

ASSUME VoiceAssumption ==
  /\ Account \in [Conns -> UserIds]
  /\ MaxJoins \in [Conns -> Nat]
  /\ None \notin Objs \cup VCs \cup UserIds

VARIABLES
  \* shared
  deleted,      \* channels with deleted_at set
  registered,   \* channels with an entry in Server.VoiceChannels
  made,         \* how many VoiceChannel values a channel has had
  roster,       \* VoiceChannel.Users: user id to voice user, None when absent
  \* connections
  pc,
  cur,          \* s.user: the number of its join, 0 when it has no media
  joins,        \* join-voice messages so far
  at,           \* the VoiceChannel a handler holds a pointer to
  ending,       \* connections whose read failed in voice
  target,       \* the account a kick is about
  sweep,        \* VoiceChannels a kick has yet to look at
  closing,      \* voice users CloseAll has yet to close
  victim,       \* the voice user a handler is about to close
  \* voice users
  home,         \* the VoiceChannel its join captured
  media,        \* Media # nil
  rtc,          \* the peer connection
  callback,     \* its state change handler: "idle", "due" once pion has started it,
                \* about to "tell" the others, "stuck" at that, about to "hangup"
  relaying,     \* those whose ForwardTrack is stuck in a write
  \* history
  announced,    \* how often a broadcast of its departure began
  replaced      \* voice users that a later join of their account displaced

registry == <<deleted, registered, made>>
session == <<cur, joins>>
kick == <<target, sweep, closing, victim>>
conns == <<pc, session, at, ending, kick>>
peers == <<home, media, rtc, callback, relaying>>
history == <<announced, replaced>>
vars == <<registry, roster, conns, peers, history>>

Handling == {"enter", "remove", "close", "kick", "kickClose", "sweep", "sweepClose",
             "closeAll", "closing", "closeOne", "stuck"}

TypeOK ==
  /\ deleted \subseteq Channels /\ registered \subseteq Channels
  /\ made \in [Channels -> 0..2]
  /\ roster \in [VCs -> [UserIds -> Objs \cup {None}]]
  /\ pc \in [Conns -> {"ready", "closed", "panicked"} \cup Handling]
  /\ cur \in [Conns -> Nat] /\ joins \in [Conns -> Nat]
  /\ \A c \in Conns : cur[c] <= joins[c] /\ joins[c] <= MaxJoins[c]
  /\ at \in [Conns -> VCs \cup {None}]
  /\ ending \subseteq Conns
  /\ target \in [Conns -> UserIds \cup {None}]
  /\ sweep \in [Conns -> SUBSET VCs]
  /\ closing \in [Conns -> SUBSET Objs]
  /\ victim \in [Conns -> Objs \cup {None}]
  /\ home \in [Objs -> VCs \cup {None}]
  /\ media \in [Objs -> BOOLEAN]
  /\ rtc \in [Objs -> {"none", "new", "live", "down", "closed"}]
  /\ callback \in [Objs -> {"idle", "due", "tell", "stuck", "hangup"}]
  /\ relaying \subseteq Objs
  /\ announced \in [Objs -> Nat]
  /\ replaced \subseteq Objs

Init ==
  /\ deleted = {} /\ registered = {}
  /\ made = [ch \in Channels |-> 0]
  /\ roster = [vc \in VCs |-> [u \in UserIds |-> None]]
  /\ pc = [c \in Conns |-> "ready"]
  /\ cur = [c \in Conns |-> 0] /\ joins = [c \in Conns |-> 0]
  /\ at = [c \in Conns |-> None]
  /\ ending = {}
  /\ target = [c \in Conns |-> None]
  /\ sweep = [c \in Conns |-> {}]
  /\ closing = [c \in Conns |-> {}]
  /\ victim = [c \in Conns |-> None]
  /\ home = [o \in Objs |-> None]
  /\ media = [o \in Objs |-> FALSE]
  /\ rtc = [o \in Objs |-> "none"]
  /\ callback = [o \in Objs |-> "idle"]
  /\ relaying = {}
  /\ announced = [o \in Objs |-> 0]
  /\ replaced = {}

-----------------------------------------------------------------------------
At(c, here) == pc[c] = here
Goto(c, there) == pc' = [pc EXCEPT ![c] = there]

Voice(c) == <<c, cur[c]>>          \* s.user, while it has media
HasMedia(c) == cur[c] # 0
InVoice(c) == HasMedia(c) /\ home[Voice(c)][1] # NoName
Id(o) == Account[o[1]]
Listed(o) == home[o] # None /\ roster[home[o]][Id(o)] = o
Open(o) == rtc[o] \in {"new", "live"}

\* Whom Broadcast(vc, u) writes to, and whether one of them may not read.
Receivers(vc, u) == {roster[vc][v] : v \in UserIds \ {u}} \ {None}
MayStall(vc, u) == \E o \in Receivers(vc, u) : o[1] \in Stopped

\* A write within a Broadcast or a ForwardTrack holds the lock of vc for reading.
Held(vc) ==
  \/ \E c \in Conns : At(c, "stuck") /\ at[c] = vc
  \/ \E o \in Objs : home[o] = vc /\ (callback[o] = "stuck" \/ o \in relaying)

\* KickUserFromAllVoice holds the server's lock for reading during the sweep.
RegistryFree == \A c \in Conns : pc[c] \notin {"sweep", "sweepClose"}

\* GetOrCreateVoiceChannel(ch): the registered value, or a new one.
Got(ch) == <<ch, IF ch \in registered THEN made[ch] ELSE made[ch] + 1>>
GetOrCreate(ch) ==
  /\ RegistryFree
  /\ registered' = registered \cup {ch}
  /\ made' = [made EXCEPT ![ch] = Got(ch)[2]]
  /\ UNCHANGED deleted

RemoveUser(vc, o) == roster' = [roster EXCEPT ![vc][Id(o)] = None]

\* RemoveUserIf: only the very user.User that is listed is removed.
RemoveUserIf(vc, o) ==
  roster' = [roster EXCEPT ![vc][Id(o)] = IF @ = o THEN None ELSE @]

RemovesAlways(vc, o) == TRUE

\* What it returns, which decides about voice-leave.
Removes(vc, o) == roster[vc][Id(o)] = o

\* Closing an open peer connection starts its handler with state Closed; pion
\* starts none for one that is closed already.  Beside one that has not finished a
\* second finds nothing to do: the voice user is off the roster by then.
Started(o) == IF rtc[o] # "closed" /\ callback[o] = "idle" THEN "due" ELSE callback[o]
CloseRtc(o) ==
  /\ rtc' = [rtc EXCEPT ![o] = "closed"]
  /\ callback' = [callback EXCEPT ![o] = Started(o)]

-----------------------------------------------------------------------------
(* auth, join-voice, answer, voice-state *)

\* A session that authenticates again gets a new user.User and forgets its voice
\* user, which stays listed.
Auth(c) ==
  /\ At(c, "ready") /\ HasMedia(c)
  /\ cur' = [cur EXCEPT ![c] = 0]
  /\ UNCHANGED <<registry, roster, pc, joins, at, ending, kick, peers, history>>

\* A join allocates a voice user and finds its channel; it checks neither that the
\* channel exists nor whether the session is in voice already.
JoinVoice(c, ch) ==
  /\ At(c, "ready")
  /\ joins[c] < MaxJoins[c]
  /\ GetOrCreate(ch)
  /\ joins' = [joins EXCEPT ![c] = @ + 1]
  /\ LET o == <<c, joins[c] + 1>> IN
       /\ home' = [home EXCEPT ![o] = Got(ch)]
       /\ media' = [media EXCEPT ![o] = TRUE]
       /\ rtc' = [rtc EXCEPT ![o] = "new"]
  /\ Goto(c, "enter")
  /\ UNCHANGED <<roster, cur, at, ending, kick, callback, relaying, history>>

EnterVoiceLooksUpAgain(c) ==
  /\ At(c, "enter")
  /\ LET o == <<c, joins[c]>>
         vc == Got(home[o][1])
     IN /\ roster' = [roster EXCEPT ![vc][Id(o)] = o]
        /\ replaced' = replaced \cup ({roster[vc][Id(o)]} \ {None})
  /\ cur' = [cur EXCEPT ![c] = joins[c]]
  /\ Goto(c, "ready")
  /\ UNCHANGED <<registry, joins, at, ending, kick, peers, announced>>

\* The offer went out: the new voice user is listed, whoever was listed before it.
\* Otherwise the handler returns and leaves its peer connection open.
EnterVoice(c) ==
  /\ At(c, "enter")
  /\ LET o == <<c, joins[c]>>
         listed == roster[home[o]][Id(o)]
     IN \/ /\ ~Held(home[o])
           /\ roster' = [roster EXCEPT ![home[o]][Id(o)] = o]
           /\ cur' = [cur EXCEPT ![c] = joins[c]]
           /\ replaced' = replaced \cup ({listed} \ {None})
        \/ UNCHANGED <<roster, cur, replaced>>
  /\ Goto(c, "ready")
  /\ UNCHANGED <<registry, joins, at, ending, kick, peers, announced>>

\* The answer lets ICE start, and the peer connect.
Answer(c) ==
  /\ At(c, "ready") /\ HasMedia(c)
  /\ rtc[Voice(c)] = "new"
  /\ rtc' = [rtc EXCEPT ![Voice(c)] = "live"]
  /\ UNCHANGED <<registry, roster, conns, home, media, callback, relaying, history>>

\* The handler goes on after a Broadcast to vc about u, or gets stuck in it.
Broadcast(c, vc, u, there) ==
  \/ Goto(c, there) /\ at' = [at EXCEPT ![c] = None]
  \/ MayStall(vc, u) /\ Goto(c, "stuck") /\ at' = [at EXCEPT ![c] = vc]

\* The lookup of handleVoiceState brings back the entry of a channel that was deleted.
VoiceState(c) ==
  /\ At(c, "ready") /\ InVoice(c)
  /\ LET ch == home[Voice(c)][1] IN
       GetOrCreate(ch) /\ Broadcast(c, Got(ch), Account[c], "ready")
  /\ UNCHANGED <<roster, session, ending, kick, peers, history>>

\* The client reads again, or its connection is found to be broken.
Resume(c) ==
  /\ At(c, "stuck")
  /\ at' = [at EXCEPT ![c] = None]
  /\ Goto(c, IF c \in ending THEN "closed" ELSE "ready")
  /\ UNCHANGED <<registry, roster, session, ending, kick, peers, history>>

-----------------------------------------------------------------------------
(* leaveVoice, for leave-voice and for handleDisconnect *)

LeaveVoiceNilsFirst(c) ==
  /\ At(c, "ready") /\ InVoice(c)
  /\ GetOrCreate(home[Voice(c)][1])
  /\ at' = [at EXCEPT ![c] = Got(home[Voice(c)][1])]
  /\ media' = [media EXCEPT ![Voice(c)] = FALSE]
  /\ ending' \in {ending, ending \cup {c}}
  /\ Goto(c, "remove")
  /\ UNCHANGED <<roster, session, kick, home, rtc, callback, relaying, history>>

\* The message leave-voice, or the read that fails while the session is in voice.
LeaveVoice(c) ==
  /\ At(c, "ready") /\ InVoice(c)
  /\ GetOrCreate(home[Voice(c)][1])
  /\ at' = [at EXCEPT ![c] = Got(home[Voice(c)][1])]
  /\ ending' \in {ending, ending \cup {c}}
  /\ Goto(c, "remove")
  /\ UNCHANGED <<roster, session, kick, peers, history>>

LeaveRoster(c) ==
  /\ At(c, "remove") /\ ~Held(at[c])
  /\ RemoveUserIf(at[c], Voice(c))
  /\ at' = [at EXCEPT ![c] = IF Removes(@, Voice(c)) THEN @ ELSE None]
  /\ Goto(c, "close")
  /\ UNCHANGED <<registry, session, ending, kick, peers, history>>

\* VoiceChannelID = "", Media.Close(), Media = nil, and voice-leave to the channel it
\* was removed from.
CloseMedia(c) ==
  /\ At(c, "close")
  /\ CloseRtc(Voice(c))
  /\ media' = [media EXCEPT ![Voice(c)] = FALSE]
  /\ cur' = [cur EXCEPT ![c] = 0]
  /\ announced' = [announced EXCEPT ![Voice(c)] = IF at[c] # None THEN @ + 1 ELSE @]
  /\ LET there == IF c \in ending THEN "closed" ELSE "ready" IN
       \/ at[c] = None /\ Goto(c, there) /\ UNCHANGED at
       \/ at[c] # None /\ Broadcast(c, at[c], Account[c], there)
  /\ UNCHANGED <<registry, roster, joins, ending, kick, home, relaying, replaced>>

\* The read fails outside voice.
Disconnect(c) ==
  /\ At(c, "ready") /\ ~InVoice(c)
  /\ Goto(c, "closed")
  /\ UNCHANGED <<registry, roster, session, at, ending, kick, peers, history>>

-----------------------------------------------------------------------------
(* kick-voice and kick-server *)

KickVoice(c, ch, u) ==
  /\ At(c, "ready") /\ Account[c] = Owner
  /\ GetOrCreate(ch)
  /\ target' = [target EXCEPT ![c] = u]
  /\ sweep' = [sweep EXCEPT ![c] = {Got(ch)}]
  /\ Goto(c, "kick")
  /\ UNCHANGED <<roster, session, at, ending, closing, victim, peers, history>>

KickServer(c, u) ==
  /\ At(c, "ready") /\ Account[c] = Owner
  /\ target' = [target EXCEPT ![c] = u]
  /\ sweep' = [sweep EXCEPT ![c] = {<<ch, made[ch]>> : ch \in registered}]
  /\ Goto(c, "sweep")
  /\ UNCHANGED <<registry, roster, session, at, ending, closing, victim, peers, history>>

\* KickUser on the next channel: off the roster under its lock ...
KickUser(c) ==
  /\ pc[c] \in {"kick", "sweep"}
  /\ \E vc \in {w \in sweep[c] : ~Held(w)} :
       LET o == roster[vc][target[c]] IN
         /\ sweep' = [sweep EXCEPT ![c] = @ \ {vc}]
         /\ \/ o = None /\ UNCHANGED <<roster, victim, pc>>
            \/ /\ o # None
               /\ roster' = [roster EXCEPT ![vc][target[c]] = None]
               /\ victim' = [victim EXCEPT ![c] = o]
               /\ Goto(c, IF At(c, "kick") THEN "kickClose" ELSE "sweepClose")
  /\ UNCHANGED <<registry, session, at, ending, target, closing, peers, history>>

\* u.Media.Close(), after a write to its client in a kick: nil when the session left in
\* the meantime.  The handler then panics, and net/http recovers it without
\* handleDisconnect.
CloseVictim(c, there) ==
  /\ \/ media[victim[c]] /\ CloseRtc(victim[c]) /\ Goto(c, there)
     \/ ~media[victim[c]] /\ Goto(c, "panicked") /\ UNCHANGED <<rtc, callback>>
  /\ victim' = [victim EXCEPT ![c] = None]
  /\ UNCHANGED <<registry, roster, session, at, ending, target, sweep, closing, home,
                 media, relaying, history>>

\* ... and closed after it.
KickClose(c) ==
  \/ At(c, "kickClose") /\ CloseVictim(c, "kick")
  \/ At(c, "sweepClose") /\ CloseVictim(c, "sweep")


\* The last channel was looked at; a sweep releases the lock.
KickDone(c) ==
  /\ pc[c] \in {"kick", "sweep"} /\ sweep[c] = {}
  /\ target' = [target EXCEPT ![c] = None]
  /\ Goto(c, "ready")
  /\ UNCHANGED <<registry, roster, session, at, ending, sweep, closing, victim, peers,
                 history>>

-----------------------------------------------------------------------------
(* delete-channel *)

\* SoftDelete and RemoveVoiceChannel: no voice handler looks at deleted_at, so
\* nothing happens between them that could not happen before.  No row has the empty id.
DeleteChannel(c, ch) ==
  /\ At(c, "ready") /\ Account[c] = Owner
  /\ ch \notin deleted /\ ch # NoName
  /\ RegistryFree
  /\ deleted' = deleted \cup {ch}
  /\ registered' = registered \ {ch}
  /\ \/ ch \in registered /\ Goto(c, "closeAll") /\ at' = [at EXCEPT ![c] = Got(ch)]
     \/ ch \notin registered /\ UNCHANGED <<pc, at>>
  /\ UNCHANGED <<made, roster, session, ending, kick, peers, history>>

\* CloseAll: the roster is emptied under its lock ...
CloseAll(c) ==
  /\ At(c, "closeAll") /\ ~Held(at[c])
  /\ closing' = [closing EXCEPT ![c] = {roster[at[c]][u] : u \in UserIds} \ {None}]
  /\ roster' = [roster EXCEPT ![at[c]] = [u \in UserIds |-> None]]
  /\ at' = [at EXCEPT ![c] = None]
  /\ Goto(c, "closing")
  /\ UNCHANGED <<registry, session, ending, target, sweep, victim, peers, history>>

\* ... and whoever was on it is closed after it: if u.Media != nil, and then, in a
\* step of its own, Media.Close().
TestMedia(c) ==
  /\ At(c, "closing")
  /\ \E o \in closing[c] :
       /\ closing' = [closing EXCEPT ![c] = @ \ {o}]
       /\ \/ media[o] /\ victim' = [victim EXCEPT ![c] = o] /\ Goto(c, "closeOne")
          \/ ~media[o] /\ UNCHANGED <<victim, pc>>
  /\ UNCHANGED <<registry, roster, session, at, ending, target, sweep, peers, history>>

CloseOne(c) == At(c, "closeOne") /\ CloseVictim(c, "closing")

CloseDone(c) ==
  /\ At(c, "closing") /\ closing[c] = {}
  /\ Goto(c, "ready")
  /\ UNCHANGED <<registry, roster, session, at, ending, kick, peers, history>>

-----------------------------------------------------------------------------
(* pion *)

\* ICE reports Failed or Disconnected.
PeerDown(o) ==
  /\ rtc[o] = "live"
  /\ rtc' = [rtc EXCEPT ![o] = "down"]
  /\ callback' = [callback EXCEPT ![o] = Started(o)]
  /\ UNCHANGED <<registry, roster, conns, home, media, relaying, history>>

StateChangeIgnored(o) ==
  /\ callback[o] = "due"
  /\ callback' = [callback EXCEPT ![o] = "idle"]
  /\ UNCHANGED <<registry, roster, conns, home, media, rtc, relaying, history>>

StateChangeLooksUpAgain(o) ==
  /\ callback[o] = "due" /\ RegistryFree /\ ~Held(home[o])
  /\ RemoveUserIf(home[o], o)
  /\ callback' = [callback EXCEPT ![o] = IF Removes(home[o], o) THEN "tell" ELSE "hangup"]
  /\ UNCHANGED <<registry, conns, home, media, rtc, relaying, history>>

\* The handler that join-voice installed: off the roster of the captured channel,
StateChange(o) ==
  /\ callback[o] = "due" /\ ~Held(home[o])
  /\ RemoveUserIf(home[o], o)
  /\ callback' = [callback EXCEPT ![o] = IF Removes(home[o], o) THEN "tell" ELSE "hangup"]
  /\ UNCHANGED <<registry, conns, home, media, rtc, relaying, history>>

\* voice-leave if it was on it,
TellLeave(o) ==
  /\ callback[o] = "tell"
  /\ announced' = [announced EXCEPT ![o] = @ + 1]
  /\ \/ callback' = [callback EXCEPT ![o] = "hangup"]
     \/ MayStall(home[o], Id(o)) /\ callback' = [callback EXCEPT ![o] = "stuck"]
  /\ UNCHANGED <<registry, roster, conns, home, media, rtc, relaying, replaced>>

ResumeTelling(o) ==
  /\ callback[o] = "stuck"
  /\ callback' = [callback EXCEPT ![o] = "hangup"]
  /\ UNCHANGED <<registry, roster, conns, home, media, rtc, relaying, history>>

\* and rtcConn.Close(), which starts it once more.
HangUp(o) ==
  /\ callback[o] = "hangup"
  /\ rtc' = [rtc EXCEPT ![o] = "closed"]
  /\ callback' = [callback EXCEPT ![o] = IF rtc[o] # "closed" THEN "due" ELSE "idle"]
  /\ UNCHANGED <<registry, roster, conns, home, media, relaying, history>>

\* ForwardTrack, in a goroutine that pion starts once media flows, is stuck for a while.
\* Whom it offers the track to is in Relay.
RelayStalls(o) ==
  /\ rtc[o] \in {"live", "down", "closed"}
  /\ MayStall(home[o], Id(o))
  /\ relaying' = relaying \cup {o}
  /\ UNCHANGED <<registry, roster, conns, home, media, rtc, callback, history>>

RelayResumes(o) ==
  /\ o \in relaying
  /\ relaying' = relaying \ {o}
  /\ UNCHANGED <<registry, roster, conns, home, media, rtc, callback, history>>

-----------------------------------------------------------------------------
\* Messages from the client, and its disappearance.
Message(c) ==
  \/ Auth(c)
  \/ \E ch \in Channels : JoinVoice(c, ch) \/ DeleteChannel(c, ch)
  \/ Answer(c) \/ VoiceState(c)
  \/ LeaveVoice(c) \/ Disconnect(c)
  \/ \E u \in UserIds : KickServer(c, u) \/ \E ch \in Channels : KickVoice(c, ch, u)

\* The rest of a handler.
Continue(c) ==
  \/ EnterVoice(c)
  \/ LeaveRoster(c) \/ CloseMedia(c)
  \/ KickUser(c) \/ KickClose(c) \/ KickDone(c)
  \/ CloseAll(c) \/ TestMedia(c) \/ CloseOne(c) \/ CloseDone(c)

\* What is left of a state change handler.
Callback(o) == StateChange(o) \/ TellLeave(o) \/ HangUp(o)

\* What clients and networks do, among it to let a write return.
Outside(o) == PeerDown(o) \/ ResumeTelling(o) \/ RelayStalls(o) \/ RelayResumes(o)

Next == \/ \E c \in Conns : Message(c) \/ Continue(c) \/ Resume(c)
        \/ \E o \in Objs : Callback(o) \/ Outside(o)

Spec == Init /\ [][Next]_vars

\* Its handler is at a write to a client that may not read, or needs a lock that such a
\* write holds.
HeldUp(c) ==
  \/ At(c, "stuck")
  \/ At(c, "enter") /\ (c \in Stopped \/ Held(home[<<c, joins[c]>>]))
  \/ pc[c] \in {"remove", "close", "closeAll"} /\ at[c] # None /\ Held(at[c])
  \/ pc[c] \in {"kick", "sweep"} /\ \E vc \in sweep[c] : Held(vc)
  \/ pc[c] \in {"kickClose", "sweepClose"} /\ victim[c][1] \in Stopped

\* A goroutine that can run does; clients and networks owe nothing, and neither does a
\* write to a client.
VoiceFairness ==
  /\ \A c \in Conns : WF_vars(Continue(c) /\ ~HeldUp(c))
  /\ \A o \in Objs : WF_vars(Callback(o) /\ ~Held(home[o]))

FairSpec == Spec /\ VoiceFairness

-----------------------------------------------------------------------------
\* A roster entry is the voice user that joined this VoiceChannel value under this
\* id, whatever channel was deleted and asked for again meanwhile.
RosterWellFormed ==
  \A vc \in VCs, u \in UserIds :
    LET o == roster[vc][u] IN o # None => Id(o) = u /\ home[o] = vc

\* Nobody stays listed behind a dead peer connection: whoever is listed without an
\* open one has a state change handler on its way (session_voice.go:48).
NoDeadEntry ==
  \A o \in Objs : Listed(o) /\ ~(Open(o) /\ media[o]) => callback[o] = "due"

\* leaveVoice and the state change handler race to announce a departure: it is
\* announced at most once, and never of somebody who is still listed.
DepartureIsFinal ==
  \A o \in Objs : announced[o] <= 1 /\ (announced[o] = 1 => ~Listed(o))

\* ForwardTrack uses the Media of everybody on a roster without a look at it
\* (voice.go:126) while leaveVoice sets it to nil under no lock: whoever is listed has
\* it, unless the channel was deleted and leaveVoice looked up its second value.
ListedHaveMedia ==
  \A o \in Objs : Listed(o) /\ home[o][1] \notin deleted => media[o]

\* Some handler took o off its roster and has yet to close it, or panicked first.
BeingClosed(o) == \E c \in Conns : o \in closing[c] \/ victim[c] = o

\* A session in voice with an open peer connection is listed, unless it is leaving,
\* being kicked, its channel is being closed, or the same account joined again:
\* stale leaves and state changes of other sessions never evict it
\* (voice_test.go:97).
StaysListed ==
  \A c \in Conns :
    HasMedia(c) /\ ~At(c, "close") /\ Open(Voice(c)) =>
      Listed(Voice(c)) \/ BeingClosed(Voice(c)) \/ Voice(c) \in replaced


\* Whoever loses the peer connection leaves the roster, unless a write to a client that
\* does not read holds its lock (voice.go:97): a kick that waits for a client does not
\* keep it there.
DeadPeersLeave ==
  \A o \in Objs : Listed(o) /\ ~Open(o) ~> ~Listed(o) \/ Held(home[o])

\* The voice users keep the promise of a call.  One whose join has not entered yet is
\* out; one that leaveVoice or its state change handler took off the roster has left
\* until that is announced.
Absent(o) ==
  o[2] > joins[o[1]] \/ (At(o[1], "enter") /\ joins[o[1]] = o[2])
Leaving(o) ==
  \/ At(o[1], "close") /\ at[o[1]] # None /\ cur[o[1]] = o[2]
  \/ callback[o] = "tell"

Phase(o) ==
  IF Listed(o) THEN "in" ELSE IF Absent(o) THEN "out"
  ELSE IF Leaving(o) THEN "left" ELSE "gone"

Room(o) == IF Listed(o) THEN home[o] ELSE None

Promise == INSTANCE Calls WITH
  Participants <- Objs,
  Rooms <- VCs,
  AccountOf <- [o \in Objs |-> Id(o)],
  phase <- [o \in Objs |-> Phase(o)],
  room <- [o \in Objs |-> Room(o)],
  told <- announced

\* Through every interleaving of joins, leaves, kicks, deletions and state changes:
\* whoever left a channel never comes back to it, an account is in it once, and
\* a departure is announced once, never that of somebody who was kicked or replaced
\* or whose channel was deleted.
CallsSpec == Promise!Spec

-----------------------------------------------------------------------------
(* What the documentation says and the code does not do. *)

\* channel_server.go:66: the voice state of a channel is who is connected right now.
ListedIsConnected ==
  \A o \in Objs :
    Listed(o) /\ home[o][1] \in registered /\ home[o][2] = made[home[o][1]]
      => ~At(o[1], "closed") \/ callback[o] = "due"

\* voice_test.go:11: KickUser closes the media real connections always have.
KickedHasMedia ==
  \A c \in Conns : pc[c] \in {"kickClose", "sweepClose"} => media[victim[c]]
=============================================================================
