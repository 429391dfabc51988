-------------------------------- MODULE Locks --------------------------------
(***************************************************************************)
(* The locks behind the live side: of the App, of the Server, of each      *)
(* VoiceChannel, and of each websocket, which is held for the length of a  *)
(* write.  A goroutine calls one method after another; what it does        *)
(* between two of them is in Presence, Chat and Voice and holds no lock.   *)
(* A section is the part of a method that holds one, and what it locks     *)
(* inside, all of it for writing and one at a time.  There is one server.  *)
(***************************************************************************)
CONSTANTS
  Goroutines,   \* read loops, callbacks of pion, HTTP requests
  App, Server, VoiceChannels, Sockets,
  Stalled,      \* the sockets whose client may have stopped reading
  Nil

Mutexes == {App, Server} \cup VoiceChannels \cup Sockets

ASSUME LocksAssumption ==
  /\ App # Server /\ {App, Server} \cap (VoiceChannels \cup Sockets) = {}
  /\ VoiceChannels \cap Sockets = {}
  /\ Stalled \subseteq Sockets
  /\ Nil \notin Goroutines \cup Mutexes

Section(l, m, inside) == [lock |-> l, mode |-> m, inner |-> inside]

-----------------------------------------------------------------------------
(* The methods. *)
OfApp == {Section(App, "w", {}),          \* GetOrCreateServer
          Section(App, "r", {}),          \* getServer
          Section(App, "r", {Server})}    \* RemoveConnectedUser

\* A BroadcastMessage that takes off the list whoever it cannot reach.
OfServerPruning ==
  {Section(Server, "w", {}), Section(Server, "r", {})}
    \cup {Section(Server, "r", to \cup {App}) : to \in SUBSET Sockets}

\* AddConnectedUser, GetOrCreateVoiceChannel and what else changes a map; the reads;
\* BroadcastMessage; and KickUserFromAllVoice, which tells those it found.
OfServer ==
  {Section(Server, "w", {}), Section(Server, "r", {})}
    \cup {Section(Server, "r", to) : to \in SUBSET Sockets}
    \cup {Section(Server, "r", VoiceChannels \cup to) : to \in SUBSET Sockets}

\* AddUser, RemoveUserIf, KickUser, CloseAll; Members, Broadcast, ForwardTrack.
OfVoiceChannel ==
  {Section(vc, "w", {}) : vc \in VoiceChannels}
    \cup {Section(vc, "r", to) : vc \in VoiceChannels, to \in SUBSET Sockets}

OfSocket == {Section(q, "w", {}) : q \in Sockets}    \* Send, SendJSON

Sections == OfApp \cup OfServer \cup OfVoiceChannel \cup OfSocket

-----------------------------------------------------------------------------
VARIABLES
  section,   \* what a goroutine is in, with what it has yet to lock inside
  stage,     \* "out", "asks" for the lock, "in"; "locking", then "inside", what is within
  within,    \* the lock inside
  owner,     \* who has announced a Lock, and then holds it
  readers    \* who holds it after RLock

locksVars == <<section, stage, within, owner, readers>>

LocksInit ==
  /\ section = [g \in Goroutines |-> Nil]
  /\ stage = [g \in Goroutines |-> "out"]
  /\ within = [g \in Goroutines |-> Nil]
  /\ owner = [l \in Mutexes |-> Nil]
  /\ readers = [l \in Mutexes |-> {}]

Asks(g) == stage[g] \in {"asks", "locking"}
Wanted(g) == IF stage[g] = "asks" THEN section[g].lock ELSE within[g]
ToWrite(g) == stage[g] = "locking" \/ section[g].mode = "w"
MoveTo(g, there) == stage' = [stage EXCEPT ![g] = there]

Call(g) ==
  /\ stage[g] = "out"
  /\ \E s \in Sections : section' = [section EXCEPT ![g] = s]
  /\ MoveTo(g, "asks")
  /\ UNCHANGED <<within, owner, readers>>

\* Lock, first half: one writer at a time announces itself, which keeps readers out.
Announce(g) ==
  /\ Asks(g) /\ ToWrite(g) /\ owner[Wanted(g)] = Nil
  /\ owner' = [owner EXCEPT ![Wanted(g)] = g]
  /\ UNCHANGED <<section, stage, within, readers>>

Enter(g) == MoveTo(g, IF stage[g] = "asks" THEN "in" ELSE "inside") /\ UNCHANGED <<section, within>>

\* Lock, second half: the readers that were there have left.
Lock(g) ==
  /\ Asks(g) /\ owner[Wanted(g)] = g /\ readers[Wanted(g)] = {}
  /\ Enter(g)
  /\ UNCHANGED <<owner, readers>>

RLock(g) ==
  /\ Asks(g) /\ ~ToWrite(g) /\ owner[Wanted(g)] = Nil
  /\ readers' = [readers EXCEPT ![Wanted(g)] = @ \cup {g}]
  /\ Enter(g)
  /\ UNCHANGED owner

\* Maps are ranged over in any order.
Visit(g) ==
  /\ stage[g] = "in"
  /\ \E l \in section[g].inner : within' = [within EXCEPT ![g] = l]
  /\ MoveTo(g, "locking")
  /\ UNCHANGED <<section, owner, readers>>

Leave(g) ==
  /\ stage[g] = "inside"
  /\ owner' = [owner EXCEPT ![within[g]] = Nil]
  /\ section' = [section EXCEPT ![g] = Section(@.lock, @.mode, @.inner \ {within[g]})]
  /\ within' = [within EXCEPT ![g] = Nil]
  /\ MoveTo(g, "in")
  /\ UNCHANGED readers

ReturnHoldingRead(g) ==
  /\ stage[g] = "in" /\ section[g].inner = {}
  /\ IF section[g].mode = "w"
       THEN owner' = [owner EXCEPT ![section[g].lock] = Nil]
       ELSE UNCHANGED owner
  /\ section' = [section EXCEPT ![g] = Nil]
  /\ MoveTo(g, "out")
  /\ UNCHANGED <<within, readers>>

Return(g) ==
  /\ stage[g] = "in" /\ section[g].inner = {}
  /\ IF section[g].mode = "w"
       THEN owner' = [owner EXCEPT ![section[g].lock] = Nil] /\ UNCHANGED readers
       ELSE readers' = [readers EXCEPT ![section[g].lock] = @ \ {g}] /\ UNCHANGED owner
  /\ section' = [section EXCEPT ![g] = Nil]
  /\ MoveTo(g, "out")
  /\ UNCHANGED within

LocksNext == \E g \in Goroutines :
  Call(g) \/ Announce(g) \/ Lock(g) \/ RLock(g) \/ Visit(g) \/ Leave(g) \/ Return(g)

LocksSpec == LocksInit /\ [][LocksNext]_locksVars

-----------------------------------------------------------------------------
\* The write of a goroutine to a client that does not read need not return.
Stuck(g) ==
  \/ stage[g] = "in" /\ section[g].lock \in Stalled
  \/ stage[g] = "inside" /\ within[g] \in Stalled

\* sync.Mutex and sync.RWMutex let everybody in who waits long enough.
LocksFairness == \A g \in Goroutines :
  /\ WF_locksVars(Lock(g) \/ Visit(g) \/ (~Stuck(g) /\ (Leave(g) \/ Return(g))))
  /\ SF_locksVars(Announce(g)) /\ SF_locksVars(RLock(g))

FairLocksSpec == LocksSpec /\ LocksFairness

-----------------------------------------------------------------------------
CanEnter(g) ==
  IF ToWrite(g) THEN \/ owner[Wanted(g)] = Nil
                     \/ owner[Wanted(g)] = g /\ readers[Wanted(g)] = {}
                ELSE owner[Wanted(g)] = Nil

\* Whoever waits for a lock waits for somebody: as long as a goroutine is in a method,
\* one of them can go on or is writing to a client that does not read (server.go:55).
NoDeadlock ==
  (\E g \in Goroutines : stage[g] # "out") =>
    \E g \in Goroutines : stage[g] # "out" /\ (Asks(g) => CanEnter(g))

\* Every method returns, unless a write to a client that does not read holds it up.
MethodsReturn ==
  \A g \in Goroutines : stage[g] # "out" ~> (stage[g] = "out" \/ \E h \in Goroutines : Stuck(h))
=============================================================================
