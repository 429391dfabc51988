----------------------------- MODULE LocksProofs -----------------------------
(***************************************************************************)
(* The locks of the live side never wait for each other in a circle, for   *)
(* any number of goroutines, channels and clients: they are taken in the   *)
(* order App, Server, VoiceChannel, websocket.                             *)
(***************************************************************************)
EXTENDS Locks, TLAPS

\* A section of which some of what it locks inside is done.
Rests == [lock : Mutexes, mode : {"r", "w"}, inner : SUBSET Mutexes]

LocksTypeOK ==
  /\ section \in [Goroutines -> Rests \cup {Nil}]
  /\ stage \in [Goroutines -> {"out", "asks", "in", "locking", "inside"}]
  /\ within \in [Goroutines -> Mutexes \cup {Nil}]
  /\ owner \in [Mutexes -> Goroutines \cup {Nil}]
  /\ readers \in [Mutexes -> SUBSET Goroutines]

\* What a method locks inside of what: never the same lock, never one that comes before.
After(l) ==
  {m \in Mutexes : \/ l = App /\ m = Server
                   \/ l = Server /\ m \in VoiceChannels \cup Sockets
                   \/ l \in VoiceChannels /\ m \in Sockets}

InOrder(s) ==
  /\ s.lock \in Mutexes /\ s.mode \in {"r", "w"}
  /\ s.inner \subseteq After(s.lock)
  /\ s.mode = "w" => s.inner = {}
  /\ s.lock \in Sockets => s.mode = "w"

\* Where a goroutine stands in its section.
Standing ==
  \A g \in Goroutines :
    /\ stage[g] # "out" => InOrder(section[g])
    /\ stage[g] \in {"locking", "inside"} => within[g] \in section[g].inner

\* Who has announced a Lock wants it or has it.
OwnersWrite ==
  \A l \in Mutexes : owner[l] # Nil =>
    LET g == owner[l]
    IN \/ stage[g] \in {"asks", "in"} /\ section[g].lock = l /\ section[g].mode = "w"
       \/ stage[g] \in {"locking", "inside"} /\ within[g] = l

\* Who holds a lock for reading is in a section of it.
ReadersRead ==
  \A l \in Mutexes : \A g \in readers[l] :
    /\ stage[g] \in {"in", "locking", "inside"}
    /\ section[g].lock = l /\ section[g].mode = "r"

LocksInv == LocksTypeOK /\ Standing /\ OwnersWrite /\ ReadersRead

-----------------------------------------------------------------------------
\* Every section of the code keeps the order.
LEMMA SectionsAreInOrder == \A s \in Sections : InOrder(s) /\ s \in Rests
<1> SUFFICES ASSUME NEW s \in Sections PROVE InOrder(s) /\ s \in Rests
  OBVIOUS
<1> USE LocksAssumption DEF Section, InOrder, After, Rests, Mutexes
<1>1. CASE s \in OfApp
  BY <1>1 DEF OfApp
<1>2. CASE s \in OfServer
  BY <1>2 DEF OfServer
<1>3. CASE s \in OfVoiceChannel
  BY <1>3 DEF OfVoiceChannel
<1>4. CASE s \in OfSocket
  BY <1>4 DEF OfSocket
<1> QED
  BY <1>1, <1>2, <1>3, <1>4 DEF Sections

\* Nothing is held at first.
LEMMA LocksStart == LocksInit => LocksInv
  BY DEF LocksInit, LocksInv, LocksTypeOK, Standing, OwnersWrite, ReadersRead

\* What a goroutine in a section has yet to lock inside are locks, and it stays in order
\* when one of them is done.
LEMMA InsideAreLocks ==
  ASSUME LocksInv, NEW g \in Goroutines, stage[g] # "out", NEW l
  PROVE  /\ section[g].inner \subseteq Mutexes /\ section[g].lock \in Mutexes
         /\ section[g].mode \in {"r", "w"}
         /\ LET s == Section(section[g].lock, section[g].mode, section[g].inner \ {l})
            IN /\ InOrder(s) /\ s \in Rests
               /\ s.lock = section[g].lock /\ s.mode = section[g].mode
  BY DEF LocksInv, Standing, InOrder, After, Section, Rests

\* What a goroutine asks for is a lock.
LEMMA AsksForALock ==
  ASSUME LocksInv, NEW g \in Goroutines, Asks(g)
  PROVE  Wanted(g) \in Mutexes
  BY InsideAreLocks DEF LocksInv, LocksTypeOK, Standing, Asks, Wanted

\* Calls, announcements, entries and returns keep to what the stage says.
LEMMA LocksStep == LocksInv /\ [LocksNext]_locksVars => LocksInv'
<1> SUFFICES ASSUME LocksInv, [LocksNext]_locksVars PROVE LocksInv'
  OBVIOUS
<1> USE DEF LocksInv, LocksTypeOK, Standing, OwnersWrite, ReadersRead, MoveTo
<1>1. ASSUME NEW g \in Goroutines, Call(g) PROVE LocksInv'
  <2>1. LocksTypeOK'
    BY <1>1, SectionsAreInOrder DEF Call
  <2>2. Standing'
    BY <1>1, SectionsAreInOrder DEF Call
  <2>3. OwnersWrite'
    BY <1>1, SectionsAreInOrder DEF Call
  <2>4. ReadersRead'
    BY <1>1, SectionsAreInOrder DEF Call
  <2> QED
    BY <2>1, <2>2, <2>3, <2>4
<1>2. ASSUME NEW g \in Goroutines, Announce(g) PROVE LocksInv'
  <2>1. LocksTypeOK'
    BY <1>2, AsksForALock DEF Announce, Asks, ToWrite, Wanted
  <2>2. Standing'
    BY <1>2, AsksForALock DEF Announce, Asks, ToWrite, Wanted
  <2>3. OwnersWrite'
    BY <1>2, AsksForALock DEF Announce, Asks, ToWrite, Wanted
  <2>4. ReadersRead'
    BY <1>2, AsksForALock DEF Announce, Asks, ToWrite, Wanted
  <2> QED
    BY <2>1, <2>2, <2>3, <2>4
<1>3. ASSUME NEW g \in Goroutines, Lock(g) PROVE LocksInv'
  <2>1. LocksTypeOK'
    BY <1>3, AsksForALock DEF Lock, Asks, Wanted, Enter
  <2>2. Standing'
    BY <1>3, AsksForALock DEF Lock, Asks, Wanted, Enter
  <2>3. OwnersWrite'
    BY <1>3, AsksForALock DEF Lock, Asks, Wanted, Enter
  <2>4. ReadersRead'
    BY <1>3, AsksForALock DEF Lock, Asks, Wanted, Enter
  <2> QED
    BY <2>1, <2>2, <2>3, <2>4
<1>4. ASSUME NEW g \in Goroutines, RLock(g) PROVE LocksInv'
  <2>0. stage[g] = "asks" /\ section[g].mode = "r"
    BY <1>4, InsideAreLocks DEF RLock, Asks, ToWrite
  <2>1. LocksTypeOK'
    BY <1>4, AsksForALock DEF RLock, Asks, ToWrite, Wanted, Enter
  <2>2. Standing'
    BY <1>4, AsksForALock DEF RLock, Asks, ToWrite, Wanted, Enter
  <2>3. OwnersWrite'
    BY <1>4, AsksForALock DEF RLock, Asks, ToWrite, Wanted, Enter
  <2>4. ReadersRead'
    BY <1>4, <2>0, AsksForALock DEF RLock, Asks, ToWrite, Wanted, Enter
  <2> QED
    BY <2>1, <2>2, <2>3, <2>4
<1>5. ASSUME NEW g \in Goroutines, Visit(g) PROVE LocksInv'
  <2>0. PICK l \in section[g].inner : within' = [within EXCEPT ![g] = l]
    BY <1>5 DEF Visit
  <2>1. LocksTypeOK'
    BY <1>5, <2>0, InsideAreLocks DEF Visit
  <2>2. Standing'
    BY <1>5, <2>0, InsideAreLocks DEF Visit
  <2>3. OwnersWrite'
    BY <1>5, <2>0 DEF Visit, InOrder
  <2>4. ReadersRead'
    BY <1>5, <2>0, InsideAreLocks DEF Visit
  <2> QED
    BY <2>1, <2>2, <2>3, <2>4
<1>6. ASSUME NEW g \in Goroutines, Leave(g) PROVE LocksInv'
  <2> DEFINE s == Section(section[g].lock, section[g].mode, section[g].inner \ {within[g]})
  <2>0. /\ section' = [section EXCEPT ![g] = s]
        /\ InOrder(s) /\ s \in Rests
        /\ s.lock = section[g].lock /\ s.mode = section[g].mode
        /\ within[g] \in Mutexes
    BY <1>6, InsideAreLocks DEF Leave
  <2> HIDE DEF s
  <2>1. LocksTypeOK'
    BY <1>6, <2>0 DEF Leave
  <2>2. Standing'
    BY <1>6, <2>0 DEF Leave
  <2>3. OwnersWrite'
    BY <1>6, <2>0 DEF Leave
  <2>4. ReadersRead'
    BY <1>6, <2>0 DEF Leave
  <2> QED
    BY <2>1, <2>2, <2>3, <2>4
<1>7. ASSUME NEW g \in Goroutines, Return(g) PROVE LocksInv'
  <2>1. LocksTypeOK'
    BY <1>7 DEF Return
  <2>2. Standing'
    BY <1>7 DEF Return
  <2>3. OwnersWrite'
    BY <1>7 DEF Return
  <2>4. ReadersRead'
    BY <1>7 DEF Return
  <2> QED
    BY <2>1, <2>2, <2>3, <2>4
<1>8. CASE UNCHANGED locksVars
  BY <1>8 DEF locksVars
<1> QED
  BY <1>1, <1>2, <1>3, <1>4, <1>5, <1>6, <1>7, <1>8 DEF LocksNext

-----------------------------------------------------------------------------
Moves(g) == stage[g] # "out" /\ (Asks(g) => CanEnter(g))

\* Who cannot enter waits for a reader, or somebody moves: the owner can, when there are
\* no readers, for it locks nothing inside.
LEMMA WaitsForReader ==
  ASSUME LocksInv, NEW g \in Goroutines, Asks(g), ~CanEnter(g)
  PROVE  \/ readers[Wanted(g)] # {}
         \/ \E h \in Goroutines : Moves(h)
<1> DEFINE l == Wanted(g)
<1>1. l \in Mutexes
  BY DEF LocksInv, LocksTypeOK, Standing, InOrder, After, Asks, Wanted
<1>2. owner[l] \in Goroutines
  BY <1>1 DEF CanEnter, LocksInv, LocksTypeOK
<1> DEFINE h == owner[l]
<1>3. ASSUME readers[l] = {} PROVE Moves(h)
  BY <1>1, <1>2, <1>3
  DEF Moves, Asks, CanEnter, ToWrite, Wanted, LocksInv, Standing, OwnersWrite, InOrder
<1> QED
  BY <1>2, <1>3

\* A reader moves, or waits for a lock that comes after its own.
LEMMA ReaderMovesOrWaits ==
  ASSUME LocksInv, NEW l \in Mutexes, NEW r \in readers[l]
  PROVE  /\ r \in Goroutines
         /\ \/ Moves(r)
            \/ Asks(r) /\ ~CanEnter(r) /\ Wanted(r) \in After(l)
  BY DEF Moves, Asks, Wanted, LocksInv, LocksTypeOK, Standing, ReadersRead, InOrder

\* So there is none to wait for once the locks after it have been looked at.
LEMMA ReadersMove ==
  ASSUME LocksInv, NEW l \in Mutexes, readers[l] # {},
         \A m \in After(l) : readers[m] = {} \/ \E h \in Goroutines : Moves(h)
  PROVE  \E h \in Goroutines : Moves(h)
<1>1. PICK r \in readers[l] : TRUE
  OBVIOUS
<1> QED
  BY <1>1, ReaderMovesOrWaits, WaitsForReader

\* Websockets have no readers, those of a channel wait for websockets only, and so on.
LEMMA SomebodyMoves ==
  ASSUME LocksInv, NEW l \in Mutexes, readers[l] # {}
  PROVE  \E h \in Goroutines : Moves(h)
<1>1. \A q \in Sockets : readers[q] = {}
  BY DEF LocksInv, LocksTypeOK, Standing, ReadersRead, InOrder, Mutexes
<1>2. \A vc \in VoiceChannels : readers[vc] = {} \/ \E h \in Goroutines : Moves(h)
  <2> SUFFICES ASSUME NEW vc \in VoiceChannels, readers[vc] # {}
               PROVE  \E h \in Goroutines : Moves(h)
    OBVIOUS
  <2>1. After(vc) = Sockets
    BY LocksAssumption DEF After, Mutexes
  <2> QED
    BY <1>1, <2>1, ReadersMove DEF Mutexes
<1>3. readers[Server] = {} \/ \E h \in Goroutines : Moves(h)
  <2>1. After(Server) = VoiceChannels \cup Sockets
    BY LocksAssumption DEF After, Mutexes
  <2> QED
    BY <1>1, <1>2, <2>1, ReadersMove DEF Mutexes
<1>4. readers[App] = {} \/ \E h \in Goroutines : Moves(h)
  <2>1. After(App) = {Server}
    BY LocksAssumption DEF After, Mutexes
  <2> QED
    BY <1>3, <2>1, ReadersMove DEF Mutexes
<1> QED
  BY <1>1, <1>2, <1>3, <1>4 DEF Mutexes

\* However many goroutines call whatever methods: as long as one of them is in a method,
\* somebody can go on, or is writing to a client.
THEOREM LocksDoNotDeadlock == LocksSpec => []NoDeadlock
<1>1. LocksInv => NoDeadlock
  <2> SUFFICES ASSUME LocksInv, NEW g \in Goroutines, stage[g] # "out"
               PROVE  \E h \in Goroutines : Moves(h)
    BY DEF NoDeadlock, Moves
  <2>1. CASE Asks(g) /\ ~CanEnter(g)
    <3>1. Wanted(g) \in Mutexes
      BY <2>1 DEF LocksInv, LocksTypeOK, Standing, InOrder, After, Asks, Wanted
    <3> QED
      BY <2>1, <3>1, WaitsForReader, SomebodyMoves
  <2> QED
    BY <2>1 DEF Moves
<1> QED
  BY <1>1, LocksStart, LocksStep, PTL DEF LocksSpec

=============================================================================
