--------------------------------- MODULE Chat --------------------------------
(***************************************************************************)
(* Text messages and channels over the connections of Presence.  A handler *)
(* checks, writes one row, and tells every listed account.  The telling    *)
(* holds the server's lock for reading: broadcasts overlap, and whoever    *)
(* adds or removes an entry of ConnectedUsers waits for all of them.       *)
(* The n-th message of a connection is <<c, n>>; its text and attachment   *)
(* are left out.  Closing the media of a deleted channel is left to Voice, *)
(* which shows that it may panic.                                          *)
(***************************************************************************)
EXTENDS Presence, Naturals

CONSTANTS
  MaxPosts,    \* bound: how many messages each connection posts
  Channels,    \* channel ids, each of which create-channel may insert once
  Names,       \* pairs of a name, folded to lower case, and a type
  NameOf,      \* what a channel id is created with
  Witnesses    \* clients of one account, that keep what they hear

ASSUME ChatAssumption ==
  /\ MaxPosts \in [Conns -> Nat]
  /\ NameOf \in [Channels -> Names]
  /\ Channels \cap (Conns \X Nat) = {}
  /\ Witnesses \subseteq Conns
  /\ \A c \in Witnesses : \E u \in UserIds : LoginAs[c] = {u}

Messages == UNION {{c} \X (1 .. MaxPosts[c]) : c \in Conns}
Rows == Messages \cup Channels

\* "new": text-message or channel-created; "gone": message-deleted or channel-deleted.
Events == {"new", "gone"} \X Rows

ASSUME NoneIsNoEvent == None \notin Events

VARIABLES
  row,     \* tables messages and channels: "none", "live" or "gone" (deleted_at)
  step,    \* where the handler of a connection stands
  job,     \* the event it is about, None when idle
  left,    \* the accounts its BroadcastMessage has yet to come to
  heard    \* history: how often an event was written to a witness

presenceVars == vars
chatVars == <<row, step, job, left, heard>>
allVars == <<presenceVars, chatVars>>

ChatTypeOK ==
  /\ row \in [Rows -> {"none", "live", "gone"}]
  /\ step \in [Conns -> {"idle", "write", "tell", "telling"}]
  /\ job \in [Conns -> Events \cup {None}]
  /\ \A c \in Conns : job[c] = None <=> step[c] = "idle"
  /\ left \in [Conns -> SUBSET UserIds]
  /\ \A c \in Conns : left[c] # {} => step[c] = "telling"
  /\ heard \in [Witnesses -> [Events -> Nat]]

ChatInit ==
  /\ Init
  /\ row = [x \in Rows |-> "none"]
  /\ step = [c \in Conns |-> "idle"]
  /\ job = [c \in Conns |-> None]
  /\ left = [c \in Conns |-> {}]
  /\ heard = [c \in Witnesses |-> [e \in Events |-> 0]]

Idle(c) == step[c] = "idle"
Ready(c) == At(c, "ready") /\ Idle(c)

\* No BroadcastMessage holds the server's lock.
Unlocked == \A c \in Conns : step[c] # "telling"

-----------------------------------------------------------------------------
(* What a handler checks first. *)
Begin(c, e) ==
  /\ step' = [step EXCEPT ![c] = "write"]
  /\ job' = [job EXCEPT ![c] = e]
  /\ UNCHANGED <<row, left, heard, presenceVars>>

\* Members post anywhere: that the channel exists is not asked.
TextMessage(c, m) ==
  /\ Ready(c) /\ me[c] \in members
  /\ m[1] = c /\ row[m] = "none"
  /\ \A n \in 1 .. m[2] - 1 : row[<<c, n>>] # "none"
  /\ Begin(c, <<"new", m>>)

\* The id of a message is known once it is saved.
DeleteMessage(c, m) ==
  /\ Ready(c) /\ me[c] = Owner
  /\ row[m] # "none"
  /\ Begin(c, <<"gone", m>>)

\* A live channel of the same name and type, other than ch.
NameTaken(ch) ==
  \E other \in Channels \ {ch} : NameOf[other] = NameOf[ch] /\ row[other] = "live"

CreateChannel(c, ch) ==
  /\ Ready(c) /\ me[c] = Owner
  /\ row[ch] = "none" /\ \A d \in Conns : job[d] # <<"new", ch>>
  /\ ~NameTaken(ch)
  /\ Begin(c, <<"new", ch>>)

DeleteChannel(c, ch) ==
  /\ Ready(c) /\ me[c] = Owner
  /\ row[ch] = "live"
  /\ Begin(c, <<"gone", ch>>)

-----------------------------------------------------------------------------
(* The statement.  It may report an error, with and without an effect. *)
Put(x, status) == row' = [row EXCEPT ![x] = status]

Succeed(c) == step' = [step EXCEPT ![c] = "tell"] /\ UNCHANGED job

GiveUp(c) ==
  /\ step' = [step EXCEPT ![c] = "idle"]
  /\ job' = [job EXCEPT ![c] = None]

InsertableUnindexed(x) == TRUE

\* The unique index is on live channels.
Insertable(x) == x \in Channels => ~NameTaken(x)

InsertAfterTelling(c) ==
  /\ step[c] = "write" /\ job[c][1] = "new"
  /\ UNCHANGED row /\ Succeed(c)
  /\ UNCHANGED <<left, heard, presenceVars>>

Insert(c) ==
  /\ step[c] = "write" /\ job[c][1] = "new"
  /\ LET x == job[c][2] IN
       \/ Insertable(x) /\ Put(x, "live") /\ (Succeed(c) \/ (Faults /\ GiveUp(c)))
       \/ (Insertable(x) => Faults) /\ UNCHANGED row /\ GiveUp(c)
  /\ UNCHANGED <<left, heard, presenceVars>>

SoftDeleteAgain(c) ==
  /\ step[c] = "write" /\ job[c][1] = "gone"
  /\ Put(job[c][2], "gone") /\ Succeed(c)
  /\ UNCHANGED <<left, heard, presenceVars>>

\* deleted_at IS NULL: of two deletions only one affects the row and is told.
SoftDelete(c) ==
  /\ step[c] = "write" /\ job[c][1] = "gone"
  /\ LET x == job[c][2] IN
       \/ row[x] = "live" /\ Put(x, "gone") /\ (Succeed(c) \/ (Faults /\ GiveUp(c)))
       \/ (row[x] = "live" => Faults) /\ UNCHANGED row /\ GiveUp(c)
  /\ UNCHANGED <<left, heard, presenceVars>>

\* After the row of a voice channel, CloseAll; a panic keeps the deletion untold.
CloseAllPanics(c) ==
  /\ step[c] = "tell" /\ job[c] \in {"gone"} \X Channels
  /\ GiveUp(c) /\ Moderate(c)
  /\ UNCHANGED <<row, left, heard>>

-----------------------------------------------------------------------------
(* BroadcastMessage. *)
Listed == {u \in UserIds : connected[u] # None}

\* Everybody, except that the sender of a message is left out, on every connection.
Audience(c) == IF job[c] \in {"new"} \X Messages THEN Listed \ {me[c]} ELSE Listed

Tell(c) ==
  /\ step[c] = "tell"
  /\ step' = [step EXCEPT ![c] = "telling"]
  /\ left' = [left EXCEPT ![c] = Audience(c)]
  /\ UNCHANGED <<row, job, heard, presenceVars>>

\* A panic closed the connection and left the entry, and the write fails.
Deliver(c, u) ==
  /\ u \in left[c]
  /\ left' = [left EXCEPT ![c] = @ \ {u}]
  /\ heard' = [w \in Witnesses |->
                IF w = connected[u] /\ ~At(w, "panicked")
                  THEN [heard[w] EXCEPT ![job[c]] = @ + 1] ELSE heard[w]]
  /\ UNCHANGED <<row, step, job, presenceVars>>

Told(c) ==
  /\ step[c] = "telling" /\ left[c] = {}
  /\ GiveUp(c)
  /\ UNCHANGED <<row, left, heard, presenceVars>>

-----------------------------------------------------------------------------
\* AddConnectedUser and RemoveConnectedUser take the lock for writing.
RegistersAtOnce(c) == AddConnectedUser(c)

Registers(c) == AddConnectedUser(c) /\ Unlocked

Unregisters(c) == RemoveConnectedUser(c) /\ Unlocked

\* The handlers of Presence; a read loop handles one message at a time.
Attend(c) ==
  /\ Idle(c)
  /\ \/ Auth(c) \/ Refuse(c) \/ JoinServer(c) \/ Disconnect(c)
     \/ Registers(c) \/ Unregisters(c)
     \/ Moderate(c) \/ \E u \in UserIds : KickServer(c, u)
  /\ UNCHANGED chatVars

Post(c) == \E m \in Messages : TextMessage(c, m) \/ DeleteMessage(c, m)

Manage(c) == \E ch \in Channels : CreateChannel(c, ch) \/ DeleteChannel(c, ch)

Broadcast(c) == Tell(c) \/ (\E u \in UserIds : Deliver(c, u)) \/ Told(c)

\* A signup over HTTP.
Admit == (\E u \in UserIds : AddMember(u)) /\ UNCHANGED chatVars

ChatNext ==
  \/ \E c \in Conns :
       \/ Attend(c) \/ Post(c) \/ Manage(c)
       \/ Insert(c) \/ SoftDelete(c) \/ CloseAllPanics(c)
       \/ Broadcast(c)
  \/ Admit

ChatSpec == ChatInit /\ [][ChatNext]_allVars

-----------------------------------------------------------------------------
\* Clients are told what the database says: a message or channel they were told of
\* was saved, and what they were told is deleted stays so.
HeardIsSaved ==
  \A c \in Witnesses, x \in Rows :
    /\ heard[c][<<"new", x>>] > 0 => row[x] # "none"
    /\ heard[c][<<"gone", x>>] > 0 => row[x] = "gone"

\* A client is told of nothing twice, however often its account connects elsewhere and
\* however many owners' connections delete one thing.
HeardOnce ==
  \A c \in Witnesses, e \in Events : heard[c][e] <= 1

\* No two live channels share a name and a type, although create-channel looks first
\* and inserts later (session_channel.go:32).
OneLivePerName ==
  \A ch \in Channels : row[ch] = "live" => ~NameTaken(ch)

\* While an event is told, whoever is listed with an open connection has heard it or is
\* about to: nobody slips in or out between the first and the last write (server.go:52).
ListedHaveHeard ==
  \A c \in Conns : step[c] = "telling" =>
    \A u \in Audience(c) \ left[c] :
      connected[u] \in Witnesses /\ ~Ended(connected[u]) =>
        heard[connected[u]][job[c]] > 0

ClosedHearsNothing == \A c \in Witnesses : Ended(c) => heard'[c] = heard[c]

\* Nothing is written to a connection after its handleDisconnect.
NoLateDelivery == [][ClosedHearsNothing]_allVars

-----------------------------------------------------------------------------
(* Rows, histories and connections as Feed sees them. *)
RivalsOf(x) == {ch \in Channels \ {x} : x \in Channels /\ NameOf[ch] = NameOf[x]}

Promise == INSTANCE Feed WITH
  Items <- Rows,
  Rivals <- [x \in Rows |-> RivalsOf(x)],
  Clients <- Witnesses,
  item <- row,
  closed <- {c \in Witnesses : Ended(c)}

\* Handlers that check first and write later, broadcasts that overlap, statements that
\* fail after taking effect and connections that come and go tell nobody of a row before
\* it is saved, of a deletion that does not last, of anything twice, or after the end of
\* the connection; a row that is deleted never comes back, and a name is not taken twice.
FeedSpec == Promise!Spec
=============================================================================
