------------------------------- MODULE Presence ------------------------------
(***************************************************************************)
(* Who is online: every websocket connection of a member puts an entry     *)
(* under its account into Server.ConnectedUsers, and takes the entry of    *)
(* its account out when it ends.  Reading the memberships and adding the   *)
(* entry are two steps, as are redeeming an invite and adding the entry;   *)
(* connections of one account, and the owner's kick-server, come between.  *)
(* An entry lends its connection to broadcasts and is named by it here.    *)
(* A signup over HTTP adds a membership beside all that.  Whose invite is  *)
(* valid is left to Onboarding, and voice to Voice, which also shows when  *)
(* a kick panics: that closes the connection and nothing else.             *)
(***************************************************************************)
CONSTANTS
  Conns,       \* websocket connections
  UserIds,     \* accounts
  Owner,       \* the account in servers.owner_id
  LoginAs,     \* the accounts whose tokens the client of a connection holds
  Signups,     \* accounts whose signup may have yet to add their membership
  Faults,      \* whether a statement on memberships may fail
  None

ASSUME PresenceAssumption ==
  /\ Owner \in UserIds
  /\ LoginAs \in [Conns -> SUBSET UserIds]
  /\ Signups \subseteq UserIds
  /\ Faults \in BOOLEAN
  /\ None \notin Conns \cup UserIds

VARIABLES
  members,      \* table memberships
  pending,      \* signups that have created the account and no membership yet
  connected,    \* Server.ConnectedUsers: account to connection, None when absent
  pc,
  me,           \* s.user.ID, None before the first authentication
  kicked        \* history: accounts that a kick-server was about

vars == <<members, pending, connected, pc, me, kicked>>

TypeOK ==
  /\ members \subseteq UserIds /\ pending \subseteq Signups
  /\ connected \in [UserIds -> Conns \cup {None}]
  /\ pc \in [Conns -> {"anonymous", "ready", "present", "gone", "closed", "panicked"}]
  /\ me \in [Conns -> UserIds \cup {None}]
  /\ \A c \in Conns : pc[c] \in {"ready", "present", "gone"} => me[c] # None
  /\ kicked \subseteq UserIds

Init ==
  /\ pending \in SUBSET Signups
  /\ members \in SUBSET (UserIds \ pending)
  /\ Owner \in members \cup pending
  /\ connected = [u \in UserIds |-> None]
  /\ pc = [c \in Conns |-> "anonymous"]
  /\ me = [c \in Conns |-> None]
  /\ kicked = {}

At(c, here) == pc[c] = here
Goto(c, there) == pc' = [pc EXCEPT ![c] = there]

\* The read loop has returned, or panicked: the connection is closed in both cases.
Ended(c) == pc[c] \in {"closed", "panicked"}

AuthListsEverybody(c) ==
  /\ pc[c] \in {"anonymous", "ready"}
  /\ \E u \in LoginAs[c] : me' = [me EXCEPT ![c] = u]
  /\ Goto(c, "present")
  /\ UNCHANGED <<members, pending, connected, kicked>>

\* handleAuth sets s.user, also on a session that has one, and reads the memberships;
\* a failed read is only logged and lists the account nowhere.
Auth(c) ==
  /\ pc[c] \in {"anonymous", "ready"}
  /\ \E u \in LoginAs[c] :
       /\ me' = [me EXCEPT ![c] = u]
       /\ \/ u \in members /\ Goto(c, "present")
          \/ (u \notin members \/ Faults) /\ Goto(c, "ready")
  /\ UNCHANGED <<members, pending, connected, kicked>>

RefuseForgotten(c) ==
  /\ At(c, "anonymous")
  /\ Goto(c, "ready")
  /\ UNCHANGED <<members, pending, connected, me, kicked>>

\* The first message is not auth, or the peer is gone before it: no cleanup.
Refuse(c) ==
  /\ At(c, "anonymous")
  /\ Goto(c, "closed")
  /\ UNCHANGED <<members, pending, connected, me, kicked>>

\* handleJoinServer with an invite that is good, up to the membership row.  It returns
\* when the statement reports an error, which may come after the effect.
JoinServer(c) ==
  /\ At(c, "ready")
  /\ members' = members \cup {me[c]}
  /\ Goto(c, "present") \/ (Faults /\ UNCHANGED pc)
  /\ UNCHANGED <<pending, connected, me, kicked>>

AddConnectedUser(c) ==
  /\ At(c, "present")
  /\ connected' = [connected EXCEPT ![me[c]] = c]
  /\ Goto(c, "ready")
  /\ UNCHANGED <<members, pending, me, kicked>>

\* kick-server takes the membership and leaves ConnectedUsers alone; closing the
\* target's media may panic, which skips handleDisconnect.
KickServer(c, u) ==
  /\ At(c, "ready") /\ me[c] = Owner
  /\ members' = members \ {u}
  /\ kicked' = kicked \cup {u}
  /\ Goto(c, "ready") \/ Goto(c, "panicked")
  /\ UNCHANGED <<pending, connected, me>>

\* kick-voice and delete-channel close media, too, and may panic.
Moderate(c) ==
  /\ At(c, "ready") /\ me[c] = Owner
  /\ Goto(c, "panicked")
  /\ UNCHANGED <<members, pending, connected, me, kicked>>

\* The read fails: handleDisconnect.
Disconnect(c) ==
  /\ At(c, "ready")
  /\ Goto(c, "gone")
  /\ UNCHANGED <<members, pending, connected, me, kicked>>

RemoveConnectedUserForgotten(c) ==
  /\ At(c, "gone")
  /\ Goto(c, "closed")
  /\ UNCHANGED <<members, pending, connected, me, kicked>>

\* By account, whichever connection the entry stands for.
RemoveConnectedUser(c) ==
  /\ At(c, "gone")
  /\ connected' = [connected EXCEPT ![me[c]] = None]
  /\ Goto(c, "closed")
  /\ UNCHANGED <<members, pending, me, kicked>>

\* The signup with an invite, or the claim, adds the membership of its new account,
\* which may have logged in since; it lists nobody.
AddMember(u) ==
  /\ u \in pending
  /\ pending' = pending \ {u}
  /\ members' = members \cup {u}
  /\ UNCHANGED <<connected, pc, me, kicked>>

Next ==
  \/ \E c \in Conns :
       \/ Auth(c) \/ Refuse(c) \/ JoinServer(c) \/ AddConnectedUser(c)
       \/ Disconnect(c) \/ RemoveConnectedUser(c)
       \/ Moderate(c) \/ \E u \in UserIds : KickServer(c, u)
  \/ \E u \in UserIds : AddMember(u)

Spec == Init /\ [][Next]_vars

-----------------------------------------------------------------------------
\* As long as a connection logs in as one account, an entry is of a connection of
\* that account which is not closed, in whatever order connections of the account come
\* and go; the one entry that may outlive its connection is that of the owner, whose
\* kick or deletion panicked past handleDisconnect (ws.go:122).
OnlineHasConnection ==
  \A u \in UserIds : connected[u] # None =>
    LET c == connected[u] IN
      LoginAs[c] = {u} => me[c] = u /\ (Ended(c) => u = Owner /\ At(c, "panicked"))

\* Who is listed without being a member was one until a kick, be it that the kick
\* left the entry alone or that it came between the read and the entry.
ListedWasMember ==
  \A u \in UserIds : connected[u] # None => u \in members \cup kicked

\* server_http.go:30: online tells whether a member has a live connection.
LiveMemberIsOnline ==
  \A u \in members :
    /\ \A c \in Conns : me[c] = u => pc[c] \in {"ready", "closed"}
    /\ \E c \in Conns : me[c] = u /\ At(c, "ready")
    => connected[u] # None

\* And nobody else: it is not told of a member whose connections have all ended.
OnlineMemberIsLive ==
  \A u \in members : connected[u] # None => \E c \in Conns : me[c] = u /\ ~Ended(c)
=============================================================================
