----------------------------- MODULE Onboarding ------------------------------
(***************************************************************************)
(* How accounts, the owner and members come to be: the claim manager, the  *)
(* HTTP handlers for claiming, registering, minting and redeeming invites, *)
(* the websocket messages join-server and kick-server, and the tables they *)
(* share.  No handler uses a transaction: every statement is a step, other *)
(* requests run between any two of them, a statement may fail (a database  *)
(* error, or the client went away and its context was cancelled), and the  *)
(* process may die, which forgets the ticket and every request in flight   *)
(* but keeps the tables.                                                   *)
(*                                                                         *)
(* One instance is one server, so the server id is left out (Bootstrap     *)
(* shows which one it is).  A uuid is named by the request that drew it:   *)
(* an account by its signup, a ticket by the password request that issued  *)
(* it, an invite by the request that minted it.  A bcrypt hash and a token *)
(* the service signed itself never fail and are left out.                  *)
(***************************************************************************)
EXTENDS Naturals

CONSTANTS
  PasswordReqs,   \* requests POST /claim/password
  RegisterReqs,   \* requests POST /claim/register
  MintReqs,       \* requests POST /server/{id}/invite
  SignupReqs,     \* requests POST /invite/signup
  JoinReqs,       \* websocket messages join-server
  Names,          \* usernames
  None,           \* "", NULL, or something that does not exist
  Faults,         \* whether database statements may fail
  MaxRestarts     \* bound: crashes of the process

Users == RegisterReqs \cup SignupReqs
Redeemers == SignupReqs \cup JoinReqs
Requests == PasswordReqs \cup RegisterReqs \cup MintReqs \cup Redeemers

ASSUME RequestsAssumption ==
  /\ PasswordReqs \cap (RegisterReqs \cup MintReqs \cup Redeemers) = {}
  /\ RegisterReqs \cap (MintReqs \cup Redeemers) = {}
  /\ MintReqs \cap Redeemers = {}
  /\ SignupReqs \cap JoinReqs = {}
ASSUME NoneAssumption == None \notin Requests \cup Names
ASSUME BoundsAssumption == Faults \in BOOLEAN /\ MaxRestarts \in Nat

VARIABLES
  \* tables
  owner,         \* settings row "owner"
  serverOwner,   \* servers.owner_id of the default server
  username,      \* users.username by user id, None when there is no row
  members,       \* memberships of the default server
  minted, used,  \* rows of invites, and those with used_at set
  expired,       \* invites past expires_at
  \* memory of the process
  ticket,        \* claim.Manager: the ticket that would validate, None when
                 \*   there is none or it has expired
  restarts,
  \* requests
  pc,            \* the next statement of each request, or how it ended
  name,          \* username a signup or registration asks for
  arg,           \* ticket a registration presents, invite a redeemer presents
  caller,        \* account behind a join-server message
  \* history
  late,          \* redeemers that came with an invite somebody had got in with
  kicked         \* accounts some kick-server removed

tables == <<owner, serverOwner, username, members, minted, used, expired>>
inputs == <<name, arg, caller>>
history == <<late, kicked>>
vars == <<tables, ticket, restarts, pc, inputs, history>>

Ended == {"ok", "refused", "failed", "lost"}
Running == {"verify", "ticket", "invite", "lookup", "create", "setOwner",
            "setServerOwner", "addMember", "clear", "join", "mark", "insert"}

TypeOK ==
  /\ owner \in RegisterReqs \cup {None}
  /\ serverOwner \in RegisterReqs \cup {None}
  /\ username \in [Users -> Names \cup {None}]
  /\ members \subseteq Users
  /\ minted \subseteq MintReqs /\ used \subseteq MintReqs /\ expired \subseteq MintReqs
  /\ ticket \in PasswordReqs \cup {None}
  /\ restarts \in 0..MaxRestarts
  /\ pc \in [Requests -> {"idle"} \cup Running \cup Ended]
  /\ name \in [Users -> Names \cup {None}]
  /\ arg \in [RegisterReqs \cup Redeemers -> PasswordReqs \cup MintReqs \cup {None}]
  /\ caller \in [JoinReqs -> Users \cup {None}]
  /\ late \subseteq Redeemers
  /\ kicked \subseteq Users

Init ==
  /\ owner = None /\ serverOwner = None
  /\ username = [u \in Users |-> None]
  /\ members = {}
  /\ minted = {} /\ used = {} /\ expired = {}
  /\ ticket = None
  /\ restarts = 0
  /\ pc = [r \in Requests |-> "idle"]
  /\ name = [u \in Users |-> None]
  /\ arg = [r \in RegisterReqs \cup Redeemers |-> None]
  /\ caller = [r \in JoinReqs |-> None]
  /\ late = {} /\ kicked = {}

-----------------------------------------------------------------------------
(* Control of a request. *)

At(r, here) == pc[r] = here
Goto(r, there) == pc' = [pc EXCEPT ![r] = there]

\* A statement of r reports an error; the handler answers 500 and stops.
Errs(r) == Faults /\ Goto(r, "failed")

\* What claimed() may answer: it drops the error of its read, and the "" it then
\* has reads as unclaimed.
SaysClaimed == owner # None
SaysUnclaimed == owner = None \/ Faults

HasAccount(u) == username[u] # None
NameTaken(n) == \E u \in Users : username[u] = n

\* InviteRepo.Get: the row exists, used_at is null and it has not expired.
InviteLive(i) == i \in minted \ (used \cup expired)

-----------------------------------------------------------------------------
(* POST /claim/password *)

StartPassword(r) ==
  /\ At(r, "idle")
  /\ \/ SaysUnclaimed /\ Goto(r, "verify")
     \/ SaysClaimed /\ Goto(r, "refused")
  /\ UNCHANGED <<tables, ticket, restarts, inputs, history>>

\* VerifyPassword replaces whatever ticket there was; a wrong password, like a
\* failed proof of work before it, is a 401 that changes nothing.
VerifyPassword(r) ==
  /\ At(r, "verify")
  /\ \/ ticket' = r /\ Goto(r, "ok")
     \/ Goto(r, "refused") /\ UNCHANGED ticket
  /\ UNCHANGED <<tables, restarts, inputs, history>>

(* POST /claim/register *)

\* Tickets a client can present: those it was given, or None for a made-up one.
KnownTickets == {t \in PasswordReqs : At(t, "ok")} \cup {None}

StartRegister(r) ==
  /\ At(r, "idle")
  /\ \/ /\ SaysUnclaimed
        /\ Goto(r, "ticket")
        /\ \E t \in KnownTickets : arg' = [arg EXCEPT ![r] = t]
        /\ \E n \in Names : name' = [name EXCEPT ![r] = n]
     \/ SaysClaimed /\ Goto(r, "refused") /\ UNCHANGED <<arg, name>>
  /\ UNCHANGED <<tables, ticket, restarts, caller, history>>

ValidateTicket(r) ==
  /\ At(r, "ticket")
  /\ Goto(r, IF arg[r] # None /\ arg[r] = ticket THEN "lookup" ELSE "refused")
  /\ UNCHANGED <<tables, ticket, restarts, inputs, history>>

SetOwnerSettingToName(r) ==
  /\ At(r, "setOwner")
  /\ owner' = name[r] /\ Goto(r, "setServerOwner")
  /\ UNCHANGED <<serverOwner, username, members, minted, used, expired, ticket,
                 restarts, inputs, history>>

SetOwnerSetting(r) ==
  /\ At(r, "setOwner")
  /\ \/ owner' = r /\ Goto(r, "setServerOwner")
     \/ owner' \in {owner, r} /\ Errs(r)
  /\ UNCHANGED <<serverOwner, username, members, minted, used, expired, ticket,
                 restarts, inputs, history>>

SetServerOwnerSkipped(r) ==
  /\ At(r, "setServerOwner")
  /\ Goto(r, "addMember")
  /\ UNCHANGED <<tables, ticket, restarts, inputs, history>>

SetServerOwner(r) ==
  /\ At(r, "setServerOwner")
  /\ \/ serverOwner' = r /\ Goto(r, "addMember")
     \/ serverOwner' \in {serverOwner, r} /\ Errs(r)
  /\ UNCHANGED <<owner, username, members, minted, used, expired, ticket,
                 restarts, inputs, history>>

AddOwnerAsMember(r) ==
  /\ At(r, "addMember")
  /\ \/ members' = members \cup {r} /\ Goto(r, "clear")
     \/ members' \in {members, members \cup {r}} /\ Errs(r)
  /\ UNCHANGED <<owner, serverOwner, username, minted, used, expired, ticket,
                 restarts, inputs, history>>

InvalidateTicketForgotten(r) ==
  /\ At(r, "clear")
  /\ Goto(r, "ok")
  /\ UNCHANGED <<tables, ticket, restarts, inputs, history>>

\* InvalidateTicket clears the current ticket, whichever request it came from.
InvalidateTicket(r) ==
  /\ At(r, "clear")
  /\ ticket' = None
  /\ Goto(r, "ok")
  /\ UNCHANGED <<tables, restarts, inputs, history>>

Register(r) == \/ StartRegister(r)
               \/ ValidateTicket(r)
               \/ SetOwnerSetting(r)
               \/ SetServerOwner(r)
               \/ AddOwnerAsMember(r)
               \/ InvalidateTicket(r)

-----------------------------------------------------------------------------
(* auth.Service.Signup, called by registrations and by invite signups. *)

AfterSignup(u) == IF u \in RegisterReqs THEN "setOwner" ELSE "join"

\* GetByUsername: an error of the lookup counts as "no such user".  The password may
\* be too short, whatever the name.
LookupName(u) ==
  /\ At(u, "lookup")
  /\ \/ Goto(u, "refused")
     \/ (~NameTaken(name[u]) \/ Faults) /\ Goto(u, "create")
  /\ UNCHANGED <<tables, ticket, restarts, inputs, history>>

\* UserRepo.Create without the unique index on username.
CreateAccountUnindexed(u) ==
  /\ At(u, "create")
  /\ username' = [username EXCEPT ![u] = name[u]]
  /\ Goto(u, AfterSignup(u))
  /\ UNCHANGED <<owner, serverOwner, members, minted, used, expired, ticket,
                 restarts, inputs, history>>

CreateAccountErrorIgnored(u) ==
  /\ At(u, "create")
  /\ username' = IF NameTaken(name[u]) THEN username
                                       ELSE [username EXCEPT ![u] = name[u]]
  /\ Goto(u, AfterSignup(u))
  /\ UNCHANGED <<owner, serverOwner, members, minted, used, expired, ticket,
                 restarts, inputs, history>>

\* UserRepo.Create: the unique index turns a name taken meanwhile into a 500.
CreateAccount(u) ==
  /\ At(u, "create")
  /\ \/ /\ ~NameTaken(name[u])
        /\ username' = [username EXCEPT ![u] = name[u]]
        /\ Goto(u, AfterSignup(u)) \/ Errs(u)
     \/ (NameTaken(name[u]) \/ Faults) /\ Goto(u, "failed") /\ UNCHANGED username
  /\ UNCHANGED <<owner, serverOwner, members, minted, used, expired, ticket,
                 restarts, inputs, history>>

Signup(u) == LookupName(u) \/ CreateAccount(u)

-----------------------------------------------------------------------------
(* POST /server/{id}/invite *)

\* router.Owner: the bearer must be servers.owner_id.
StartMintUnauthorized(r) ==
  /\ At(r, "idle")
  /\ Goto(r, "insert")
  /\ UNCHANGED <<tables, ticket, restarts, inputs, history>>

StartMint(r) ==
  /\ At(r, "idle")
  /\ \/ serverOwner # None /\ Goto(r, "insert")
     \/ (\E u \in Users : HasAccount(u) /\ u # serverOwner) /\ Goto(r, "refused")
     \/ Errs(r)
  /\ UNCHANGED <<tables, ticket, restarts, inputs, history>>

CreateInvite(r) ==
  /\ At(r, "insert")
  /\ \/ minted' = minted \cup {r} /\ Goto(r, "ok")
     \/ minted' \in {minted, minted \cup {r}} /\ Errs(r)
  /\ UNCHANGED <<owner, serverOwner, username, members, used, expired, ticket,
                 restarts, inputs, history>>

Mint(r) == StartMint(r) \/ CreateInvite(r)

-----------------------------------------------------------------------------
(* Redeeming an invite: POST /invite/signup and the message join-server. *)

\* Invites a client can present: those handed out, or None for a made-up one.
KnownInvites == {i \in MintReqs : At(i, "ok")} \cup {None}

\* Somebody was answered 200 or joined-server for invite i.
LetIn(i) == \E q \in Redeemers : At(q, "ok") /\ arg[q] = i

PresentInvite(r) ==
  \E i \in KnownInvites :
    /\ arg' = [arg EXCEPT ![r] = i]
    /\ late' = IF LetIn(i) THEN late \cup {r} ELSE late

StartSignup(r) ==
  /\ At(r, "idle")
  /\ \/ /\ SaysClaimed
        /\ Goto(r, "invite")
        /\ PresentInvite(r)
        /\ \E n \in Names : name' = [name EXCEPT ![r] = n]
     \/ SaysUnclaimed /\ Goto(r, "refused") /\ UNCHANGED <<arg, name, late>>
  /\ UNCHANGED <<tables, ticket, restarts, caller, kicked>>

\* A connection that sends join-server has authenticated with a token, so its
\* account exists.
StartJoin(r) ==
  /\ At(r, "idle")
  /\ Goto(r, "invite")
  /\ PresentInvite(r)
  /\ \E u \in Users : HasAccount(u) /\ caller' = [caller EXCEPT ![r] = u]
  /\ UNCHANGED <<tables, ticket, restarts, name, kicked>>

AfterInvite(r) == IF r \in SignupReqs THEN "lookup" ELSE "join"

\* InviteRepo.Get without "used_at IS NULL".
GetInviteIgnoringUse(r) ==
  /\ At(r, "invite")
  /\ Goto(r, IF arg[r] \in minted \ expired THEN AfterInvite(r) ELSE "refused")
  /\ UNCHANGED <<tables, ticket, restarts, inputs, history>>

GetInvite(r) ==
  /\ At(r, "invite")
  /\ \/ Goto(r, IF InviteLive(arg[r]) THEN AfterInvite(r) ELSE "refused")
     \/ Errs(r)
  /\ UNCHANGED <<tables, ticket, restarts, inputs, history>>

\* The account a request is about: its own, or that of the connection.
Account(r) == IF r \in Users THEN r ELSE caller[r]

AddMemberErrorIgnored(r) ==
  /\ At(r, "join")
  /\ members' \in {members, members \cup {Account(r)}}
  /\ Goto(r, "mark")
  /\ UNCHANGED <<owner, serverOwner, username, minted, used, expired, ticket,
                 restarts, inputs, history>>

AddMember(r) ==
  /\ At(r, "join")
  /\ \/ members' = members \cup {Account(r)} /\ Goto(r, "mark")
     \/ members' \in {members, members \cup {Account(r)}} /\ Errs(r)
  /\ UNCHANGED <<owner, serverOwner, username, minted, used, expired, ticket,
                 restarts, inputs, history>>

MarkUsedForgotten(r) ==
  /\ At(r, "mark")
  /\ Goto(r, "ok")
  /\ UNCHANGED <<tables, ticket, restarts, inputs, history>>

\* The UPDATE has no "used_at IS NULL" and its error is only logged.
MarkUsed(r) ==
  /\ At(r, "mark")
  /\ \/ used' = used \cup {arg[r]}
     \/ Faults /\ UNCHANGED used
  /\ Goto(r, "ok")
  /\ UNCHANGED <<owner, serverOwner, username, members, minted, expired, ticket,
                 restarts, inputs, history>>

Redeem(r) == GetInvite(r) \/ AddMember(r) \/ MarkUsed(r)

-----------------------------------------------------------------------------
(* The owner, time and the process. *)

\* kick-server: the sender is servers.owner_id, the target any account.
KickServer(u) ==
  /\ serverOwner # None
  /\ HasAccount(u)
  /\ members' = members \ {u}
  /\ kicked' = kicked \cup {u}
  /\ UNCHANGED <<owner, serverOwner, username, minted, used, expired, ticket,
                 restarts, pc, inputs, late>>

\* TicketTTL passes: the ticket no longer validates.
ExpireTicket ==
  /\ ticket # None
  /\ ticket' = None
  /\ UNCHANGED <<tables, restarts, pc, inputs, history>>

ExpireInvite(i) ==
  /\ i \in minted \ expired
  /\ expired' = expired \cup {i}
  /\ UNCHANGED <<owner, serverOwner, username, members, minted, used, ticket,
                 restarts, pc, inputs, history>>

\* The process dies and is started again with a new claim.Manager.
RestartProcess ==
  /\ restarts < MaxRestarts
  /\ restarts' = restarts + 1
  /\ ticket' = None
  /\ pc' = [r \in Requests |-> IF pc[r] \in Running THEN "lost" ELSE pc[r]]
  /\ UNCHANGED <<tables, inputs, history>>

Step(r) == \/ r \in PasswordReqs /\ (StartPassword(r) \/ VerifyPassword(r))
           \/ r \in RegisterReqs /\ Register(r)
           \/ r \in Users /\ Signup(r)
           \/ r \in MintReqs /\ Mint(r)
           \/ r \in SignupReqs /\ StartSignup(r)
           \/ r \in JoinReqs /\ StartJoin(r)
           \/ r \in Redeemers /\ Redeem(r)

Next == \/ \E r \in Requests : Step(r)
        \/ \E u \in Users : KickServer(u)
        \/ ExpireTicket
        \/ \E i \in MintReqs : ExpireInvite(i)
        \/ RestartProcess

Spec == Init /\ [][Next]_vars

-----------------------------------------------------------------------------
(* What holds whatever fails and whoever races. *)

\* Two accounts never share a username, although every signup looks the name up
\* in one statement and inserts it in another (idx_users_username decides).
UniqueNames ==
  \A u, v \in Users : HasAccount(u) /\ username[u] = username[v] => u = v

\* Nobody is a member, holds the server or was handed an invite before the
\* instance was claimed, and owners and members are accounts that exist.
ClaimComesFirst ==
  /\ members # {} \/ minted # {} \/ serverOwner # None => owner # None
  /\ \A u \in members \cup kicked \cup {owner, serverOwner} : u # None => HasAccount(u)

\* A 200 (or joined-server) is never withdrawn: the account has the name that was
\* asked for and is a member until it is kicked, across crashes and failures of
\* other requests.
SuccessIsDurable ==
  \A r \in Users \cup JoinReqs : At(r, "ok") =>
    /\ HasAccount(Account(r))
    /\ r \in Users => username[r] = name[r]
    /\ Account(r) \in members \cup kicked

\* When only one registration ever got as far as an account and it succeeded, it
\* owns the instance in both places that record an owner.
SoleClaimantOwns ==
  \A r \in RegisterReqs :
    At(r, "ok") /\ (\A q \in RegisterReqs \ {r} : ~HasAccount(q))
      => owner = r /\ serverOwner = r

\* A ticket some registration succeeded with never validates again, not even
\* through a password request that overlaps the registration (claim.go:43).
SpentTicketStaysSpent ==
  \A r \in RegisterReqs : At(r, "ok") => ticket # arg[r]

(* What holds as long as no statement fails. *)

\* README.md:81: invites are single-use.  Who presents an invite that has let
\* somebody in is refused and gets neither an account nor a membership of it.
LateRedeemersLeaveNoTrace ==
  \A r \in late :
    /\ ~At(r, "ok")
    /\ r \in SignupReqs => ~HasAccount(r) /\ r \notin members

(* The instance keeps the promise of an invite-only instance. *)

Promise == INSTANCE Admission WITH Founders <- RegisterReqs, claimed <- owner # None

PromiseSpec == Promise!Spec

-----------------------------------------------------------------------------
(* What the documentation says and the code does not do. *)

\* README.md:81, invite_http.go:22: invites are single-use.
InviteIsSingleUse ==
  \A q, r \in Redeemers :
    At(q, "ok") /\ At(r, "ok") /\ arg[q] = arg[r] => q = r

\* README.md:79: a ticket is single-use.
TicketIsSingleUse ==
  \A q, r \in RegisterReqs :
    At(q, "ok") /\ At(r, "ok") /\ arg[q] = arg[r] => q = r

\* README.md:80: claiming creates the admin account and takes ownership, so that
\* once no claim is under way the recorded owner holds the server.
ClaimedIsOwned ==
  owner # None /\ (\A r \in RegisterReqs : pc[r] \notin Running)
    => serverOwner = owner
=============================================================================
