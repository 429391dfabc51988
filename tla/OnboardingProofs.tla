-------------------------- MODULE OnboardingProofs ---------------------------
(***************************************************************************)
(* Onboarding for every set of requests and names, with or without faults  *)
(* and for every number of crashes.  The inductive invariant IInv says, for *)
(* each statement a handler stands at, what the statements before it left   *)
(* in the tables; every property of Onboarding follows from one of its      *)
(* parts.                                                                   *)
(***************************************************************************)
EXTENDS Onboarding, TLAPS

HasOpened == {"setOwner", "setServerOwner", "addMember", "clear", "join", "mark", "ok"}
NotOpened == {"idle", "verify", "ticket", "invite", "lookup", "create"}

\* A request past the check of its input has an input that passed it.
Inputs ==
  /\ \A u \in Users : pc[u] \in {"ticket", "invite", "lookup", "create"} => name[u] \in Names
  /\ \A r \in RegisterReqs :
       pc[r] \in {"lookup", "create"} \cup HasOpened => arg[r] \in PasswordReqs
  /\ \A r \in Redeemers :
       pc[r] \in {"lookup", "create", "join", "mark", "ok"} => arg[r] \in MintReqs
  /\ \A r \in JoinReqs : pc[r] \in Running \cup {"ok"} => caller[r] \in Users

\* A signup opens its account in CreateAccount and not before; a connection has
\* its account before it sends join-server.
Accounts ==
  /\ \A u \in Users : pc[u] \in HasOpened => HasAccount(u) /\ username[u] = name[u]
  /\ \A u \in Users : pc[u] \in NotOpened => ~HasAccount(u)
  /\ \A r \in JoinReqs : pc[r] \in Running \cup {"ok"} => HasAccount(caller[r])

\* Whoever stands past a check of the claim stands in a claimed instance.
Claimed ==
  /\ \A r \in RegisterReqs :
       pc[r] \in {"setServerOwner", "addMember", "clear", "ok"} => owner # None
  /\ \A r \in MintReqs : pc[r] = "insert" => owner # None
  /\ \A r \in Redeemers : pc[r] \in {"lookup", "create", "join", "mark", "ok"}
                              => owner # None

\* Whoever stands past the membership row has been a member.
Admitted ==
  /\ \A r \in RegisterReqs : pc[r] \in {"clear", "ok"} => r \in members \cup kicked
  /\ \A r \in Redeemers : pc[r] \in {"mark", "ok"} => Account(r) \in members \cup kicked

\* A registration without a competitor finds what it wrote.
Alone(r) == \A q \in RegisterReqs \ {r} : ~HasAccount(q)
Sole ==
  \A r \in RegisterReqs :
    Alone(r) => /\ pc[r] \in {"setServerOwner", "addMember", "clear", "ok"} => owner = r
                /\ pc[r] \in {"addMember", "clear", "ok"} => serverOwner = r

\* A ticket is not in use before it is issued, and a registration past the check
\* holds one that was.
TicketUse ==
  /\ \A t \in PasswordReqs : pc[t] \in {"idle", "verify"} =>
       ticket # t /\ \A r \in RegisterReqs : arg[r] # t
  /\ SpentTicketStaysSpent

\* As long as statements succeed an invite that let somebody in is used, and a
\* late redeemer never gets past it.
Spent ==
  ~Faults =>
    /\ \A r \in Redeemers : pc[r] = "ok" => arg[r] \in used
    /\ \A r \in late :
         /\ arg[r] \in used
         /\ pc[r] \in {"invite", "refused", "lost"}
         /\ r \in SignupReqs => ~HasAccount(r)

\* The parts that are proved together.
Typed == TypeOK /\ Inputs
Opened == Accounts /\ UniqueNames
ClaimedFirst == Claimed /\ ClaimComesFirst

IInv == Typed /\ Opened /\ ClaimedFirst /\ Admitted /\ Sole /\ TicketUse /\ Spent

-----------------------------------------------------------------------------
\* Types and inputs are preserved by every step.
LEMMA TypedStep == Typed /\ [Next]_vars => Typed'
<1> SUFFICES ASSUME Typed, [Next]_vars PROVE Typed'
  OBVIOUS
<1> USE RequestsAssumption, NoneAssumption, BoundsAssumption
    DEF Users, Redeemers, Requests, tables, inputs, history, At, Goto, Errs,
        Typed, TypeOK, Inputs, HasOpened, Running, Ended, SaysClaimed,
        SaysUnclaimed, HasAccount
<1>1. ASSUME NEW r \in PasswordReqs, StartPassword(r) PROVE Typed'
  BY <1>1 DEF StartPassword
<1>2. ASSUME NEW r \in PasswordReqs, VerifyPassword(r) PROVE Typed'
  BY <1>2 DEF VerifyPassword
<1>3. ASSUME NEW r \in RegisterReqs, StartRegister(r) PROVE Typed'
  BY <1>3 DEF StartRegister, KnownTickets
<1>4. ASSUME NEW r \in RegisterReqs, ValidateTicket(r) PROVE Typed'
  <2>1. CASE arg[r] # None /\ arg[r] = ticket
    <3>1. /\ pc' = [pc EXCEPT ![r] = "lookup"]
          /\ arg[r] \in PasswordReqs /\ name[r] \in Names
      BY <1>4, <2>1 DEF ValidateTicket
    <3>2. QED
      BY <1>4, <3>1 DEF ValidateTicket
  <2>2. CASE ~(arg[r] # None /\ arg[r] = ticket)
    BY <1>4, <2>2 DEF ValidateTicket
  <2>3. QED
    BY <2>1, <2>2
<1>5. ASSUME NEW r \in RegisterReqs, SetOwnerSetting(r) PROVE Typed'
  BY <1>5 DEF SetOwnerSetting
<1>6. ASSUME NEW r \in RegisterReqs, SetServerOwner(r) PROVE Typed'
  BY <1>6 DEF SetServerOwner
<1>7. ASSUME NEW r \in RegisterReqs, AddOwnerAsMember(r) PROVE Typed'
  BY <1>7 DEF AddOwnerAsMember
<1>8. ASSUME NEW r \in RegisterReqs, InvalidateTicket(r) PROVE Typed'
  BY <1>8 DEF InvalidateTicket
<1>9. ASSUME NEW r \in Users, LookupName(r) PROVE Typed'
  BY <1>9 DEF LookupName
<1>10. ASSUME NEW r \in Users, CreateAccount(r) PROVE Typed'
  BY <1>10 DEF CreateAccount, AfterSignup
<1>11. ASSUME NEW r \in MintReqs, StartMint(r) PROVE Typed'
  BY <1>11 DEF StartMint
<1>12. ASSUME NEW r \in MintReqs, CreateInvite(r) PROVE Typed'
  BY <1>12 DEF CreateInvite
<1>13. ASSUME NEW r \in SignupReqs, StartSignup(r) PROVE Typed'
  BY <1>13 DEF StartSignup, PresentInvite, KnownInvites
<1>14. ASSUME NEW r \in JoinReqs, StartJoin(r) PROVE Typed'
  BY <1>14 DEF StartJoin, PresentInvite, KnownInvites
<1>15. ASSUME NEW r \in Redeemers, GetInvite(r) PROVE Typed'
  <2>1. CASE InviteLive(arg[r]) /\ pc' = [pc EXCEPT ![r] = AfterInvite(r)]
    <3>1. CASE r \in SignupReqs
      <4>1. /\ pc' = [pc EXCEPT ![r] = "lookup"]
            /\ arg[r] \in MintReqs /\ name[r] \in Names
        BY <1>15, <2>1, <3>1 DEF GetInvite, AfterInvite, InviteLive
      <4>2. QED
        BY <1>15, <3>1, <4>1 DEF GetInvite
    <3>2. CASE r \in JoinReqs
      <4>1. /\ pc' = [pc EXCEPT ![r] = "join"]
            /\ arg[r] \in MintReqs /\ caller[r] \in Users
        BY <1>15, <2>1, <3>2 DEF GetInvite, AfterInvite, InviteLive
      <4>2. QED
        BY <1>15, <3>2, <4>1 DEF GetInvite
    <3>3. QED
      BY <3>1, <3>2
  <2>2. CASE pc' = [pc EXCEPT ![r] = "refused"]
    BY <1>15, <2>2 DEF GetInvite
  <2>3. CASE Errs(r)
    BY <1>15, <2>3 DEF GetInvite
  <2>4. QED
    BY <1>15, <2>1, <2>2, <2>3 DEF GetInvite
<1>16. ASSUME NEW r \in Redeemers, AddMember(r) PROVE Typed'
  BY <1>16 DEF AddMember, Account
<1>17. ASSUME NEW r \in Redeemers, MarkUsed(r) PROVE Typed'
  BY <1>17 DEF MarkUsed
<1>18. ASSUME NEW u \in Users, KickServer(u) PROVE Typed'
  BY <1>18 DEF KickServer
<1>19. ASSUME NEW i \in MintReqs, ExpireInvite(i) PROVE Typed'
  BY <1>19 DEF ExpireInvite
<1>20. CASE ExpireTicket
  BY <1>20 DEF ExpireTicket
<1>21. CASE RestartProcess
  BY <1>21 DEF RestartProcess
<1>22. CASE UNCHANGED vars
  BY <1>22 DEF vars
<1>23. QED
  BY <1>1, <1>2, <1>3, <1>4, <1>5, <1>6, <1>7, <1>8, <1>9, <1>10, <1>11, <1>12, <1>13, <1>14, <1>15, <1>16, <1>17, <1>18, <1>19, <1>20, <1>21, <1>22
     DEF Next, Step, Register, Signup, Mint, Redeem

\* Accounts are opened where the program counters say, and under free names.
LEMMA OpenedStep == Typed /\ Opened /\ [Next]_vars => Opened'
<1> SUFFICES ASSUME Typed /\ Opened, [Next]_vars PROVE Opened'
  OBVIOUS
<1> USE RequestsAssumption, NoneAssumption, BoundsAssumption
    DEF Users, Redeemers, Requests, tables, inputs, history, At, Goto, Errs,
        Typed, TypeOK, Inputs, Opened, Accounts, HasOpened, NotOpened,
        UniqueNames, NameTaken, Running, Ended, SaysClaimed, SaysUnclaimed,
        HasAccount
<1>1. ASSUME NEW r \in PasswordReqs, StartPassword(r) PROVE Opened'
  BY <1>1 DEF StartPassword
<1>2. ASSUME NEW r \in PasswordReqs, VerifyPassword(r) PROVE Opened'
  BY <1>2 DEF VerifyPassword
<1>3. ASSUME NEW r \in RegisterReqs, StartRegister(r) PROVE Opened'
  BY <1>3 DEF StartRegister, KnownTickets
<1>4. ASSUME NEW r \in RegisterReqs, ValidateTicket(r) PROVE Opened'
  BY <1>4 DEF ValidateTicket
<1>5. ASSUME NEW r \in RegisterReqs, SetOwnerSetting(r) PROVE Opened'
  BY <1>5 DEF SetOwnerSetting
<1>6. ASSUME NEW r \in RegisterReqs, SetServerOwner(r) PROVE Opened'
  BY <1>6 DEF SetServerOwner
<1>7. ASSUME NEW r \in RegisterReqs, AddOwnerAsMember(r) PROVE Opened'
  BY <1>7 DEF AddOwnerAsMember
<1>8. ASSUME NEW r \in RegisterReqs, InvalidateTicket(r) PROVE Opened'
  BY <1>8 DEF InvalidateTicket
<1>9. ASSUME NEW r \in Users, LookupName(r) PROVE Opened'
  BY <1>9 DEF LookupName
<1>10. ASSUME NEW r \in Users, CreateAccount(r) PROVE Opened'
  BY <1>10 DEF CreateAccount, AfterSignup
<1>11. ASSUME NEW r \in MintReqs, StartMint(r) PROVE Opened'
  BY <1>11 DEF StartMint
<1>12. ASSUME NEW r \in MintReqs, CreateInvite(r) PROVE Opened'
  BY <1>12 DEF CreateInvite
<1>13. ASSUME NEW r \in SignupReqs, StartSignup(r) PROVE Opened'
  BY <1>13 DEF StartSignup, PresentInvite, KnownInvites
<1>14. ASSUME NEW r \in JoinReqs, StartJoin(r) PROVE Opened'
  BY <1>14 DEF StartJoin, PresentInvite, KnownInvites
<1>15. ASSUME NEW r \in Redeemers, GetInvite(r) PROVE Opened'
  BY <1>15 DEF GetInvite, AfterInvite, InviteLive
<1>16. ASSUME NEW r \in Redeemers, AddMember(r) PROVE Opened'
  BY <1>16 DEF AddMember, Account
<1>17. ASSUME NEW r \in Redeemers, MarkUsed(r) PROVE Opened'
  BY <1>17 DEF MarkUsed
<1>18. ASSUME NEW u \in Users, KickServer(u) PROVE Opened'
  BY <1>18 DEF KickServer
<1>19. ASSUME NEW i \in MintReqs, ExpireInvite(i) PROVE Opened'
  BY <1>19 DEF ExpireInvite
<1>20. CASE ExpireTicket
  BY <1>20 DEF ExpireTicket
<1>21. CASE RestartProcess
  BY <1>21 DEF RestartProcess
<1>22. CASE UNCHANGED vars
  BY <1>22 DEF vars
<1>23. QED
  BY <1>1, <1>2, <1>3, <1>4, <1>5, <1>6, <1>7, <1>8, <1>9, <1>10, <1>11, <1>12, <1>13, <1>14, <1>15, <1>16, <1>17, <1>18, <1>19, <1>20, <1>21, <1>22
     DEF Next, Step, Register, Signup, Mint, Redeem

\* Nothing that needs a claimed instance happens before the claim.
LEMMA ClaimedFirstStep == Typed /\ Opened /\ ClaimedFirst /\ [Next]_vars => ClaimedFirst'
<1> SUFFICES ASSUME Typed /\ Opened /\ ClaimedFirst, [Next]_vars PROVE ClaimedFirst'
  OBVIOUS
<1> USE RequestsAssumption, NoneAssumption, BoundsAssumption
    DEF Users, Redeemers, Requests, tables, inputs, history, At, Goto, Errs,
        Typed, TypeOK, Inputs, Opened, Accounts, HasOpened, NotOpened,
        ClaimedFirst, Claimed, ClaimComesFirst, Running, Ended, SaysClaimed,
        SaysUnclaimed, HasAccount
<1>1. ASSUME NEW r \in PasswordReqs, StartPassword(r) PROVE ClaimedFirst'
  BY <1>1 DEF StartPassword
<1>2. ASSUME NEW r \in PasswordReqs, VerifyPassword(r) PROVE ClaimedFirst'
  BY <1>2 DEF VerifyPassword
<1>3. ASSUME NEW r \in RegisterReqs, StartRegister(r) PROVE ClaimedFirst'
  BY <1>3 DEF StartRegister, KnownTickets
<1>4. ASSUME NEW r \in RegisterReqs, ValidateTicket(r) PROVE ClaimedFirst'
  BY <1>4 DEF ValidateTicket
<1>5. ASSUME NEW r \in RegisterReqs, SetOwnerSetting(r) PROVE ClaimedFirst'
  BY <1>5 DEF SetOwnerSetting
<1>6. ASSUME NEW r \in RegisterReqs, SetServerOwner(r) PROVE ClaimedFirst'
  BY <1>6 DEF SetServerOwner
<1>7. ASSUME NEW r \in RegisterReqs, AddOwnerAsMember(r) PROVE ClaimedFirst'
  BY <1>7 DEF AddOwnerAsMember
<1>8. ASSUME NEW r \in RegisterReqs, InvalidateTicket(r) PROVE ClaimedFirst'
  BY <1>8 DEF InvalidateTicket
<1>9. ASSUME NEW r \in Users, LookupName(r) PROVE ClaimedFirst'
  BY <1>9 DEF LookupName
<1>10. ASSUME NEW r \in Users, CreateAccount(r) PROVE ClaimedFirst'
  BY <1>10 DEF CreateAccount, AfterSignup
<1>11. ASSUME NEW r \in MintReqs, StartMint(r) PROVE ClaimedFirst'
  BY <1>11 DEF StartMint
<1>12. ASSUME NEW r \in MintReqs, CreateInvite(r) PROVE ClaimedFirst'
  BY <1>12 DEF CreateInvite
<1>13. ASSUME NEW r \in SignupReqs, StartSignup(r) PROVE ClaimedFirst'
  BY <1>13 DEF StartSignup, PresentInvite, KnownInvites
<1>14. ASSUME NEW r \in JoinReqs, StartJoin(r) PROVE ClaimedFirst'
  BY <1>14 DEF StartJoin, PresentInvite, KnownInvites
<1>15. ASSUME NEW r \in Redeemers, GetInvite(r) PROVE ClaimedFirst'
  BY <1>15 DEF GetInvite, AfterInvite, InviteLive
<1>16. ASSUME NEW r \in Redeemers, AddMember(r) PROVE ClaimedFirst'
  BY <1>16 DEF AddMember, Account
<1>17. ASSUME NEW r \in Redeemers, MarkUsed(r) PROVE ClaimedFirst'
  BY <1>17 DEF MarkUsed
<1>18. ASSUME NEW u \in Users, KickServer(u) PROVE ClaimedFirst'
  BY <1>18 DEF KickServer
<1>19. ASSUME NEW i \in MintReqs, ExpireInvite(i) PROVE ClaimedFirst'
  BY <1>19 DEF ExpireInvite
<1>20. CASE ExpireTicket
  BY <1>20 DEF ExpireTicket
<1>21. CASE RestartProcess
  BY <1>21 DEF RestartProcess
<1>22. CASE UNCHANGED vars
  BY <1>22 DEF vars
<1>23. QED
  BY <1>1, <1>2, <1>3, <1>4, <1>5, <1>6, <1>7, <1>8, <1>9, <1>10, <1>11, <1>12, <1>13, <1>14, <1>15, <1>16, <1>17, <1>18, <1>19, <1>20, <1>21, <1>22
     DEF Next, Step, Register, Signup, Mint, Redeem

\* A membership that was written is there until it is kicked.
LEMMA AdmittedStep == Typed /\ Admitted /\ [Next]_vars => Admitted'
<1> SUFFICES ASSUME Typed /\ Admitted, [Next]_vars PROVE Admitted'
  OBVIOUS
<1> USE RequestsAssumption, NoneAssumption, BoundsAssumption
    DEF Users, Redeemers, Requests, tables, inputs, history, At, Goto, Errs,
        Typed, TypeOK, Inputs, Admitted, Account, Running, Ended, SaysClaimed,
        SaysUnclaimed, HasAccount
<1>1. ASSUME NEW r \in PasswordReqs, StartPassword(r) PROVE Admitted'
  BY <1>1 DEF StartPassword
<1>2. ASSUME NEW r \in PasswordReqs, VerifyPassword(r) PROVE Admitted'
  BY <1>2 DEF VerifyPassword
<1>3. ASSUME NEW r \in RegisterReqs, StartRegister(r) PROVE Admitted'
  BY <1>3 DEF StartRegister, KnownTickets
<1>4. ASSUME NEW r \in RegisterReqs, ValidateTicket(r) PROVE Admitted'
  BY <1>4 DEF ValidateTicket
<1>5. ASSUME NEW r \in RegisterReqs, SetOwnerSetting(r) PROVE Admitted'
  BY <1>5 DEF SetOwnerSetting
<1>6. ASSUME NEW r \in RegisterReqs, SetServerOwner(r) PROVE Admitted'
  BY <1>6 DEF SetServerOwner
<1>7. ASSUME NEW r \in RegisterReqs, AddOwnerAsMember(r) PROVE Admitted'
  BY <1>7 DEF AddOwnerAsMember
<1>8. ASSUME NEW r \in RegisterReqs, InvalidateTicket(r) PROVE Admitted'
  BY <1>8 DEF InvalidateTicket
<1>9. ASSUME NEW r \in Users, LookupName(r) PROVE Admitted'
  BY <1>9 DEF LookupName
<1>10. ASSUME NEW r \in Users, CreateAccount(r) PROVE Admitted'
  BY <1>10 DEF CreateAccount, AfterSignup
<1>11. ASSUME NEW r \in MintReqs, StartMint(r) PROVE Admitted'
  BY <1>11 DEF StartMint
<1>12. ASSUME NEW r \in MintReqs, CreateInvite(r) PROVE Admitted'
  BY <1>12 DEF CreateInvite
<1>13. ASSUME NEW r \in SignupReqs, StartSignup(r) PROVE Admitted'
  BY <1>13 DEF StartSignup, PresentInvite, KnownInvites
<1>14. ASSUME NEW r \in JoinReqs, StartJoin(r) PROVE Admitted'
  BY <1>14 DEF StartJoin, PresentInvite, KnownInvites
<1>15. ASSUME NEW r \in Redeemers, GetInvite(r) PROVE Admitted'
  BY <1>15 DEF GetInvite, AfterInvite, InviteLive
<1>16. ASSUME NEW r \in Redeemers, AddMember(r) PROVE Admitted'
  BY <1>16 DEF AddMember, Account
<1>17. ASSUME NEW r \in Redeemers, MarkUsed(r) PROVE Admitted'
  BY <1>17 DEF MarkUsed
<1>18. ASSUME NEW u \in Users, KickServer(u) PROVE Admitted'
  BY <1>18 DEF KickServer
<1>19. ASSUME NEW i \in MintReqs, ExpireInvite(i) PROVE Admitted'
  BY <1>19 DEF ExpireInvite
<1>20. CASE ExpireTicket
  BY <1>20 DEF ExpireTicket
<1>21. CASE RestartProcess
  BY <1>21 DEF RestartProcess
<1>22. CASE UNCHANGED vars
  BY <1>22 DEF vars
<1>23. QED
  BY <1>1, <1>2, <1>3, <1>4, <1>5, <1>6, <1>7, <1>8, <1>9, <1>10, <1>11, <1>12, <1>13, <1>14, <1>15, <1>16, <1>17, <1>18, <1>19, <1>20, <1>21, <1>22
     DEF Next, Step, Register, Signup, Mint, Redeem

\* Only a registration with an account overwrites an owner.
LEMMA SoleStep == Typed /\ Opened /\ Sole /\ [Next]_vars => Sole'
<1> SUFFICES ASSUME Typed /\ Opened /\ Sole, [Next]_vars PROVE Sole'
  OBVIOUS
<1> USE RequestsAssumption, NoneAssumption, BoundsAssumption
    DEF Users, Redeemers, Requests, tables, inputs, history, At, Goto, Errs,
        Typed, TypeOK, Opened, Accounts, HasOpened, NotOpened, Sole, Alone,
        Running, Ended, SaysClaimed, SaysUnclaimed, HasAccount
<1>1. ASSUME NEW r \in PasswordReqs, StartPassword(r) PROVE Sole'
  BY <1>1 DEF StartPassword
<1>2. ASSUME NEW r \in PasswordReqs, VerifyPassword(r) PROVE Sole'
  BY <1>2 DEF VerifyPassword
<1>3. ASSUME NEW r \in RegisterReqs, StartRegister(r) PROVE Sole'
  BY <1>3 DEF StartRegister, KnownTickets
<1>4. ASSUME NEW r \in RegisterReqs, ValidateTicket(r) PROVE Sole'
  BY <1>4 DEF ValidateTicket
<1>5. ASSUME NEW r \in RegisterReqs, SetOwnerSetting(r) PROVE Sole'
  BY <1>5 DEF SetOwnerSetting
<1>6. ASSUME NEW r \in RegisterReqs, SetServerOwner(r) PROVE Sole'
  BY <1>6 DEF SetServerOwner
<1>7. ASSUME NEW r \in RegisterReqs, AddOwnerAsMember(r) PROVE Sole'
  BY <1>7 DEF AddOwnerAsMember
<1>8. ASSUME NEW r \in RegisterReqs, InvalidateTicket(r) PROVE Sole'
  BY <1>8 DEF InvalidateTicket
<1>9. ASSUME NEW r \in Users, LookupName(r) PROVE Sole'
  BY <1>9 DEF LookupName
<1>10. ASSUME NEW r \in Users, CreateAccount(r) PROVE Sole'
  BY <1>10 DEF CreateAccount, AfterSignup
<1>11. ASSUME NEW r \in MintReqs, StartMint(r) PROVE Sole'
  BY <1>11 DEF StartMint
<1>12. ASSUME NEW r \in MintReqs, CreateInvite(r) PROVE Sole'
  BY <1>12 DEF CreateInvite
<1>13. ASSUME NEW r \in SignupReqs, StartSignup(r) PROVE Sole'
  BY <1>13 DEF StartSignup, PresentInvite, KnownInvites
<1>14. ASSUME NEW r \in JoinReqs, StartJoin(r) PROVE Sole'
  BY <1>14 DEF StartJoin, PresentInvite, KnownInvites
<1>15. ASSUME NEW r \in Redeemers, GetInvite(r) PROVE Sole'
  BY <1>15 DEF GetInvite, AfterInvite, InviteLive
<1>16. ASSUME NEW r \in Redeemers, AddMember(r) PROVE Sole'
  BY <1>16 DEF AddMember, Account
<1>17. ASSUME NEW r \in Redeemers, MarkUsed(r) PROVE Sole'
  BY <1>17 DEF MarkUsed
<1>18. ASSUME NEW u \in Users, KickServer(u) PROVE Sole'
  BY <1>18 DEF KickServer
<1>19. ASSUME NEW i \in MintReqs, ExpireInvite(i) PROVE Sole'
  BY <1>19 DEF ExpireInvite
<1>20. CASE ExpireTicket
  BY <1>20 DEF ExpireTicket
<1>21. CASE RestartProcess
  BY <1>21 DEF RestartProcess
<1>22. CASE UNCHANGED vars
  BY <1>22 DEF vars
<1>23. QED
  BY <1>1, <1>2, <1>3, <1>4, <1>5, <1>6, <1>7, <1>8, <1>9, <1>10, <1>11, <1>12, <1>13, <1>14, <1>15, <1>16, <1>17, <1>18, <1>19, <1>20, <1>21, <1>22
     DEF Next, Step, Register, Signup, Mint, Redeem

\* A ticket that has been presented is never issued again.
LEMMA TicketUseStep == Typed /\ TicketUse /\ [Next]_vars => TicketUse'
<1> SUFFICES ASSUME Typed /\ TicketUse, [Next]_vars PROVE TicketUse'
  OBVIOUS
<1> USE RequestsAssumption, NoneAssumption, BoundsAssumption
    DEF Users, Redeemers, Requests, tables, inputs, history, At, Goto, Errs,
        Typed, TypeOK, Inputs, HasOpened, TicketUse, SpentTicketStaysSpent,
        Running, Ended, SaysClaimed, SaysUnclaimed, HasAccount
<1>1. ASSUME NEW r \in PasswordReqs, StartPassword(r) PROVE TicketUse'
  BY <1>1 DEF StartPassword
<1>2. ASSUME NEW r \in PasswordReqs, VerifyPassword(r) PROVE TicketUse'
  BY <1>2 DEF VerifyPassword
<1>3. ASSUME NEW r \in RegisterReqs, StartRegister(r) PROVE TicketUse'
  BY <1>3 DEF StartRegister, KnownTickets
<1>4. ASSUME NEW r \in RegisterReqs, ValidateTicket(r) PROVE TicketUse'
  BY <1>4 DEF ValidateTicket
<1>5. ASSUME NEW r \in RegisterReqs, SetOwnerSetting(r) PROVE TicketUse'
  BY <1>5 DEF SetOwnerSetting
<1>6. ASSUME NEW r \in RegisterReqs, SetServerOwner(r) PROVE TicketUse'
  BY <1>6 DEF SetServerOwner
<1>7. ASSUME NEW r \in RegisterReqs, AddOwnerAsMember(r) PROVE TicketUse'
  BY <1>7 DEF AddOwnerAsMember
<1>8. ASSUME NEW r \in RegisterReqs, InvalidateTicket(r) PROVE TicketUse'
  BY <1>8 DEF InvalidateTicket
<1>9. ASSUME NEW r \in Users, LookupName(r) PROVE TicketUse'
  BY <1>9 DEF LookupName
<1>10. ASSUME NEW r \in Users, CreateAccount(r) PROVE TicketUse'
  BY <1>10 DEF CreateAccount, AfterSignup
<1>11. ASSUME NEW r \in MintReqs, StartMint(r) PROVE TicketUse'
  BY <1>11 DEF StartMint
<1>12. ASSUME NEW r \in MintReqs, CreateInvite(r) PROVE TicketUse'
  BY <1>12 DEF CreateInvite
<1>13. ASSUME NEW r \in SignupReqs, StartSignup(r) PROVE TicketUse'
  BY <1>13 DEF StartSignup, PresentInvite, KnownInvites
<1>14. ASSUME NEW r \in JoinReqs, StartJoin(r) PROVE TicketUse'
  BY <1>14 DEF StartJoin, PresentInvite, KnownInvites
<1>15. ASSUME NEW r \in Redeemers, GetInvite(r) PROVE TicketUse'
  BY <1>15 DEF GetInvite, AfterInvite, InviteLive
<1>16. ASSUME NEW r \in Redeemers, AddMember(r) PROVE TicketUse'
  BY <1>16 DEF AddMember, Account
<1>17. ASSUME NEW r \in Redeemers, MarkUsed(r) PROVE TicketUse'
  BY <1>17 DEF MarkUsed
<1>18. ASSUME NEW u \in Users, KickServer(u) PROVE TicketUse'
  BY <1>18 DEF KickServer
<1>19. ASSUME NEW i \in MintReqs, ExpireInvite(i) PROVE TicketUse'
  BY <1>19 DEF ExpireInvite
<1>20. CASE ExpireTicket
  BY <1>20 DEF ExpireTicket
<1>21. CASE RestartProcess
  BY <1>21 DEF RestartProcess
<1>22. CASE UNCHANGED vars
  BY <1>22 DEF vars
<1>23. QED
  BY <1>1, <1>2, <1>3, <1>4, <1>5, <1>6, <1>7, <1>8, <1>9, <1>10, <1>11, <1>12, <1>13, <1>14, <1>15, <1>16, <1>17, <1>18, <1>19, <1>20, <1>21, <1>22
     DEF Next, Step, Register, Signup, Mint, Redeem

\* Late redeemers go no further than the check that stops them.
LEMMA SpentStep == Typed /\ Opened /\ Spent /\ [Next]_vars => Spent'
<1> SUFFICES ASSUME Typed /\ Opened /\ Spent, [Next]_vars PROVE Spent'
  OBVIOUS
<1> USE RequestsAssumption, NoneAssumption, BoundsAssumption
    DEF Users, Redeemers, Requests, tables, inputs, history, At, Goto, Errs,
        Typed, TypeOK, Opened, Accounts, HasOpened, NotOpened, Spent,
        LetIn, Running, Ended, SaysClaimed, SaysUnclaimed,
        HasAccount
<1>1. ASSUME NEW r \in PasswordReqs, StartPassword(r) PROVE Spent'
  BY <1>1 DEF StartPassword
<1>2. ASSUME NEW r \in PasswordReqs, VerifyPassword(r) PROVE Spent'
  BY <1>2 DEF VerifyPassword
<1>3. ASSUME NEW r \in RegisterReqs, StartRegister(r) PROVE Spent'
  BY <1>3 DEF StartRegister, KnownTickets
<1>4. ASSUME NEW r \in RegisterReqs, ValidateTicket(r) PROVE Spent'
  BY <1>4 DEF ValidateTicket
<1>5. ASSUME NEW r \in RegisterReqs, SetOwnerSetting(r) PROVE Spent'
  BY <1>5 DEF SetOwnerSetting
<1>6. ASSUME NEW r \in RegisterReqs, SetServerOwner(r) PROVE Spent'
  BY <1>6 DEF SetServerOwner
<1>7. ASSUME NEW r \in RegisterReqs, AddOwnerAsMember(r) PROVE Spent'
  BY <1>7 DEF AddOwnerAsMember
<1>8. ASSUME NEW r \in RegisterReqs, InvalidateTicket(r) PROVE Spent'
  BY <1>8 DEF InvalidateTicket
<1>9. ASSUME NEW r \in Users, LookupName(r) PROVE Spent'
  BY <1>9 DEF LookupName
<1>10. ASSUME NEW r \in Users, CreateAccount(r) PROVE Spent'
  BY <1>10 DEF CreateAccount, AfterSignup
<1>11. ASSUME NEW r \in MintReqs, StartMint(r) PROVE Spent'
  BY <1>11 DEF StartMint
<1>12. ASSUME NEW r \in MintReqs, CreateInvite(r) PROVE Spent'
  BY <1>12 DEF CreateInvite
<1>13. ASSUME NEW r \in SignupReqs, StartSignup(r) PROVE Spent'
  BY <1>13 DEF StartSignup, PresentInvite, KnownInvites
<1>14. ASSUME NEW r \in JoinReqs, StartJoin(r) PROVE Spent'
  BY <1>14 DEF StartJoin, PresentInvite, KnownInvites
<1>15. ASSUME NEW r \in Redeemers, GetInvite(r) PROVE Spent'
  BY <1>15 DEF GetInvite, AfterInvite, InviteLive
<1>16. ASSUME NEW r \in Redeemers, AddMember(r) PROVE Spent'
  BY <1>16 DEF AddMember, Account
<1>17. ASSUME NEW r \in Redeemers, MarkUsed(r) PROVE Spent'
  <2> SUFFICES ASSUME ~Faults PROVE Spent'
    BY DEF Spent
  <2>1. /\ used' = used \cup {arg[r]}
        /\ pc' = [pc EXCEPT ![r] = "ok"]
        /\ UNCHANGED <<arg, late, username>>
    BY <1>17 DEF MarkUsed
  <2>2. r \notin late
    BY <1>17 DEF MarkUsed
  <2>3. \A q \in Redeemers : pc'[q] = "ok" => arg'[q] \in used'
    BY <2>1
  <2>4. \A q \in late' :
          /\ arg'[q] \in used'
          /\ pc'[q] \in {"invite", "refused", "lost"}
          /\ q \in SignupReqs => ~HasAccount(q)'
    BY <2>1, <2>2
  <2>5. QED
    BY <2>3, <2>4
<1>18. ASSUME NEW u \in Users, KickServer(u) PROVE Spent'
  BY <1>18 DEF KickServer
<1>19. ASSUME NEW i \in MintReqs, ExpireInvite(i) PROVE Spent'
  BY <1>19 DEF ExpireInvite
<1>20. CASE ExpireTicket
  BY <1>20 DEF ExpireTicket
<1>21. CASE RestartProcess
  <2>1. /\ UNCHANGED <<used, arg, late, username>>
        /\ \A q \in Redeemers :
             pc'[q] = IF pc[q] \in Running THEN "lost" ELSE pc[q]
    BY <1>21 DEF RestartProcess
  <2>2. QED
    BY <2>1
<1>22. CASE UNCHANGED vars
  BY <1>22 DEF vars
<1>23. QED
  BY <1>1, <1>2, <1>3, <1>4, <1>5, <1>6, <1>7, <1>8, <1>9, <1>10, <1>11, <1>12, <1>13, <1>14, <1>15, <1>16, <1>17, <1>18, <1>19, <1>20, <1>21, <1>22
     DEF Next, Step, Register, Signup, Mint, Redeem

-----------------------------------------------------------------------------
\* The inductive invariant holds of every behaviour.
THEOREM OnboardingInvariant == Spec => []IInv
<1>1. Init => IInv
  BY NoneAssumption, BoundsAssumption
  DEF Init, IInv, Typed, TypeOK, Inputs, Opened, Accounts, HasOpened, NotOpened,
      UniqueNames, HasAccount, ClaimedFirst, Claimed, ClaimComesFirst, Admitted, Sole,
      TicketUse, SpentTicketStaysSpent, Spent, Users,
      Redeemers, Requests, Running, At
<1>2. IInv /\ [Next]_vars => IInv'
  BY TypedStep, OpenedStep, ClaimedFirstStep, AdmittedStep, SoleStep, TicketUseStep,
     SpentStep DEF IInv
<1>3. QED
  BY <1>1, <1>2, PTL DEF Spec

\* Every variable keeps its type.
THEOREM TypeCorrect == Spec => []TypeOK
  BY OnboardingInvariant, PTL DEF IInv, Typed

\* No number of concurrent signups gives two accounts one username.
THEOREM NamesAreUnique == Spec => []UniqueNames
  BY OnboardingInvariant, PTL DEF IInv, Opened

\* No member, server owner or invite before the claim, and none without account.
THEOREM ClaimIsFirst == Spec => []ClaimComesFirst
  BY OnboardingInvariant, PTL DEF IInv, ClaimedFirst

\* An answered 200 or joined-server is never withdrawn except by a kick.
THEOREM SuccessLasts == Spec => []SuccessIsDurable
<1>1. IInv => SuccessIsDurable
  BY DEF IInv, Typed, Opened, Accounts, HasOpened, Admitted, SuccessIsDurable,
         Account, HasAccount, At, Users, Redeemers
<1>2. QED
  BY <1>1, OnboardingInvariant, PTL

\* A registration without a competitor owns the instance in both places.
THEOREM SoleClaimant == Spec => []SoleClaimantOwns
<1>1. IInv => SoleClaimantOwns
  BY DEF IInv, Sole, Alone, SoleClaimantOwns, At
<1>2. QED
  BY <1>1, OnboardingInvariant, PTL

\* A ticket somebody succeeded with never validates again.
THEOREM SpentTickets == Spec => []SpentTicketStaysSpent
  BY OnboardingInvariant, PTL DEF IInv, TicketUse

\* As long as statements succeed an invite that let somebody in lets nobody else
\* in who presents it afterwards.
THEOREM LateRedeemers == Spec => [](~Faults => LateRedeemersLeaveNoTrace)
<1>1. IInv => (~Faults => LateRedeemersLeaveNoTrace)
  <2> SUFFICES ASSUME IInv, ~Faults, NEW r \in late
               PROVE ~At(r, "ok") /\ (r \in SignupReqs => ~HasAccount(r) /\ r \notin members)
    BY DEF LateRedeemersLeaveNoTrace
  <2>1. pc[r] # "ok" /\ (r \in SignupReqs => ~HasAccount(r))
    <3>1. Spent
      BY DEF IInv
    <3>2. pc[r] \in {"invite", "refused", "lost"} /\ (r \in SignupReqs => ~HasAccount(r))
      BY <3>1 DEF Spent
    <3>3. QED
      BY <3>2
  <2>2. r \in SignupReqs => r # None
    BY NoneAssumption DEF Requests, Redeemers
  <2>3. QED
    BY <2>1, <2>2 DEF At, IInv, ClaimedFirst, ClaimComesFirst
<1>2. QED
  BY <1>1, OnboardingInvariant, PTL

-----------------------------------------------------------------------------
\* Onboarding implements Admission: opening an account, recording the owner,
\* writing a membership and kicking are its steps, everything else stutters.
THEOREM KeepsThePromise == Spec => PromiseSpec
<1> USE DEF Promise!HasAccount, Promise!vars
<1>1. Init => Promise!Init
  BY DEF Init, Promise!Init
<1>2. IInv /\ [Next]_vars => [Promise!Next]_(Promise!vars)
  <2> SUFFICES ASSUME IInv, [Next]_vars
               PROVE Promise!Next \/ UNCHANGED <<username, owner # None, members>>
    BY DEF Promise!Next
  <2> USE DEF tables, inputs, history, At, HasAccount
  <2>1. ASSUME NEW r \in RegisterReqs, SetOwnerSetting(r)
        PROVE Promise!Next \/ UNCHANGED <<username, owner # None, members>>
    <3>1. CASE owner' = owner
      BY <2>1, <3>1 DEF SetOwnerSetting
    <3>2. CASE owner' = r
      <4>1. r \in Users /\ HasAccount(r) /\ r # None
        BY <2>1, NoneAssumption
        DEF SetOwnerSetting, IInv, Opened, Accounts, HasOpened, Users, Requests
      <4>2. Promise!Claim(r)
        BY <2>1, <3>2, <4>1 DEF SetOwnerSetting, Promise!Claim
      <4>3. QED
        BY <4>1, <4>2 DEF Promise!Next
    <3>3. QED
      BY <2>1, <3>1, <3>2 DEF SetOwnerSetting
  <2>2. ASSUME NEW r \in Users, CreateAccount(r)
        PROVE Promise!Next \/ UNCHANGED <<username, owner # None, members>>
    <3>1. CASE UNCHANGED username
      BY <2>2, <3>1 DEF CreateAccount
    <3>2. CASE ~NameTaken(name[r]) /\ username' = [username EXCEPT ![r] = name[r]]
      <4>1. ~HasAccount(r) /\ name[r] \in Names
        BY <2>2 DEF CreateAccount, IInv, Opened, Accounts, NotOpened, Typed, Inputs
      <4>2. Promise!OpenAccount(r)
        BY <2>2, <3>2, <4>1 DEF CreateAccount, NameTaken, Promise!OpenAccount
      <4>3. QED
        BY <4>2 DEF Promise!Next
    <3>3. QED
      BY <2>2, <3>1, <3>2 DEF CreateAccount
  <2>3. ASSUME NEW u \in Users, HasAccount(u), owner # None, UNCHANGED <<username, owner>>,
               members' \in {members, members \cup {u}}
        PROVE Promise!Next \/ UNCHANGED <<username, owner # None, members>>
    BY <2>3 DEF Promise!Next, Promise!Admit
  <2>4. ASSUME NEW r \in RegisterReqs, AddOwnerAsMember(r)
        PROVE Promise!Next \/ UNCHANGED <<username, owner # None, members>>
    <3>1. r \in Users /\ HasAccount(r) /\ owner # None
      BY <2>4 DEF AddOwnerAsMember, IInv, Opened, Accounts, HasOpened, ClaimedFirst,
                  Claimed, Users
    <3>2. QED
      BY <2>3, <2>4, <3>1 DEF AddOwnerAsMember
  <2>5. ASSUME NEW r \in Redeemers, AddMember(r)
        PROVE Promise!Next \/ UNCHANGED <<username, owner # None, members>>
    <3>1. Account(r) \in Users /\ HasAccount(Account(r)) /\ owner # None
      BY <2>5 DEF AddMember, IInv, Opened, Accounts, HasOpened, ClaimedFirst, Claimed,
                  Users, Redeemers, Account, Typed, Inputs, Running
    <3>2. QED
      BY <2>3, <2>5, <3>1 DEF AddMember
  <2>6. ASSUME NEW u \in Users, KickServer(u)
        PROVE Promise!Next \/ UNCHANGED <<username, owner # None, members>>
    BY <2>6 DEF KickServer, IInv, ClaimedFirst, ClaimComesFirst, Promise!Next,
                Promise!Remove
  <2>7. ASSUME UNCHANGED <<owner, username, members>>
        PROVE UNCHANGED <<username, owner # None, members>>
    BY <2>7
  <2>8. QED
    BY <2>1, <2>2, <2>4, <2>5, <2>6, <2>7
    DEF Next, Step, Register, Signup, Mint, Redeem, StartPassword, VerifyPassword,
        StartRegister, ValidateTicket, SetServerOwner, InvalidateTicket, LookupName,
        StartMint, CreateInvite, StartSignup, StartJoin, GetInvite, MarkUsed,
        ExpireTicket, ExpireInvite, RestartProcess, vars
<1>3. QED
  BY <1>1, <1>2, OnboardingInvariant, PTL DEF Spec, PromiseSpec, Promise!Spec
=============================================================================
