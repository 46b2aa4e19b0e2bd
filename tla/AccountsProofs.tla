--------------------------- MODULE AccountsProofs ---------------------------
(***************************************************************************)
(* Proofs about Accounts, for every set of calls, emails and names: its    *)
(* invariants, that it implements Membership, and, of RecordedSpec, that   *)
(* only handlers which meet use an email or an invitation twice.           *)
(***************************************************************************)
EXTENDS AccountsOverlaps, TLAPS

USE CallsAssumption, EarlierAssumption, ScopeAssumption

LEMMA AnyEmailIsEmail == AnyEmail \in Emails
  BY DEF AnyEmail

LEMMA AnyNameIsName == AnyName \in Names
  BY DEF AnyName

-----------------------------------------------------------------------------
(* What holds of each row and of each call *)

\* Where the call stands that has inserted a company, a user, an invitation.
Founded == Labels \ {"idle", "createCompany", "insertCompany"}
Enrolled == {"accept", "createCart", "done", "failed"}
Sent == {"mail", "done", "failed"}

\* A member who was invited is ahead of the mark on the invitation by one step only.
Marked(u) ==
    local[u.id].kind = "accept" =>
        LET i == local[u.id].target
        IN  /\ Exists(i) /\ invitations[i].company = u.company
            /\ pc[u.id] \in {"createCart", "done"} => invitations[i].status = "ACCEPTED"

UserHeld(u) == pc[u.id] \in Enrolled /\ IsCompany(u.company) /\ Marked(u)

\* Whoever sent an invitation cannot have gone.
InvitationHeld(i) ==
    Exists(i) =>
        /\ pc[i] \in Sent /\ pc[invitations[i].company] \in Founded
        /\ IsUser(invitations[i].inviter)

\* Which handler stands at which label.
Place(c) ==
    /\ pc[c] \in {"createCompany", "createAddress"} => local[c].kind = "signup"
    /\ pc[c] = "createUser" => local[c].kind \in {"signup", "accept"}
    /\ pc[c] = "accept" => local[c].kind = "accept"
    /\ pc[c] = "checkAccount" => local[c].kind \in {"accept", "invite"}
    /\ pc[c] = "createInvitation" => local[c].kind = "invite"

\* The company of a founder has an address as long as it exists.
Housed(c) ==
    /\ pc[c] = "createCompany" => local[c].company = None
    /\ pc[c] = "createAddress" => local[c].company = c
    /\ pc[c] = "createUser" /\ local[c].kind = "signup" /\ local[c].company # None
       => local[c].company = c /\ (IsCompany(c) => c \in addresses)

\* An acceptance under way keeps its invitation as long as the company exists.
AcceptHeld(c) ==
    pc[c] \in {"checkAccount", "createUser"} /\ local[c].kind = "accept" =>
        LET i == local[c].target
            k == local[c].company
        IN  /\ k # None /\ pc[i] \in Sent /\ pc[k] \in Founded
            /\ IsCompany(k) =>
                  /\ Exists(i) /\ invitations[i].company = k
                  /\ invitations[i].email = local[c].email

CallHeld(c) == Place(c) /\ Housed(c) /\ AcceptHeld(c)

\* An account has its id and its email for itself.
UsersByKey == \A u, v \in users : u.email = v.email \/ u.id = v.id => u = v

\* None of the properties is inductive by itself: they hold because each handler has
\* written the other rows before, and because nobody can have deleted one of them without
\* the rest.
AccountsInv ==
    /\ TypeOK /\ UsersByKey
    /\ FoundersHaveAddress /\ AnsweredCanLogin
    /\ \A u \in users : UserHeld(u)
    /\ \A k \in companies : pc[k.id] \in Founded
    /\ \A i \in Calls : InvitationHeld(i)
    /\ \A c \in Calls : CallHeld(c)

-----------------------------------------------------------------------------
(* What a step does to the calls *)

\* How a handler goes on: the labels between which it may step.
Onward(from, to) ==
    \/ to \in {"done", "failed"} /\ from \in Labels \ (Enrolled \cup {"idle"})
    \/ <<from, to>> \in {<<"createCompany", "createAddress">>, <<"createCompany", "createUser">>,
                         <<"createAddress", "createUser">>, <<"createUser", "createCart">>,
                         <<"createUser", "accept">>, <<"checkAccount", "createUser">>,
                         <<"checkAccount", "createInvitation">>, <<"accept", "createCart">>,
                         <<"accept", "failed">>, <<"createCart", "done">>,
                         <<"createCart", "failed">>, <<"createInvitation", "mail">>,
                         <<"deleteUser", "expire">>}

LEMMA StepCalls ==
    ASSUME TypeOK, NEW c \in Calls, NEW from, NEW to \in Labels, Step(c, from, to)
    PROVE  /\ pc[c] = from /\ pc'[c] = to /\ UNCHANGED local
           /\ \A d \in Calls \ {c} : pc'[d] = pc[d]
           /\ pc' \in [Calls -> Labels]
  BY DEF Step, TypeOK

\* What every further step does to the calls.
LEMMA ContinueCalls ==
    ASSUME TypeOK, NEW c \in Calls, Continue(c)
    PROVE  /\ Onward(pc[c], pc'[c])
           /\ pc' \in [Calls -> Labels] /\ local' \in [Calls -> Local]
           /\ \A d \in Calls \ {c} : pc'[d] = pc[d] /\ local'[d] = local[d]
           /\ local'[c].kind = local[c].kind /\ local'[c].target = local[c].target
           /\ pc[c] \notin {"createCompany", "createAddress"} => local'[c] = local[c]
<1>0. /\ local \in [Calls -> Local] /\ local[c] \in Local
  BY DEF TypeOK
<1>1. ASSUME NEW from \in Labels, NEW to \in Labels, Step(c, from, to), Onward(from, to)
      PROVE  /\ Onward(pc[c], pc'[c])
             /\ pc' \in [Calls -> Labels] /\ UNCHANGED local
             /\ \A d \in Calls \ {c} : pc'[d] = pc[d]
  BY <1>1, StepCalls
<1>2. ASSUME NEW to \in {"createAddress", "createUser"}, NEW k \in Calls \cup {None},
             Onward(pc[c], to), pc[c] \in {"createCompany", "createAddress"},
             pc' = [pc EXCEPT ![c] = to], local' = [local EXCEPT ![c].company = k]
      PROVE  /\ Onward(pc[c], pc'[c])
             /\ pc' \in [Calls -> Labels] /\ local' \in [Calls -> Local]
             /\ \A d \in Calls \ {c} : pc'[d] = pc[d] /\ local'[d] = local[d]
             /\ local'[c].kind = local[c].kind /\ local'[c].target = local[c].target
  <2>1. [local[c] EXCEPT !.company = k] \in Local
    BY <1>0 DEF Local
  <2>2. local' \in [Calls -> Local]
    BY <1>0, <1>2, <2>1
  <2>3. local'[c] = [local[c] EXCEPT !.company = k]
    BY <1>0, <1>2
  <2>4. local'[c].kind = local[c].kind /\ local'[c].target = local[c].target
    BY <1>0, <2>3 DEF Local
  <2> QED
    BY <1>0, <1>2, <2>2, <2>4 DEF TypeOK, Labels
<1>3. CASE CreateCompany(c) \/ AddressLost(c)
  <2>1. /\ pc[c] \in {"createCompany", "createAddress"}
        /\ \E to \in {"createAddress", "createUser"}, k \in Calls \cup {None} :
              /\ Onward(pc[c], to)
              /\ pc' = [pc EXCEPT ![c] = to] /\ local' = [local EXCEPT ![c].company = k]
    BY <1>3 DEF CreateCompany, AddressLost, Onward
  <2> QED
    BY <1>2, <2>1
<1>4. CASE CompanyTaken(c) \/ CreateAddress(c) \/ PasswordRefused(c) \/ CreateUser(c)
           \/ UserRefused(c) \/ CreateCart(c) \/ CartRefused(c)
  BY <1>0, <1>1, <1>4 DEF CompanyTaken, CreateAddress, PasswordRefused, CreateUser, UserRefused,
                    CreateCart, CartRefused, Onward, Labels, Enrolled
<1>5. CASE AccountChecked(c) \/ AccountTaken(c) \/ MarkAccepted(c) \/ InvitationGone(c)
           \/ CreateInvitation(c) \/ InvitationRefused(c) \/ SendMail(c) \/ MailFailed(c)
  BY <1>0, <1>1, <1>5
     DEF AccountChecked, AccountTaken, MarkAccepted, InvitationGone, CreateInvitation,
         InvitationRefused, SendMail, MailFailed, Onward, Labels, Enrolled
<1>6. CASE DeleteUser(c) \/ DeleteUserRefused(c) \/ ExpireInvitations(c) \/ InsertCompany(c)
           \/ CompanyRefused(c) \/ DeleteCompany(c) \/ DeleteCompanyRefused(c)
  BY <1>0, <1>1, <1>6 DEF DeleteUser, DeleteUserRefused, ExpireInvitations, InsertCompany,
                    CompanyRefused, DeleteCompany, DeleteCompanyRefused, Onward, Labels,
                    Enrolled
<1>7. CASE StatementFails(c)
  <2>1. PICK label \in Labels \ {"idle", "done", "failed", "createCompany", "createAddress",
                                 "mail"} : Step(c, label, "failed")
    BY <1>7 DEF StatementFails, Labels
  <2>2. Onward(label, "failed") /\ "failed" \in Labels
    BY DEF Onward, Labels, Enrolled
  <2> QED
    BY <1>0, <1>1, <2>1, <2>2
<1> QED
  BY <1>3, <1>4, <1>5, <1>6, <1>7 DEF Continue

\* A call that arrives: it writes nothing, and holds what it has read.
Arrival(c, l, label) ==
    /\ Arrive(c, l, label)
    /\ \/ l.kind = "signup" /\ label = "createCompany" /\ l.company = None
       \/ /\ l.kind = "accept" /\ label = "checkAccount"
          /\ Usable(l.target) /\ l.company = invitations[l.target].company
          /\ l.email = invitations[l.target].email
       \/ l.kind = "invite" /\ label = "checkAccount" /\ PendingFor(l.email) = {}
       \/ l.kind = label /\ label \in {"deleteUser", "deleteCompany"}
       \/ l.kind = "createCompany" /\ label = "insertCompany"

LEMMA LocalsType ==
    ASSUME NEW kind \in Kinds, NEW e \in Emails, NEW n \in Names, NEW k \in Calls \cup {None},
           NEW t \in Calls, NEW valid \in BOOLEAN
    PROVE  Locals(kind, e, n, k, t, valid) \in Local
  BY DEF Locals, Local

LEMMA ReadArrives ==
    ASSUME TypeOK, NEW c \in Calls, Read(c)
    PROVE  \E l \in Local, label \in Labels : Arrival(c, l, label)
<1> USE AnyEmailIsEmail, AnyNameIsName
<1>1. ASSUME NEW e \in Emails, NEW n \in Names, NEW valid \in BOOLEAN,
             SignupRead(c, e, n, valid)
      PROVE  \E l \in Local, label \in Labels : Arrival(c, l, label)
  <2> DEFINE l == Locals("signup", e, n, None, c, valid)
  <2>1. l \in Local
    BY LocalsType DEF Kinds
  <2>2. Arrival(c, l, "createCompany")
    BY <1>1 DEF SignupRead, Arrival, Locals
  <2> QED
    BY <2>1, <2>2 DEF Labels
<1>2. ASSUME NEW i \in Calls, AcceptRead(c, i)
      PROVE  \E l \in Local, label \in Labels : Arrival(c, l, label)
  <2> DEFINE l == Locals("accept", invitations[i].email, AnyName, invitations[i].company, i,
                         TRUE)
  <2>1. invitations[i].email \in Emails /\ invitations[i].company \in Calls
    BY DEF TypeOK, Invitation
  <2>2. l \in Local
    BY <2>1, LocalsType DEF Kinds
  <2>3. Arrival(c, l, "checkAccount")
    BY <1>2 DEF AcceptRead, Arrival, Locals
  <2> QED
    BY <2>2, <2>3 DEF Labels
<1>3. ASSUME NEW k \in Ids, NEW u \in Ids, NEW e \in Emails, InviteRead(c, k, u, e)
      PROVE  \E l \in Local, label \in Labels : Arrival(c, l, label)
  <2> DEFINE l == Locals("invite", e, AnyName, k, u, TRUE)
  <2>1. l \in Local
    BY LocalsType DEF Kinds
  <2>2. Arrival(c, l, "checkAccount")
    BY <1>3 DEF InviteRead, Arrival, Locals
  <2> QED
    BY <2>1, <2>2 DEF Labels
<1>4. ASSUME NEW u \in users, DeleteUserRead(c, u)
      PROVE  \E l \in Local, label \in Labels : Arrival(c, l, label)
  <2> DEFINE l == Locals("deleteUser", u.email, AnyName, u.company, u.id, TRUE)
  <2>1. u.id \in Calls /\ u.company \in Calls /\ u.email \in Emails
    BY DEF TypeOK, User
  <2>2. l \in Local
    BY <2>1, LocalsType DEF Kinds
  <2>3. Arrival(c, l, "deleteUser")
    BY <1>4 DEF DeleteUserRead, Arrival, Locals
  <2> QED
    BY <2>2, <2>3 DEF Labels
<1>5. ASSUME NEW n \in Names, CompanyRead(c, n)
      PROVE  \E l \in Local, label \in Labels : Arrival(c, l, label)
  <2> DEFINE l == Locals("createCompany", AnyEmail, n, None, c, TRUE)
  <2>1. l \in Local
    BY LocalsType DEF Kinds
  <2>2. Arrival(c, l, "insertCompany")
    BY <1>5 DEF CompanyRead, Arrival, Locals
  <2> QED
    BY <2>1, <2>2 DEF Labels
<1>6. ASSUME NEW k \in companies, DeleteCompanyRead(c, k)
      PROVE  \E l \in Local, label \in Labels : Arrival(c, l, label)
  <2> DEFINE l == Locals("deleteCompany", AnyEmail, k.name, k.id, c, TRUE)
  <2>1. k.id \in Calls /\ k.name \in Names
    BY DEF TypeOK, Company
  <2>2. l \in Local
    BY <2>1, LocalsType DEF Kinds
  <2>3. Arrival(c, l, "deleteCompany")
    BY <1>6 DEF DeleteCompanyRead, Arrival, Locals
  <2> QED
    BY <2>2, <2>3 DEF Labels
<1> QED
  BY <1>1, <1>2, <1>3, <1>4, <1>5, <1>6 DEF Read

tables == <<users, carts, companies, addresses, invitations>>

\* What an arrival does to the calls.
LEMMA ArrivalCalls ==
    ASSUME TypeOK, NEW c \in Calls, NEW l \in Local, NEW label \in Labels,
           Arrival(c, l, label)
    PROVE  /\ pc[c] = "idle" /\ pc'[c] = label /\ local'[c] = l
           /\ \A d \in Calls \ {c} : pc'[d] = pc[d] /\ local'[d] = local[d]
           /\ pc' \in [Calls -> Labels] /\ local' \in [Calls -> Local]
           /\ UNCHANGED tables /\ UNCHANGED lapsed
  BY DEF Arrival, Arrive, TypeOK, tables

LEMMA CrashCalls ==
    ASSUME TypeOK, Crash
    PROVE  /\ UNCHANGED tables /\ UNCHANGED <<lapsed, local>>
           /\ \A d \in Calls : pc'[d] = IF Active(d) THEN "failed" ELSE pc[d]
           /\ pc' \in [Calls -> Labels]
  BY DEF Crash, TypeOK, Labels, tables, firms

\* The labels behind which rows stand are never left, and what a call is about never
\* changes.
LEMMA Evolution ==
    ASSUME TypeOK, [Next]_vars, NEW d \in Calls
    PROVE  /\ pc[d] \in Enrolled => pc'[d] \in Enrolled
           /\ pc[d] \in Founded => pc'[d] \in Founded
           /\ pc[d] \in Sent => pc'[d] \in Sent
           /\ pc[d] # "idle" =>
                 local'[d].kind = local[d].kind /\ local'[d].target = local[d].target
           /\ pc[d] \notin {"idle", "createCompany", "createAddress"} => local'[d] = local[d]
           /\ pc[d] \in {"done", "failed"} => pc'[d] = pc[d]
<1> USE DEF Enrolled, Founded, Sent
<1>1. CASE pc'[d] = pc[d] /\ local'[d] = local[d]
  BY <1>1
<1>2. ASSUME NEW c \in Calls, Continue(c), d = c
      PROVE  /\ pc[d] \in Enrolled => pc'[d] \in Enrolled
             /\ pc[d] \in Founded => pc'[d] \in Founded
             /\ pc[d] \in Sent => pc'[d] \in Sent
             /\ pc[d] # "idle" =>
                   local'[d].kind = local[d].kind /\ local'[d].target = local[d].target
             /\ pc[d] \notin {"idle", "createCompany", "createAddress"} =>
                   local'[d] = local[d]
             /\ pc[d] \in {"done", "failed"} => pc'[d] = pc[d]
  <2>1. /\ Onward(pc[d], pc'[d]) /\ pc'[d] \in Labels
        /\ local'[d].kind = local[d].kind /\ local'[d].target = local[d].target
        /\ pc[d] \notin {"createCompany", "createAddress"} => local'[d] = local[d]
    BY <1>2, ContinueCalls
  <2> QED
    BY <2>1 DEF Onward, Labels
<1>3. ASSUME NEW c \in Calls, Continue(c), d # c
      PROVE  pc'[d] = pc[d] /\ local'[d] = local[d]
  BY <1>3, ContinueCalls
<1>4. ASSUME NEW c \in Calls, Read(c)
      PROVE  pc[d] = "idle" \/ (pc'[d] = pc[d] /\ local'[d] = local[d])
  BY <1>4, ReadArrives, ArrivalCalls
<1>5. CASE Crash
  BY <1>5, CrashCalls DEF Active, Labels
<1>6. CASE UNCHANGED vars \/ \E i \in Calls : Lapse(i)
  BY <1>1, <1>6 DEF vars, Lapse
<1> QED
  BY <1>1, <1>2, <1>3, <1>4, <1>5, <1>6 DEF Next

-----------------------------------------------------------------------------
(* What a step does to the tables *)

\* The steps that write.
Writes(c) ==
    \/ CreateCompany(c) \/ InsertCompany(c) \/ CreateAddress(c) \/ CreateUser(c)
    \/ CreateCart(c) \/ MarkAccepted(c) \/ CreateInvitation(c) \/ ExpireInvitations(c)
    \/ DeleteUser(c) \/ DeleteCompany(c)

LEMMA OnlyWrites ==
    ASSUME TypeOK, [Next]_vars
    PROVE  UNCHANGED tables \/ \E c \in Calls : Continue(c) /\ Writes(c)
<1>1. ASSUME NEW c \in Calls, Continue(c) PROVE UNCHANGED tables \/ Writes(c)
  BY <1>1
     DEF Continue, Writes, CompanyTaken, AddressLost, PasswordRefused, UserRefused, CartRefused,
         AccountChecked, AccountTaken, InvitationGone, InvitationRefused, SendMail, MailFailed,
         DeleteUserRefused, CompanyRefused, DeleteCompanyRefused, StatementFails, tables, firms
<1>2. ASSUME NEW c \in Calls, Read(c) PROVE UNCHANGED tables
  BY <1>2, ReadArrives, ArrivalCalls
<1>3. CASE Crash \/ UNCHANGED vars \/ \E i \in Calls : Lapse(i)
  BY <1>3 DEF Crash, vars, Lapse, tables, firms
<1> QED
  BY <1>1, <1>2, <1>3 DEF Next

\* A company whose call has gone past the insert does not come back.
LEMMA NoNewCompany ==
    ASSUME TypeOK, [Next]_vars, NEW k \in Calls, pc[k] \in Founded, IsCompany(k)'
    PROVE  IsCompany(k)
<1>1. CASE UNCHANGED companies
  BY <1>1 DEF IsCompany
<1>2. ASSUME NEW c \in Calls, CreateCompany(c) \/ InsertCompany(c) PROVE IsCompany(k)
  BY <1>2 DEF CreateCompany, InsertCompany, Step, IsCompany, Founded
<1>3. ASSUME NEW c \in Calls, DeleteCompany(c) PROVE IsCompany(k)
  BY <1>3 DEF DeleteCompany, IsCompany
<1> QED
  BY <1>1, <1>2, <1>3, OnlyWrites
     DEF Writes, CreateAddress, CreateUser, CreateCart, MarkAccepted, CreateInvitation,
         ExpireInvitations, DeleteUser, firms, tables

\* An address goes only with its company.
LEMMA AddressesStay ==
    ASSUME TypeOK, [Next]_vars, NEW k \in addresses, IsCompany(k)'
    PROVE  k \in addresses'
<1>1. CASE UNCHANGED addresses
  BY <1>1
<1>2. ASSUME NEW c \in Calls, CreateAddress(c) PROVE k \in addresses'
  BY <1>2 DEF CreateAddress
<1>3. ASSUME NEW c \in Calls, DeleteCompany(c) PROVE k \in addresses'
  BY <1>3 DEF DeleteCompany, IsCompany
<1> QED
  BY <1>1, <1>2, <1>3, OnlyWrites
     DEF Writes, CreateCompany, InsertCompany, CreateUser, CreateCart, MarkAccepted,
         CreateInvitation, ExpireInvitations, DeleteUser, firms, tables

\* Members come by CreateUser only.
LEMMA NewMember ==
    ASSUME TypeOK, [Next]_vars, NEW u \in users', u \notin users
    PROVE  \E c \in Calls : CreateUser(c) /\ u = NewUser(c)
<1>1. ASSUME NEW c \in Calls, Writes(c), ~CreateUser(c) PROVE FALSE
  BY <1>1
     DEF Writes, CreateCompany, InsertCompany, CreateAddress, CreateCart, MarkAccepted,
         CreateInvitation, ExpireInvitations, DeleteUser, DeleteCompany, firms
<1> QED
  BY <1>1, OnlyWrites DEF CreateUser, tables

\* An invitation comes from CreateInvitation only, is pending no longer than it has been, and
\* never changes sides or its email.
LEMMA NewInvitation ==
    ASSUME TypeOK, [Next]_vars, NEW i \in Calls, Exists(i)'
    PROVE  \/ CreateInvitation(i)
           \/ /\ Exists(i)
              /\ invitations'[i].company = invitations[i].company
              /\ invitations'[i].inviter = invitations[i].inviter
              /\ invitations'[i].email = invitations[i].email
              /\ Pending(i)' => Pending(i)
<1>1. CASE UNCHANGED invitations
  BY <1>1 DEF Exists, Pending
<1>2. ASSUME NEW c \in Calls, CreateInvitation(c), c # i
      PROVE  invitations'[i] = invitations[i]
  BY <1>2 DEF CreateInvitation, TypeOK
<1>3. ASSUME NEW c \in Calls, MarkAccepted(c)
      PROVE  /\ Exists(i)
             /\ invitations'[i].company = invitations[i].company
             /\ invitations'[i].inviter = invitations[i].inviter
             /\ invitations'[i].email = invitations[i].email
             /\ Pending(i)' => Pending(i)
  BY <1>3 DEF MarkAccepted, Exists, Pending, TypeOK, Invitation, Local
<1>4. ASSUME NEW c \in Calls, ExpireInvitations(c)
      PROVE  /\ Exists(i)
             /\ invitations'[i].company = invitations[i].company
             /\ invitations'[i].inviter = invitations[i].inviter
             /\ invitations'[i].email = invitations[i].email
             /\ Pending(i)' => Pending(i)
  BY <1>4 DEF ExpireInvitations, Exists, PendingFor, Pending, TypeOK, Invitation
<1>5. ASSUME NEW c \in Calls, DeleteCompany(c)
      PROVE  Exists(i) /\ invitations'[i] = invitations[i]
  BY <1>5 DEF DeleteCompany, Exists, AbsentRow, TypeOK
<1> QED
  BY <1>1, <1>2, <1>3, <1>4, <1>5, OnlyWrites
     DEF Writes, CreateCompany, InsertCompany, CreateAddress, CreateUser, CreateCart,
         DeleteUser, firms, tables, Exists, Pending

\* An invitation goes only with its company, and ACCEPTED is for good.
LEMMA InvitationsStay ==
    ASSUME TypeOK, [Next]_vars, NEW i \in Calls, Exists(i), pc[i] \in Sent,
           NEW k \in Calls, k = invitations[i].company, IsCompany(k)'
    PROVE  /\ Exists(i)'
           /\ invitations'[i].company = invitations[i].company
           /\ invitations'[i].email = invitations[i].email
           /\ invitations[i].status = "ACCEPTED" => invitations'[i].status = "ACCEPTED"
<1>1. CASE UNCHANGED invitations
  BY <1>1 DEF Exists
<1>2. ASSUME NEW c \in Calls, CreateInvitation(c) PROVE invitations'[i] = invitations[i]
  BY <1>2 DEF CreateInvitation, Step, Sent, TypeOK
<1>3. ASSUME NEW c \in Calls, MarkAccepted(c)
      PROVE  /\ Exists(i)'
             /\ invitations'[i].company = invitations[i].company
             /\ invitations'[i].email = invitations[i].email
             /\ invitations[i].status = "ACCEPTED" => invitations'[i].status = "ACCEPTED"
  BY <1>3 DEF MarkAccepted, Exists, TypeOK, Invitation, Local
<1>4. ASSUME NEW c \in Calls, ExpireInvitations(c)
      PROVE  /\ Exists(i)'
             /\ invitations'[i].company = invitations[i].company
             /\ invitations'[i].email = invitations[i].email
             /\ invitations[i].status = "ACCEPTED" => invitations'[i].status = "ACCEPTED"
  BY <1>4 DEF ExpireInvitations, Exists, PendingFor, Pending, TypeOK, Invitation
<1>5. ASSUME NEW c \in Calls, DeleteCompany(c) PROVE invitations'[i] = invitations[i]
  BY <1>5 DEF DeleteCompany, IsCompany, TypeOK
<1> QED
  BY <1>1, <1>2, <1>3, <1>4, <1>5, OnlyWrites
     DEF Writes, CreateCompany, InsertCompany, CreateAddress, CreateUser, CreateCart,
         DeleteUser, firms, tables, Exists

-----------------------------------------------------------------------------
(* Types *)

LEMMA InitType == Init => TypeOK
<1> SUFFICES ASSUME Init PROVE TypeOK
  OBVIOUS
<1> USE AnyEmailIsEmail, AnyNameIsName
<1>1. users \subseteq User
  BY DEF Init, User
<1>2. companies \subseteq Company
  BY DEF Init, Company
<1>3. invitations \in [Calls -> Invitation]
  <2>1. ASSUME NEW c \in Calls PROVE AbsentRow(c) \in Invitation
    BY DEF AbsentRow, Invitation
  <2>2. ASSUME NEW c \in Invited
        PROVE  [status |-> "PENDING", email |-> EmailOf[c], company |-> HostOf[c],
                inviter |-> HostOf[c]] \in Invitation
    BY DEF Invitation
  <2> QED
    BY <2>1, <2>2 DEF Init
<1>4. local \in [Calls -> Local]
  <2>1. \A c \in Calls : Locals("none", AnyEmail, AnyName, None, c, TRUE) \in Local
    BY DEF Locals, Local
  <2>2. local = [c \in Calls |-> Locals("none", AnyEmail, AnyName, None, c, TRUE)]
    BY DEF Init
  <2> QED
    BY <2>1, <2>2
<1> QED
  BY <1>1, <1>2, <1>3, <1>4 DEF Init, TypeOK, Labels

LEMMA NextType ==
    ASSUME TypeOK, [Next]_vars
    PROVE  TypeOK'
<1>1. pc' \in [Calls -> Labels] /\ local' \in [Calls -> Local]
  <2>1. ASSUME NEW c \in Calls, Continue(c)
        PROVE  pc' \in [Calls -> Labels] /\ local' \in [Calls -> Local]
    BY <2>1, ContinueCalls
  <2>2. ASSUME NEW c \in Calls, Read(c)
        PROVE  pc' \in [Calls -> Labels] /\ local' \in [Calls -> Local]
    BY <2>2, ReadArrives, ArrivalCalls
  <2>3. CASE Crash
    BY <2>3, CrashCalls DEF TypeOK
  <2>4. CASE UNCHANGED vars \/ \E i \in Calls : Lapse(i)
    BY <2>4 DEF vars, Lapse, TypeOK
  <2> QED
    BY <2>1, <2>2, <2>3, <2>4 DEF Next
<1>2. lapsed' \subseteq Calls
  <2>1. ASSUME NEW c \in Calls, Continue(c) PROVE UNCHANGED lapsed
    BY <2>1
       DEF Continue, CreateCompany, CompanyTaken, CreateAddress, AddressLost, PasswordRefused,
           CreateUser, UserRefused, AccountChecked, AccountTaken, CreateCart, CartRefused,
           MarkAccepted, InvitationGone, CreateInvitation, InvitationRefused, SendMail,
           MailFailed, DeleteUser, DeleteUserRefused, ExpireInvitations, InsertCompany,
           CompanyRefused, DeleteCompany, DeleteCompanyRefused, StatementFails, Step
  <2>2. ASSUME NEW c \in Calls, Read(c) PROVE UNCHANGED lapsed
    BY <2>2, ReadArrives, ArrivalCalls
  <2>3. CASE Crash \/ UNCHANGED vars \/ \E i \in Calls : Lapse(i)
    BY <2>3 DEF Crash, vars, Lapse, TypeOK
  <2> QED
    BY <2>1, <2>2, <2>3 DEF Next, TypeOK
<1>3. UNCHANGED tables =>
        /\ users' \subseteq User /\ carts' \subseteq Calls
        /\ companies' \subseteq Company /\ addresses' \subseteq Calls
        /\ invitations' \in [Calls -> Invitation]
  BY DEF tables, TypeOK
<1>4. ASSUME NEW c \in Calls, Writes(c)
      PROVE  /\ users' \subseteq User /\ carts' \subseteq Calls
             /\ companies' \subseteq Company /\ addresses' \subseteq Calls
             /\ invitations' \in [Calls -> Invitation]
  <2>0. local[c] \in Local /\ \A i \in Calls : invitations[i] \in Invitation
    BY DEF TypeOK
  <2>1. CASE CreateCompany(c) \/ InsertCompany(c)
    BY <2>0, <2>1 DEF CreateCompany, InsertCompany, firms, TypeOK, Company, Local
  <2>2. CASE CreateAddress(c) \/ CreateCart(c)
    BY <2>2 DEF CreateAddress, CreateCart, firms, TypeOK
  <2>3. CASE CreateUser(c)
    <3>1. local[c].company \in Calls
      BY <2>3 DEF CreateUser, Admissible, IsCompany, TypeOK, Company
    <3>2. NewUser(c) \in User
      BY <2>0, <3>1 DEF NewUser, User, Local
    <3> QED
      BY <2>3, <3>2 DEF CreateUser, firms, TypeOK
  <2>4. CASE CreateInvitation(c)
    <3>1. local[c].company \in Calls
      BY <2>4 DEF CreateInvitation, IsCompany, TypeOK, Company
    <3>2. [status |-> "PENDING", email |-> local[c].email, company |-> local[c].company,
           inviter |-> local[c].target] \in Invitation
      BY <2>0, <3>1 DEF Invitation, Local
    <3> QED
      BY <2>4, <3>2 DEF CreateInvitation, firms, TypeOK
  <2>5. CASE MarkAccepted(c)
    <3>1. local[c].target \in Calls
      BY <2>0 DEF Local
    <3>2. [invitations[local[c].target] EXCEPT !.status = "ACCEPTED"] \in Invitation
      BY <2>0, <3>1 DEF Invitation
    <3>3. invitations' \in [Calls -> Invitation]
      BY <2>5, <3>2 DEF MarkAccepted, TypeOK
    <3> QED
      BY <2>5, <3>3 DEF MarkAccepted, firms, TypeOK
  <2>6. CASE ExpireInvitations(c)
    <3>1. \A i \in Calls : [invitations[i] EXCEPT !.status = "EXPIRED"] \in Invitation
      BY <2>0 DEF Invitation
    <3>2. invitations' \in [Calls -> Invitation]
      BY <2>0, <2>6, <3>1 DEF ExpireInvitations
    <3> QED
      BY <2>6, <3>2 DEF ExpireInvitations, firms, TypeOK
  <2>7. CASE DeleteUser(c)
    BY <2>7 DEF DeleteUser, firms, TypeOK
  <2>8. CASE DeleteCompany(c)
    <3>1. \A i \in Calls : AbsentRow(i) \in Invitation
      BY AnyEmailIsEmail DEF AbsentRow, Invitation
    <3>2. invitations' \in [Calls -> Invitation]
      BY <2>0, <2>8, <3>1 DEF DeleteCompany
    <3> QED
      BY <2>8, <3>2 DEF DeleteCompany, TypeOK
  <2> QED
    BY <1>4, <2>1, <2>2, <2>3, <2>4, <2>5, <2>6, <2>7, <2>8 DEF Writes
<1> QED
  BY <1>1, <1>2, <1>3, <1>4, OnlyWrites DEF TypeOK

-----------------------------------------------------------------------------
(* The tables *)

LEMMA NextKeys ==
    ASSUME AccountsInv, [Next]_vars
    PROVE  UsersByKey'
<1> USE DEF AccountsInv, UsersByKey
<1>1. CASE users' \subseteq users
  BY <1>1
<1>2. ASSUME NEW c \in Calls, CreateUser(c)
      PROVE  UsersByKey'
  <2>1. \A u \in users : u.email # NewUser(c).email /\ u.id # NewUser(c).id
    BY <1>2 DEF CreateUser, Step, Admissible, Registered, NewUser, UserHeld, Enrolled
  <2>2. users' = users \cup {NewUser(c)}
    BY <1>2 DEF CreateUser, firms
  <2> QED
    BY <2>1, <2>2
<1>3. ASSUME NEW c \in Calls, Writes(c), ~CreateUser(c)
      PROVE  users' \subseteq users
  BY <1>3
     DEF Writes, CreateCompany, InsertCompany, CreateAddress, CreateCart, MarkAccepted,
         CreateInvitation, ExpireInvitations, DeleteUser, DeleteCompany, firms
<1> QED
  BY <1>1, <1>2, <1>3, OnlyWrites DEF tables

\* A company does not go before its members.
LEMMA NextEmployer ==
    ASSUME AccountsInv, [Next]_vars, NEW u \in users'
    PROVE  IsCompany(u.company)'
<1> USE DEF AccountsInv, UserHeld
<1>1. CASE UNCHANGED tables
  BY <1>1 DEF tables, IsCompany
<1>2. ASSUME NEW c \in Calls, CreateUser(c) PROVE IsCompany(u.company)'
  BY <1>2 DEF CreateUser, Admissible, NewUser, IsCompany, firms
<1>3. ASSUME NEW c \in Calls, DeleteCompany(c) PROVE IsCompany(u.company)'
  BY <1>3 DEF DeleteCompany, IsCompany
<1>4. ASSUME NEW c \in Calls, Writes(c), ~CreateUser(c), ~DeleteCompany(c)
      PROVE  IsCompany(u.company)'
  BY <1>4
     DEF Writes, CreateCompany, InsertCompany, CreateAddress, CreateCart, MarkAccepted,
         CreateInvitation, ExpireInvitations, DeleteUser, IsCompany, firms
<1> QED
  BY <1>1, <1>2, <1>3, <1>4, OnlyWrites

LEMMA NextFounded ==
    ASSUME AccountsInv, [Next]_vars, NEW k \in companies'
    PROVE  pc'[k.id] \in Founded
<1>0. TypeOK
  BY DEF AccountsInv
<1>1. CASE k \in companies
  <2>1. pc[k.id] \in Founded /\ k.id \in Calls
    BY <1>1 DEF AccountsInv, TypeOK, Company
  <2> QED
    BY <1>0, <2>1, Evolution
<1>2. CASE k \notin companies
  <2>1. PICK c \in Calls : CreateCompany(c) \/ InsertCompany(c)
    BY <1>0, <1>2, OnlyWrites
       DEF tables, Writes, CreateAddress, CreateUser, CreateCart, MarkAccepted,
           CreateInvitation, ExpireInvitations, DeleteUser, DeleteCompany, firms
  <2>2. k.id = c
    BY <1>2, <2>1 DEF CreateCompany, InsertCompany
  <2>3. pc'[c] \in {"createAddress", "failed"}
    BY <1>0, <2>1 DEF CreateCompany, InsertCompany, Step, TypeOK
  <2> QED
    BY <2>2, <2>3 DEF Founded, Labels
<1> QED
  BY <1>1, <1>2

\* A member goes alone only when no invitation names the member as its inviter, and with
\* the company only when those invitations go, too.
LEMMA InvitersStay ==
    ASSUME TypeOK, [Next]_vars, NEW i \in Calls, Exists(i), Exists(i)',
           NEW u \in users, u.id = invitations[i].inviter
    PROVE  u \in users'
<1>1. ASSUME NEW c \in Calls, DeleteUser(c) PROVE u \in users'
  BY <1>1 DEF DeleteUser, HasInvited
<1>2. ASSUME NEW c \in Calls, DeleteCompany(c) PROVE u \in users'
  <2>1. invitations[i].company # local[c].company
    BY <1>2 DEF DeleteCompany, Exists, AbsentRow, TypeOK
  <2> QED
    BY <1>2, <2>1 DEF DeleteCompany, HeldBack
<1>3. ASSUME NEW c \in Calls, Writes(c), ~DeleteUser(c), ~DeleteCompany(c) PROVE u \in users'
  BY <1>3
     DEF Writes, CreateCompany, InsertCompany, CreateAddress, CreateUser, CreateCart,
         MarkAccepted, CreateInvitation, ExpireInvitations, firms
<1> QED
  BY <1>1, <1>2, <1>3, OnlyWrites DEF tables

LEMMA NextInvitation ==
    ASSUME AccountsInv, [Next]_vars, NEW i \in Calls
    PROVE  InvitationHeld(i)'
<1> SUFFICES ASSUME Exists(i)',
                    NEW k \in Calls, k = invitations'[i].company
             PROVE  pc'[i] \in Sent /\ pc'[k] \in Founded /\ IsUser(invitations[i].inviter)'
  <2>1. invitations'[i] \in Invitation
    BY NextType DEF AccountsInv, TypeOK
  <2> QED
    BY <2>1 DEF InvitationHeld, Invitation
<1>0. TypeOK /\ InvitationHeld(i)
  BY DEF AccountsInv
<1>1. CASE CreateInvitation(i)
  <2>1. pc'[i] = "mail" /\ UNCHANGED users
    BY <1>0, <1>1 DEF CreateInvitation, Step, TypeOK
  <2>2. invitations'[i].inviter = local[i].target /\ k = local[i].company
    BY <1>0, <1>1 DEF CreateInvitation, TypeOK
  <2>3. IsUser(local[i].target) /\ IsCompany(k)
    BY <1>1, <2>2 DEF CreateInvitation
  <2>4. pc[k] \in Founded
    BY <2>3 DEF IsCompany, AccountsInv
  <2>5. pc'[k] \in Founded
    BY <1>0, <2>4, Evolution
  <2> QED
    BY <2>1, <2>2, <2>3, <2>5 DEF Sent, IsUser
<1>2. CASE ~CreateInvitation(i)
  <2>1. /\ Exists(i) /\ k = invitations[i].company
        /\ invitations'[i].inviter = invitations[i].inviter
    BY <1>0, <1>2, NewInvitation
  <2>2. pc'[i] \in Sent /\ pc'[k] \in Founded
    BY <1>0, <2>1, Evolution DEF InvitationHeld
  <2>3. PICK u \in users : u.id = invitations[i].inviter
    BY <1>0, <2>1 DEF InvitationHeld, IsUser
  <2>4. u \in users'
    BY <1>0, <2>1, <2>3, InvitersStay
  <2> QED
    BY <2>1, <2>2, <2>3, <2>4 DEF IsUser
<1> QED
  BY <1>1, <1>2

-----------------------------------------------------------------------------
(* The members *)

\* An address comes before the founder's account and goes with the company.
LEMMA NextAddress ==
    ASSUME AccountsInv, [Next]_vars
    PROVE  FoundersHaveAddress'
<1> SUFFICES ASSUME NEW u \in users', (local[u.id].kind # "accept")'
             PROVE  u.company \in addresses'
  BY DEF FoundersHaveAddress
<1>0. TypeOK
  BY DEF AccountsInv
<1>1. CASE u \in users
  <2>a. PICK d \in Calls : d = u.id
    BY <1>0, <1>1 DEF TypeOK, User
  <2>b. pc[d] \in Enrolled
    BY <1>1, <2>a DEF AccountsInv, UserHeld
  <2>c. local'[d] = local[d]
    BY <1>0, <2>b, Evolution DEF Enrolled
  <2>1. u.company \in addresses
    BY <1>1, <2>a, <2>c DEF AccountsInv, FoundersHaveAddress
  <2>2. IsCompany(u.company)'
    BY NextEmployer
  <2> QED
    BY <1>0, <2>1, <2>2, AddressesStay
<1>2. CASE u \notin users
  <2>1. PICK c \in Calls : CreateUser(c) /\ u = NewUser(c)
    BY <1>0, <1>2, NewMember
  <2>2. /\ u.id = c /\ u.company = local[c].company /\ UNCHANGED <<addresses, local>>
        /\ pc[c] = "createUser" /\ IsCompany(local[c].company)
    BY <2>1 DEF NewUser, CreateUser, Admissible, Step, firms
  <2>3. local[c].company # None
    BY <1>0, <2>2 DEF IsCompany, TypeOK, Company
  <2>4. local[c].kind = "signup"
    BY <2>2 DEF AccountsInv, CallHeld, Place
  <2> QED
    BY <2>2, <2>3, <2>4 DEF AccountsInv, CallHeld, Housed
<1> QED
  BY <1>1, <1>2

\* How a member's own call goes on.
LEMMA MemberStep ==
    ASSUME TypeOK, [Next]_vars, NEW d \in Calls, pc[d] \in {"accept", "createCart"}
    PROVE  \/ pc'[d] = pc[d]
           \/ pc'[d] = "failed"
           \/ pc[d] = "accept" /\ (MarkAccepted(d) \/ InvitationGone(d))
           \/ pc[d] = "createCart" /\ (CreateCart(d) \/ CartRefused(d))
<1>1. ASSUME NEW c \in Calls, Continue(c), d = c
      PROVE  \/ pc'[d] = "failed"
             \/ pc[d] = "accept" /\ (MarkAccepted(d) \/ InvitationGone(d))
             \/ pc[d] = "createCart" /\ (CreateCart(d) \/ CartRefused(d))
  <2>0. CASE StatementFails(c)
    BY <1>1, <2>0 DEF StatementFails, Step, TypeOK
  <2>1. CASE pc[c] = "accept"
    BY <1>1, <2>0, <2>1
       DEF Continue, CreateCompany, CompanyTaken, CreateAddress, AddressLost, PasswordRefused,
           CreateUser, UserRefused, AccountChecked, AccountTaken, CreateCart, CartRefused,
           CreateInvitation, InvitationRefused, SendMail, MailFailed, DeleteUser,
           DeleteUserRefused, ExpireInvitations, InsertCompany, CompanyRefused, DeleteCompany,
           DeleteCompanyRefused, Step
  <2>2. CASE pc[c] = "createCart"
    BY <1>1, <2>0, <2>2
       DEF Continue, CreateCompany, CompanyTaken, CreateAddress, AddressLost, PasswordRefused,
           CreateUser, UserRefused, AccountChecked, AccountTaken, MarkAccepted, InvitationGone,
           CreateInvitation, InvitationRefused, SendMail, MailFailed, DeleteUser,
           DeleteUserRefused, ExpireInvitations, InsertCompany, CompanyRefused, DeleteCompany,
           DeleteCompanyRefused, Step
  <2> QED
    BY <1>1, <2>1, <2>2
<1>2. ASSUME NEW c \in Calls, Continue(c), d # c PROVE pc'[d] = pc[d]
  BY <1>2, ContinueCalls
<1>3. ASSUME NEW c \in Calls, Read(c) PROVE pc'[d] = pc[d]
  BY <1>3, ReadArrives, ArrivalCalls
<1>4. CASE Crash
  BY <1>4, CrashCalls
<1>5. CASE UNCHANGED vars \/ \E i \in Calls : Lapse(i)
  BY <1>5 DEF vars, Lapse
<1> QED
  BY <1>1, <1>2, <1>3, <1>4, <1>5 DEF Next

\* A member who stays keeps the invitation, and nobody ends without having marked it.
LEMMA NextUser ==
    ASSUME AccountsInv, [Next]_vars, NEW u \in users'
    PROVE  UserHeld(u)'
<1>0. TypeOK /\ \A c \in Calls : CallHeld(c) /\ InvitationHeld(c)
  BY DEF AccountsInv
<1>1. CASE u \notin users
  <2>1. PICK c \in Calls : CreateUser(c) /\ u = NewUser(c)
    BY <1>0, <1>1, NewMember
  <2>2. /\ u.id = c /\ u.company = local[c].company /\ pc[c] = "createUser"
        /\ UNCHANGED <<invitations, local>>
        /\ pc'[c] = IF local[c].kind = "signup" THEN "createCart" ELSE "accept"
        /\ IsCompany(local[c].company)
    BY <1>0, <2>1 DEF NewUser, CreateUser, Admissible, Step, TypeOK
  <2>0. IsCompany(u.company)'
    BY NextEmployer
  <2>3. CASE local[c].kind = "signup"
    BY <2>0, <2>2, <2>3 DEF UserHeld, Enrolled, Marked
  <2>4. CASE local[c].kind = "accept"
    <3>0. local[c].company # None
      BY <1>0, <2>2 DEF IsCompany, TypeOK, Company
    <3>1. /\ Exists(local[c].target)
          /\ invitations[local[c].target].company = local[c].company
      BY <1>0, <3>0, <2>2, <2>4 DEF CallHeld, AcceptHeld
    <3>2. pc'[c] = "accept"
      BY <2>2, <2>4
    <3> QED
      BY <2>0, <2>2, <3>1, <3>2 DEF UserHeld, Enrolled, Marked, Exists
  <2> QED
    BY <1>0, <2>2, <2>3, <2>4 DEF CallHeld, Place
<1>2. CASE u \in users
  <2>a. PICK d \in Calls : d = u.id
    BY <1>0, <1>2 DEF TypeOK, User
  <2>b. PICK i \in Calls : i = local[d].target
    BY <1>0 DEF TypeOK, Local
  <2>c. PICK k \in Calls : k = u.company
    BY <1>0, <1>2 DEF TypeOK, User
  <2>0. local[d] \in Local
    BY <1>0 DEF TypeOK
  <2>1. pc[d] \in Enrolled /\ Marked(u)
    BY <1>2, <2>a DEF AccountsInv, UserHeld
  <2>2. pc'[d] \in Enrolled /\ local'[d] = local[d]
    BY <1>0, <2>0, <2>1, Evolution DEF Enrolled
  <2>6. IsCompany(u.company)'
    BY NextEmployer
  <2>3. SUFFICES ASSUME local[d].kind = "accept"
                 PROVE  /\ Exists(i)' /\ invitations'[i].company = u.company
                        /\ pc'[d] \in {"createCart", "done"} =>
                              invitations'[i].status = "ACCEPTED"
    BY <2>2, <2>6, <2>a, <2>b DEF UserHeld, Marked, Exists
  <2>5. /\ Exists(i) /\ invitations[i].company = u.company
        /\ pc[d] \in {"createCart", "done"} => invitations[i].status = "ACCEPTED"
    BY <2>1, <2>3, <2>a, <2>b DEF Marked
  <2>7. /\ Exists(i)' /\ invitations'[i].company = u.company
        /\ invitations[i].status = "ACCEPTED" => invitations'[i].status = "ACCEPTED"
    <3>1. pc[i] \in Sent
      BY <1>0, <2>0, <2>5 DEF InvitationHeld
    <3>2. IsCompany(k)'
      BY <2>6, <2>c DEF IsCompany
    <3>3. k = invitations[i].company
      BY <2>5, <2>c
    <3>4. /\ Exists(i)'
          /\ invitations'[i].company = invitations[i].company
          /\ invitations[i].status = "ACCEPTED" => invitations'[i].status = "ACCEPTED"
      BY <1>0, <2>5, <3>1, <3>2, <3>3, InvitationsStay
    <3> QED
      BY <2>5, <3>4
  <2>8. pc[d] = "accept" /\ pc'[d] \in {"createCart", "done"} =>
            invitations'[i].status = "ACCEPTED"
    <3> SUFFICES ASSUME pc[d] = "accept", pc'[d] \in {"createCart", "done"}
                 PROVE  invitations'[i].status = "ACCEPTED"
      OBVIOUS
    <3>1. MarkAccepted(d) \/ InvitationGone(d)
      BY <1>0, <2>0, MemberStep
    <3>2. MarkAccepted(d)
      BY <2>5, <2>b, <3>1 DEF InvitationGone
    <3>3. invitations[i] \in Invitation
      BY <1>0, <2>0 DEF TypeOK
    <3> QED
      BY <1>0, <2>0, <2>b, <3>2, <3>3 DEF MarkAccepted, TypeOK, Invitation
  <2>9. pc[d] = "failed" => pc'[d] = "failed"
    BY <1>0, Evolution
  <2> QED
    BY <2>1, <2>5, <2>7, <2>8, <2>9 DEF Enrolled
<1> QED
  BY <1>1, <1>2

\* Whoever is told that the signup has succeeded has a cart.
LEMMA NextLogin ==
    ASSUME AccountsInv, [Next]_vars
    PROVE  AnsweredCanLogin'
<1> SUFFICES ASSUME NEW u \in users', (pc[u.id] = "done")'
             PROVE  u.id \in carts'
  BY DEF AnsweredCanLogin
<1>0. TypeOK
  BY DEF AccountsInv
<1>1. CASE u \notin users
  <2>1. PICK c \in Calls : CreateUser(c) /\ u = NewUser(c)
    BY <1>0, <1>1, NewMember
  <2>2. u.id = c /\ pc'[c] \in {"createCart", "accept"}
    BY <1>0, <2>1 DEF NewUser, CreateUser, Step, TypeOK
  <2> QED
    BY <2>2
<1>2. CASE u \in users
  <2> DEFINE d == u.id
  <2>0. d \in Calls /\ pc[d] \in Enrolled /\ Marked(u) /\ (pc[d] = "done" => d \in carts)
    BY <1>0, <1>2 DEF AccountsInv, AnsweredCanLogin, UserHeld, TypeOK, User
  <2>1. pc'[d] = "done"
    OBVIOUS
  <2> HIDE DEF d
  <2>2. CASE d \in carts
    <3>1. d \in carts'
      <4>1. CASE UNCHANGED carts
        BY <2>2, <4>1
      <4>2. ASSUME NEW c \in Calls, CreateCart(c) PROVE d \in carts'
        BY <2>2, <4>2 DEF CreateCart
      <4>3. ASSUME NEW c \in Calls, DeleteUser(c) PROVE d \in carts'
        BY <2>2, <4>3 DEF DeleteUser, d
      <4>4. ASSUME NEW c \in Calls, DeleteCompany(c) PROVE d \in carts'
        BY <2>2, <4>4 DEF DeleteCompany, d
      <4> QED
        BY <1>0, <4>1, <4>2, <4>3, <4>4, OnlyWrites
           DEF Writes, CreateCompany, InsertCompany, CreateAddress, CreateUser, MarkAccepted,
               CreateInvitation, ExpireInvitations, tables
    <3> QED
      BY <3>1 DEF d
  <2>3. CASE d \notin carts
    <3>1. pc[d] \in {"accept", "createCart"}
      <4>1. pc[d] # "failed"
        BY <1>0, <2>0, <2>1, Evolution
      <4> QED
        BY <2>0, <2>3, <4>1 DEF Enrolled
    <3>2. CreateCart(d)
      <4>1. ASSUME MarkAccepted(d) \/ InvitationGone(d) \/ CartRefused(d) PROVE FALSE
        BY <1>0, <2>0, <2>1, <4>1 DEF MarkAccepted, InvitationGone, CartRefused, Step, TypeOK
      <4> QED
        BY <1>0, <2>0, <2>1, <3>1, <4>1, MemberStep
    <3> QED
      BY <3>2 DEF CreateCart, d
  <2> QED
    BY <2>2, <2>3
<1> QED
  BY <1>1, <1>2

-----------------------------------------------------------------------------
(* The calls under way *)

\* A call that does nothing, or goes on from its check, keeps what it holds.
LEMMA Carried ==
    ASSUME AccountsInv, [Next]_vars, NEW d \in Calls, local'[d] = local[d],
           pc[d] # "idle",
           \/ pc'[d] = pc[d]
           \/ pc[d] = "checkAccount" /\ pc'[d] \in {"createUser", "createInvitation"}
    PROVE  Housed(d)' /\ AcceptHeld(d)'
<1>0. TypeOK /\ CallHeld(d) /\ local[d] \in Local
  BY DEF AccountsInv, TypeOK
<1>1. ASSUME NEW k \in Calls, pc[k] \in Founded
      PROVE  /\ pc'[k] \in Founded
             /\ IsCompany(k)' => IsCompany(k)
             /\ k \in addresses /\ IsCompany(k)' => k \in addresses'
  BY <1>0, <1>1, Evolution, NoNewCompany, AddressesStay
<1>2. Housed(d)'
  <2>1. CASE pc'[d] = pc[d] /\ pc[d] # "createUser"
    BY <1>0, <2>1 DEF Housed, CallHeld
  <2>2. CASE pc[d] = "checkAccount" /\ local[d].kind # "signup"
    BY <2>2 DEF Housed
  <2>3. CASE pc[d] = "createUser" /\ pc'[d] = pc[d]
    <3>1. pc[d] \in Founded
      BY <2>3 DEF Founded, Labels
    <3>2. /\ IsCompany(d)' => IsCompany(d)
          /\ d \in addresses /\ IsCompany(d)' => d \in addresses'
      BY <1>1, <3>1
    <3> QED
      BY <1>0, <2>3, <3>2 DEF Housed, CallHeld
  <2> QED
    BY <1>0, <2>1, <2>2, <2>3 DEF CallHeld, Place
<1>3. AcceptHeld(d)'
  <2> SUFFICES ASSUME pc'[d] \in {"checkAccount", "createUser"}, local[d].kind = "accept",
                      NEW i \in Calls, i = local[d].target
               PROVE  /\ local[d].company # None /\ pc'[i] \in Sent
                      /\ \A k \in Calls : k = local[d].company =>
                            /\ pc'[k] \in Founded
                            /\ IsCompany(k)' =>
                                  /\ Exists(i)' /\ invitations'[i].company = k
                                  /\ invitations'[i].email = local[d].email
    BY <1>0 DEF AcceptHeld, Local, IsCompany, Exists
  <2>1. /\ local[d].company # None /\ pc[i] \in Sent
        /\ IsCompany(local[d].company) =>
              /\ Exists(i) /\ invitations[i].company = local[d].company
              /\ invitations[i].email = local[d].email
        /\ pc[local[d].company] \in Founded
    BY <1>0 DEF CallHeld, AcceptHeld
  <2>2. pc'[i] \in Sent
    BY <1>0, <2>1, Evolution
  <2>3. ASSUME NEW k \in Calls, k = local[d].company
        PROVE  /\ pc'[k] \in Founded
               /\ IsCompany(k)' =>
                     /\ Exists(i)' /\ invitations'[i].company = k
                     /\ invitations'[i].email = local[d].email
    BY <1>0, <1>1, <2>1, <2>3, InvitationsStay
  <2> QED
    BY <2>1, <2>2, <2>3
<1> QED
  BY <1>2, <1>3

\* The call that steps.
LEMMA ContinueHeld ==
    ASSUME AccountsInv, NEW c \in Calls, Continue(c)
    PROVE  CallHeld(c)'
<1>0. TypeOK /\ CallHeld(c) /\ [Next]_vars
  BY DEF AccountsInv, Next
<1>1. CASE pc'[c] \in {"done", "failed", "createCart", "mail", "expire"}
  BY <1>1 DEF CallHeld, Place, Housed, AcceptHeld
<1>2. CASE CreateCompany(c)
  <2>1. pc[c] = "createCompany" /\ pc'[c] = "createAddress" /\ local'[c].company = c
        /\ local'[c].kind = local[c].kind
    BY <1>0, <1>2, ContinueCalls DEF CreateCompany, TypeOK, Local, Continue
  <2> QED
    BY <1>0, <2>1 DEF CallHeld, Place, Housed, AcceptHeld
<1>3. CASE CompanyTaken(c) \/ AddressLost(c)
  <2>1. /\ pc[c] \in {"createCompany", "createAddress"} /\ pc'[c] = "createUser"
        /\ local'[c].company = None /\ local'[c].kind = local[c].kind
    BY <1>0, <1>3
       DEF CompanyTaken, AddressLost, Step, TypeOK, Local, CallHeld, Housed
  <2>2. local'[c].kind = "signup"
    BY <1>0, <2>1 DEF CallHeld, Place
  <2> QED
    BY <2>1, <2>2 DEF CallHeld, Place, Housed, AcceptHeld
<1>4. CASE CreateAddress(c)
  <2>1. /\ pc[c] = "createAddress" /\ pc'[c] = "createUser" /\ UNCHANGED local
        /\ c \in addresses'
    BY <1>0, <1>4 DEF CreateAddress, Step, TypeOK
  <2>2. local'[c].company = c /\ local'[c].kind = "signup"
    BY <1>0, <2>1 DEF CallHeld, Place, Housed
  <2> QED
    BY <2>1, <2>2 DEF CallHeld, Place, Housed, AcceptHeld, Founded, Labels
<1>5. CASE AccountChecked(c)
  <2>1. /\ pc[c] = "checkAccount" /\ UNCHANGED local
        /\ pc'[c] = IF local[c].kind = "accept" THEN "createUser" ELSE "createInvitation"
    BY <1>0, <1>5 DEF AccountChecked, Step, TypeOK
  <2>2. Place(c)'
    BY <1>0, <2>1 DEF CallHeld, Place
  <2>3. Housed(c)' /\ AcceptHeld(c)'
    BY <1>0, <2>1, Carried
  <2> QED
    BY <2>2, <2>3 DEF CallHeld
<1>6. CASE CreateUser(c)
  <2>1. /\ pc[c] = "createUser" /\ UNCHANGED local
        /\ pc'[c] = IF local[c].kind = "signup" THEN "createCart" ELSE "accept"
    BY <1>0, <1>6 DEF CreateUser, Step, TypeOK
  <2> QED
    BY <1>0, <2>1 DEF CallHeld, Place, Housed, AcceptHeld
<1>7. \/ CreateCompany(c) \/ CompanyTaken(c) \/ AddressLost(c) \/ CreateAddress(c)
      \/ AccountChecked(c) \/ CreateUser(c)
      \/ pc'[c] \in {"done", "failed", "createCart", "mail", "expire"}
  <2>1. ASSUME NEW from, NEW to \in Labels, Step(c, from, to) PROVE pc'[c] = to
    BY <1>0, <2>1, StepCalls
  <2> QED
    BY <2>1
       DEF Continue, PasswordRefused, UserRefused, AccountTaken, CreateCart, CartRefused,
           MarkAccepted, InvitationGone, CreateInvitation, InvitationRefused, SendMail,
           MailFailed, DeleteUser, DeleteUserRefused, ExpireInvitations, InsertCompany,
           CompanyRefused, DeleteCompany, DeleteCompanyRefused, StatementFails, Labels
<1> QED
  BY <1>1, <1>2, <1>3, <1>4, <1>5, <1>6, <1>7

\* The call that arrives.
LEMMA ReadHeld ==
    ASSUME AccountsInv, NEW c \in Calls, Read(c)
    PROVE  CallHeld(c)'
<1>0. TypeOK /\ [Next]_vars
  BY DEF AccountsInv, Next
<1> PICK l \in Local, label \in Labels : Arrival(c, l, label)
  BY <1>0, ReadArrives
<1>1. /\ pc'[c] = label /\ local'[c] = l /\ UNCHANGED tables
  BY <1>0, ArrivalCalls
<1>2. CASE /\ l.kind = "accept" /\ label = "checkAccount"
           /\ Usable(l.target) /\ l.company = invitations[l.target].company
           /\ l.email = invitations[l.target].email
  <2>1. l.target \in Calls /\ l.company \in Calls
    BY <1>0, <1>2 DEF Local, TypeOK, Invitation
  <2>2. pc[l.target] \in Sent /\ pc[l.company] \in Founded
    BY <1>2, <2>1 DEF AccountsInv, InvitationHeld, Usable
  <2>3. pc'[l.target] \in Sent /\ pc'[l.company] \in Founded
    BY <1>0, <2>1, <2>2, Evolution
  <2>4. /\ Exists(l.target)' /\ invitations'[l.target].company = l.company
        /\ invitations'[l.target].email = l.email
    BY <1>1, <1>2 DEF tables, Exists, Usable
  <2>5. AcceptHeld(c)'
    BY <1>1, <1>2, <2>1, <2>3, <2>4 DEF AcceptHeld
  <2> QED
    BY <1>1, <1>2, <2>5 DEF CallHeld, Place, Housed
<1>3. CASE \/ l.kind = "signup" /\ label = "createCompany" /\ l.company = None
           \/ l.kind = "invite" /\ label = "checkAccount"
           \/ l.kind = label /\ label \in {"deleteUser", "deleteCompany"}
           \/ l.kind = "createCompany" /\ label = "insertCompany"
  BY <1>1, <1>3 DEF CallHeld, Place, Housed, AcceptHeld
<1> QED
  BY <1>2, <1>3 DEF Arrival

LEMMA NextCall ==
    ASSUME AccountsInv, [Next]_vars, NEW d \in Calls
    PROVE  CallHeld(d)'
<1>0. TypeOK /\ CallHeld(d)
  BY DEF AccountsInv
<1>1. CASE pc'[d] = pc[d] /\ local'[d] = local[d]
  <2>1. CASE pc[d] = "idle"
    BY <1>1, <2>1 DEF CallHeld, Place, Housed, AcceptHeld
  <2>2. CASE pc[d] # "idle"
    BY <1>0, <1>1, <2>2, Carried DEF CallHeld, Place
  <2> QED
    BY <2>1, <2>2
<1>2. ASSUME NEW c \in Calls, Continue(c) PROVE CallHeld(d)'
  BY <1>0, <1>1, <1>2, ContinueHeld, ContinueCalls
<1>3. ASSUME NEW c \in Calls, Read(c) PROVE CallHeld(d)'
  BY <1>0, <1>1, <1>3, ReadHeld, ReadArrives, ArrivalCalls
<1>4. CASE Crash
  <2>1. CASE Active(d)
    BY <1>0, <1>4, <2>1, CrashCalls DEF CallHeld, Place, Housed, AcceptHeld
  <2>2. CASE ~Active(d)
    BY <1>0, <1>1, <1>4, <2>2, CrashCalls
  <2> QED
    BY <2>1, <2>2
<1>5. CASE UNCHANGED vars \/ \E i \in Calls : Lapse(i)
  BY <1>1, <1>5 DEF vars, Lapse
<1> QED
  BY <1>2, <1>3, <1>4, <1>5 DEF Next

-----------------------------------------------------------------------------
(* The theorems *)

LEMMA InitInv == Init => AccountsInv
<1> SUFFICES ASSUME Init PROVE AccountsInv
  OBVIOUS
<1> USE DEF Init
<1>1. TypeOK
  BY InitType
<1>2. \A c \in Calls : local[c].kind = "none" /\ pc[c] \in {"done", "idle"}
  BY DEF Locals
<1>3. ASSUME NEW f \in Founders PROVE IsUser(f) /\ IsCompany(f) /\ pc[f] = "done"
  <2>1. [id |-> f, email |-> EmailOf[f], company |-> f] \in users
    OBVIOUS
  <2>2. [id |-> f, name |-> NameOf[f]] \in companies
    OBVIOUS
  <2>3. IsUser(f)
    BY <2>1 DEF IsUser
  <2>4. IsCompany(f)
    BY <2>2 DEF IsCompany
  <2>5. pc[f] = "done"
    BY CallsAssumption
  <2> QED
    BY <2>3, <2>4, <2>5
<1>4. ASSUME NEW u \in users
      PROVE  u.id \in Founders /\ u.company = u.id /\ u.email = EmailOf[u.id]
  OBVIOUS
<1>5. ASSUME NEW i \in Calls, Exists(i)
      PROVE  /\ i \in Invited /\ pc[i] = "done"
             /\ invitations[i].inviter = HostOf[i] /\ invitations[i].company = HostOf[i]
             /\ HostOf[i] \in Founders
  BY <1>5 DEF Exists, AbsentRow
<1>6. UsersByKey
  BY DEF UsersByKey
<1>7. FoundersHaveAddress /\ AnsweredCanLogin
  BY <1>4 DEF FoundersHaveAddress, AnsweredCanLogin
<1>8. \A u \in users : UserHeld(u)
  BY <1>2, <1>3, <1>4 DEF UserHeld, Marked, Enrolled
<1>9. \A k \in companies : pc[k.id] \in Founded
  <2>1. \A k \in companies : k.id \in Founders
    OBVIOUS
  <2> QED
    BY <1>3, <2>1 DEF Founded, Labels
<1>10. \A i \in Calls : InvitationHeld(i)
  BY <1>3, <1>5 DEF InvitationHeld, Sent, Founded, Labels
<1>11. \A c \in Calls : CallHeld(c)
  BY <1>2 DEF CallHeld, Place, Housed, AcceptHeld
<1> QED
  BY <1>1, <1>6, <1>7, <1>8, <1>9, <1>10, <1>11 DEF AccountsInv

LEMMA NextInv ==
    ASSUME AccountsInv, [Next]_vars
    PROVE  AccountsInv'
<1>0. TypeOK
  BY DEF AccountsInv
<1>1. TypeOK' /\ UsersByKey' /\ FoundersHaveAddress' /\ AnsweredCanLogin'
  BY <1>0, NextType, NextKeys, NextAddress, NextLogin
<1>2. (\A u \in users : UserHeld(u))' /\ (\A k \in companies : pc[k.id] \in Founded)'
  BY NextUser, NextFounded
<1>3. (\A i \in Calls : InvitationHeld(i))' /\ (\A c \in Calls : CallHeld(c))'
  BY NextInvitation, NextCall
<1> QED
  BY <1>1, <1>2, <1>3 DEF AccountsInv

\* The inductive invariant holds in every reachable state, whatever interleaves, fails or
\* crashes.
THEOREM Invariant == Spec => []AccountsInv
  BY InitInv, NextInv, PTL DEF Spec

\* Every reachable state is well typed; nobody becomes a member of '', the id of no company.
THEOREM TypeCorrect == Spec => []TypeOK
<1>1. AccountsInv => TypeOK
  BY DEF AccountsInv
<1> QED
  BY Invariant, <1>1, PTL

\* Whoever founded a company has an address to ship to, whatever companyCreate swallowed and
\* whoever else is invited into the company.
THEOREM EveryFounderHasAddress == Spec => []FoundersHaveAddress
<1>1. AccountsInv => FoundersHaveAddress
  BY DEF AccountsInv
<1> QED
  BY Invariant, <1>1, PTL

\* Every member whose signup was answered with success has a cart, and so can log in.
THEOREM EveryAnsweredCanLogin == Spec => []AnsweredCanLogin
<1>1. AccountsInv => AnsweredCanLogin
  BY DEF AccountsInv
<1> QED
  BY Invariant, <1>1, PTL

\* The invitation of a member whose signup was answered with success is marked for good.
THEOREM InvitationsAreMarked == Spec => []AcceptedAfterSignup
<1>1. AccountsInv => AcceptedAfterSignup
  BY DEF AccountsInv, AcceptedAfterSignup, UserHeld, Marked
<1> QED
  BY Invariant, <1>1, PTL

-----------------------------------------------------------------------------
(* The handlers implement Membership *)

\* The row of an invitation that exists.
RowOf(i) == [id |-> i, email |-> invitations[i].email, company |-> invitations[i].company,
             inviter |-> invitations[i].inviter]

LEMMA RowsAre == Rows = {RowOf(i) : i \in {j \in Calls : Exists(j)}}
  BY DEF Rows, RowOf

\* Rows that stay or go, but never change or come.
LEMMA RowsStay ==
    ASSUME TypeOK, TypeOK',
           \A i \in Calls : /\ Exists(i)' <=> Exists(i)
                            /\ Exists(i) => /\ invitations'[i].email = invitations[i].email
                                            /\ invitations'[i].company = invitations[i].company
                                            /\ invitations'[i].inviter = invitations[i].inviter
    PROVE  Rows' = Rows
  BY DEF Rows

LEMMA InitPromise == Init => Ideal!Init
<1> SUFFICES ASSUME Init PROVE Ideal!Init
  OBVIOUS
<1>0. AccountsInv
  BY InitInv
<1>1. \A u, v \in users : u.email = v.email => u = v
  BY <1>0 DEF AccountsInv, UsersByKey
<1>2. ASSUME NEW r \in Rows PROVE \E u \in users : u.id = r.inviter
  <2>1. PICK i \in Calls : Exists(i) /\ r = RowOf(i)
    BY RowsAre
  <2>2. IsUser(invitations[i].inviter)
    BY <1>0, <2>1 DEF AccountsInv, InvitationHeld
  <2> QED
    BY <2>1, <2>2 DEF IsUser, RowOf
<1> QED
  BY <1>1, <1>2 DEF Ideal!Init

LEMMA CreateUserPromise ==
    ASSUME AccountsInv, NEW c \in Calls, CreateUser(c)
    PROVE  Ideal!Found(c) \/ Ideal!Join(c)
<1>0. TypeOK /\ CallHeld(c)
  BY DEF AccountsInv
<1> DEFINE e == local[c].email
           k == local[c].company
<1>1. e \in Emails
  BY <1>0 DEF TypeOK, Local
<1>2. /\ pc[c] = "createUser" /\ ~Registered(e) /\ IsCompany(k)
      /\ users' = users \cup {[id |-> c, email |-> e, company |-> k]} /\ UNCHANGED invitations
  BY DEF CreateUser, Step, Admissible, NewUser
<1>3. \A u \in users : u.id # c /\ u.email # e
  BY <1>2 DEF AccountsInv, UserHeld, Enrolled, Registered
<1>4. UNCHANGED Rows
  BY <1>2 DEF Rows, Exists
<1>5. Ideal!Admit(c, e, k)
  BY <1>2, <1>3, <1>4 DEF Ideal!Admit
<1>6. k \in Calls /\ k # None
  BY <1>0, <1>2 DEF IsCompany, TypeOK, Company
<1>7. CASE local[c].kind = "signup"
  <2>1. k = c
    BY <1>0, <1>2, <1>6, <1>7 DEF CallHeld, Housed
  <2> QED
    BY <1>1, <1>5, <2>1 DEF Ideal!Found
<1>8. CASE local[c].kind = "accept"
  <2>1. PICK i \in Calls : i = local[c].target
    BY <1>0 DEF TypeOK, Local
  <2>2. Exists(i) /\ invitations[i].company = k /\ invitations[i].email = e
    BY <1>0, <1>2, <1>8, <2>1 DEF CallHeld, AcceptHeld
  <2>3. RowOf(i) \in Rows /\ RowOf(i).email = e /\ RowOf(i).company = k
    BY <2>2, RowsAre DEF RowOf
  <2> QED
    BY <1>5, <2>3 DEF Ideal!Join
<1> QED
  BY <1>0, <1>2, <1>7, <1>8 DEF CallHeld, Place

LEMMA CreateInvitationPromise ==
    ASSUME AccountsInv, TypeOK', NEW c \in Calls, CreateInvitation(c)
    PROVE  Ideal!Issue(c)
<1>0. TypeOK
  BY DEF AccountsInv
<1> DEFINE l == local[c]
           row == [id |-> c, email |-> l.email, company |-> l.company, inviter |-> l.target]
<1>1. /\ pc[c] = "createInvitation" /\ IsUser(l.target) /\ IsCompany(l.company)
      /\ invitations' = [invitations EXCEPT ![c] =
             [status |-> "PENDING", email |-> l.email, company |-> l.company,
              inviter |-> l.target]]
      /\ UNCHANGED users
  BY DEF CreateInvitation, Step
<1>2. l.email \in Emails /\ l.company \in Calls
  BY <1>0, <1>1 DEF TypeOK, Local, IsCompany, Company
<1>3. ~Exists(c)
  BY <1>1 DEF AccountsInv, InvitationHeld, Sent
<1>4. \A r \in Rows : r.id # c
  BY <1>3, RowsAre DEF RowOf
<1>5. RowOf(c)' = row /\ Exists(c)'
  BY <1>0, <1>1 DEF RowOf, Exists, TypeOK
<1>6. \A i \in Calls \ {c} : invitations'[i] = invitations[i]
  BY <1>0, <1>1 DEF TypeOK
<1>7. Rows' = Rows \cup {row}
  <2> HIDE DEF row
  <2>1. Rows' = {RowOf(i)' : i \in {j \in Calls : Exists(j)'}}
    BY DEF Rows, RowOf
  <2>2. \A i \in Calls \ {c} : RowOf(i)' = RowOf(i) /\ (Exists(i)' <=> Exists(i))
    BY <1>6 DEF RowOf, Exists
  <2> QED
    BY <1>3, <1>5, <2>1, <2>2, RowsAre
<1>8. PICK u \in users : u.id = l.target
  BY <1>1 DEF IsUser
<1>9. row = [id |-> c, email |-> l.email, company |-> l.company, inviter |-> u.id]
  BY <1>8
<1>10. Rows' = Rows \cup {[id |-> c, email |-> l.email, company |-> l.company,
                           inviter |-> u.id]}
  BY <1>7, <1>9
<1> QED
  BY <1>1, <1>2, <1>4, <1>10 DEF Ideal!Issue

LEMMA DeleteUserPromise ==
    ASSUME AccountsInv, NEW c \in Calls, DeleteUser(c)
    PROVE  \E u \in users : Ideal!Leave(u)
<1> PICK u \in users : u.id = local[c].target
  BY DEF DeleteUser, IsUser
<1>1. /\ users' = {row \in users : row.id # u.id} /\ ~HasInvited(u.id)
      /\ UNCHANGED invitations
  BY DEF DeleteUser
<1>2. users' = users \ {u}
  BY <1>1 DEF AccountsInv, UsersByKey
<1>3. \A r \in Rows : r.inviter # u.id
  BY <1>1, RowsAre DEF RowOf, HasInvited
<1>4. UNCHANGED Rows
  BY <1>1 DEF Rows, Exists
<1> QED
  BY <1>2, <1>3, <1>4 DEF Ideal!Leave

LEMMA DeleteCompanyPromise ==
    ASSUME AccountsInv, AccountsInv', NEW c \in Calls, DeleteCompany(c)
    PROVE  \E k \in Calls : Ideal!Dissolve(k)
<1>0. TypeOK
  BY DEF AccountsInv
<1> DEFINE k == local[c].company
<1>1. /\ IsCompany(k)
      /\ users' = {row \in users : row.company # k}
      /\ invitations' = [i \in Calls |-> IF Exists(i) /\ invitations[i].company = k
                                         THEN AbsentRow(i) ELSE invitations[i]]
  BY DEF DeleteCompany
<1>2. k \in Calls
  BY <1>0, <1>1 DEF IsCompany, TypeOK, Company
<1>3. \A i \in Calls : /\ Exists(i)' <=> Exists(i) /\ invitations[i].company # k
                       /\ Exists(i)' => invitations'[i] = invitations[i]
  BY <1>0, <1>1 DEF Exists, AbsentRow, TypeOK
<1>4. Rows' = {r \in Rows : r.company # k}
  <2>1. Rows' = {RowOf(i)' : i \in {j \in Calls : Exists(j)'}}
    BY DEF Rows, RowOf
  <2>2. \A i \in Calls : Exists(i)' => RowOf(i)' = RowOf(i)
    BY <1>3 DEF RowOf
  <2>3. \A i \in Calls : RowOf(i).company = invitations[i].company
    BY DEF RowOf
  <2> QED
    BY <1>3, <2>1, <2>2, <2>3, RowsAre
<1>5. ASSUME NEW r \in Rows' PROVE \E u \in users' : u.id = r.inviter
  <2>1. PICK i \in Calls : Exists(i)' /\ r = RowOf(i)'
    BY DEF Rows, RowOf
  <2>2. IsUser(invitations[i].inviter)'
    BY <2>1 DEF AccountsInv, InvitationHeld
  <2> QED
    BY <2>1, <2>2 DEF IsUser, RowOf
<1> QED
  BY <1>1, <1>2, <1>4, <1>5 DEF Ideal!Dissolve

LEMMA NextPromise ==
    ASSUME AccountsInv, AccountsInv', [Next]_vars
    PROVE  [Ideal!Next]_(Ideal!vars)
<1>0. TypeOK /\ TypeOK'
  BY DEF AccountsInv
<1>1. CASE UNCHANGED tables
  BY <1>1 DEF tables, Rows, Exists, Ideal!vars
<1>2. ASSUME NEW c \in Calls, CreateUser(c) PROVE Ideal!Next
  BY <1>2, CreateUserPromise DEF Ideal!Next
<1>3. ASSUME NEW c \in Calls, CreateInvitation(c) PROVE Ideal!Next
  BY <1>0, <1>3, CreateInvitationPromise DEF Ideal!Next
<1>4. ASSUME NEW c \in Calls, DeleteUser(c) PROVE Ideal!Next
  BY <1>4, DeleteUserPromise DEF Ideal!Next
<1>5. ASSUME NEW c \in Calls, DeleteCompany(c) PROVE Ideal!Next
  BY <1>5, DeleteCompanyPromise DEF Ideal!Next
<1>6. ASSUME NEW c \in Calls, MarkAccepted(c) \/ ExpireInvitations(c)
      PROVE  UNCHANGED Ideal!vars
  <2>1. UNCHANGED users
    BY <1>6 DEF MarkAccepted, ExpireInvitations
  <2>2. ASSUME NEW i \in Calls
        PROVE  /\ Exists(i)' <=> Exists(i)
               /\ invitations'[i].email = invitations[i].email
               /\ invitations'[i].company = invitations[i].company
               /\ invitations'[i].inviter = invitations[i].inviter
    <3>0. invitations[i] \in Invitation /\ local[c] \in Local
      BY <1>0 DEF TypeOK
    <3>1. CASE MarkAccepted(c)
      BY <1>0, <3>0, <3>1 DEF MarkAccepted, Exists, TypeOK, Invitation
    <3>2. CASE ExpireInvitations(c)
      BY <1>0, <3>0, <3>2 DEF ExpireInvitations, PendingFor, Pending, Exists, Invitation
    <3> QED
      BY <1>6, <3>1, <3>2
  <2>3. UNCHANGED Rows
    BY <1>0, <2>2, RowsStay
  <2> QED
    BY <2>1, <2>3 DEF Ideal!vars
<1>7. ASSUME NEW c \in Calls,
             CreateCompany(c) \/ InsertCompany(c) \/ CreateAddress(c) \/ CreateCart(c)
      PROVE  UNCHANGED Ideal!vars
  BY <1>7 DEF CreateCompany, InsertCompany, CreateAddress, CreateCart, Rows, Exists, Ideal!vars
<1> QED
  BY <1>0, <1>1, <1>2, <1>3, <1>4, <1>5, <1>6, <1>7, OnlyWrites DEF Writes

\* The handlers do what Membership promises, whatever overlaps, fails or crashes: in one step
\* each account comes into being, with the company and email of the invitation as it is then,
\* although the acceptance has read it long before.
THEOREM Implements == Spec => KeepsMembership
<1>1. AccountsInv /\ AccountsInv' /\ [Next]_vars => [Ideal!Next]_(Ideal!vars)
  BY NextPromise
<1> QED
  BY InitPromise, <1>1, Invariant, PTL DEF Spec, KeepsMembership, Ideal!Spec

-----------------------------------------------------------------------------
(* Who has met: from here on theorems of RecordedSpec.                       *)

\* The memory is complete, and symmetric where it matters.
Remembered ==
    /\ met \subseteq Calls \X Calls /\ joined \subseteq Calls \X Calls
    /\ Meeting \subseteq met /\ Joining \subseteq joined
    /\ \A c, d \in Calls : <<c, d>> \in met => <<d, c>> \in met

\* An invite that has been through its check has met every other invite of its email that
\* has made a pending invitation meanwhile.
InviterMet ==
    \A c, i \in Calls :
        Inviting(c) /\ i # c /\ Pending(i) /\ invitations[i].email = local[c].email
            => <<c, i>> \in met

\* An invitation that has been used for good.
Spent(i) == pc[i] \in Sent /\ invitations[i].status \in {"ACCEPTED", "ABSENT"}

\* An acceptance that has made its account is still to mark the invitation, has failed to, or
\* has marked it.
JoinerMarks ==
    \A c, i \in Calls : <<c, i>> \in joined =>
        /\ local[c].kind = "accept" /\ local[c].target = i
        /\ pc[c] \in Enrolled
        /\ pc[c] \notin {"accept", "failed"} => Spent(i)

\* An acceptance under way has met those before it.
AcceptorMet ==
    \A c, d, i \in Calls :
        <<c, i>> \in joined /\ Accepting(d) /\ local[d].target = i /\ c # d
            => <<c, d>> \in met \/ pc[c] = "failed"

MeetingInv ==
    /\ Remembered /\ InviterMet /\ JoinerMarks /\ AcceptorMet
    /\ SecondInvitationOnlyByMeeting /\ UsedTwiceOnlyByMeeting

\* What a step remembers.
LEMMA RecordedStep ==
    ASSUME TypeOK, TypeOK', Remembered, [RecordedNext]_recorded
    PROVE  /\ [Next]_vars /\ Remembered'
           /\ met \subseteq met' /\ joined \subseteq joined'
           /\ joined' \subseteq joined \cup Joining'
<1>1. CASE RecordedNext
  <2>1. /\ Next /\ met' = met \cup Meeting' /\ joined' = joined \cup Joining'
    BY <1>1 DEF RecordedNext, Record
  <2>2. /\ Meeting' \subseteq Calls \X Calls
        /\ \A c, d \in Calls : <<c, d>> \in Meeting' => <<d, c>> \in Meeting'
    BY DEF Meeting
  <2>3. Joining' \subseteq Calls \X Calls
    BY DEF Joining, TypeOK, Local
  <2> QED
    BY <2>1, <2>2, <2>3 DEF Remembered
<1>2. CASE UNCHANGED recorded
  <2>1. UNCHANGED vars /\ UNCHANGED met /\ UNCHANGED joined
    BY <1>2 DEF recorded
  <2>2. Meeting' = Meeting /\ Joining' = Joining
    BY <2>1 DEF vars, Meeting, Joining, Inviting, Accepting, IsUser
  <2> QED
    BY <2>1, <2>2 DEF Remembered
<1> QED
  BY <1>1, <1>2

\* A call that is not idle has been about the same all along, and an invite or an acceptance
\* starts by reading.
LEMMA WasInviting ==
    ASSUME AccountsInv, [Next]_vars, NEW c \in Calls, Inviting(c)'
    PROVE  \/ Inviting(c) /\ local'[c] = local[c]
           \/ UNCHANGED tables /\ PendingFor(local'[c].email) = {}
<1>0. TypeOK /\ CallHeld(c)
  BY DEF AccountsInv
<1>1. CASE pc[c] # "idle"
  <2>1. pc[c] \in {"checkAccount", "createInvitation"}
    <3>1. ASSUME NEW d \in Calls, Continue(d) PROVE pc[c] \in {"checkAccount", "createInvitation"}
      BY <1>0, <3>1, ContinueCalls DEF Onward, Inviting
    <3>2. ASSUME NEW d \in Calls, Read(d) PROVE pc'[c] = pc[c]
      BY <1>0, <1>1, <3>2, ReadArrives, ArrivalCalls
    <3>3. CASE Crash
      BY <1>0, <3>3, CrashCalls DEF Inviting
    <3>4. CASE UNCHANGED vars \/ \E i \in Calls : Lapse(i)
      BY <3>4 DEF vars, Lapse, Inviting
    <3> QED
      BY <3>1, <3>2, <3>3, <3>4 DEF Next, Inviting
  <2>2. local'[c] = local[c]
    BY <1>0, <2>1, Evolution
  <2> QED
    BY <2>1, <2>2 DEF Inviting
<1>2. CASE pc[c] = "idle"
  <2>1. Read(c)
    <3>1. ASSUME NEW d \in Calls, Continue(d) PROVE FALSE
      BY <1>0, <1>2, <3>1, ContinueCalls DEF Onward, Inviting
    <3>2. ASSUME NEW d \in Calls, Read(d), d # c PROVE FALSE
      BY <1>0, <1>2, <3>2, ReadArrives, ArrivalCalls DEF Inviting
    <3>3. CASE Crash
      BY <1>0, <1>2, <3>3, CrashCalls DEF Inviting
    <3>4. CASE UNCHANGED vars \/ \E i \in Calls : Lapse(i)
      BY <1>2, <3>4 DEF vars, Lapse, Inviting
    <3> QED
      BY <3>1, <3>2, <3>3, <3>4 DEF Next
  <2>2. PICK l \in Local, label \in Labels : Arrival(c, l, label)
    BY <1>0, <2>1, ReadArrives
  <2>3. local'[c] = l /\ UNCHANGED tables
    BY <1>0, <2>2, ArrivalCalls
  <2>4. l.kind = "invite"
    BY <2>3 DEF Inviting
  <2> QED
    BY <2>2, <2>3, <2>4 DEF Arrival
<1> QED
  BY <1>1, <1>2

LEMMA WasAccepting ==
    ASSUME AccountsInv, [Next]_vars, NEW c \in Calls, Accepting(c)'
    PROVE  \/ Accepting(c) /\ local'[c] = local[c]
           \/ /\ UNCHANGED tables /\ Usable(local'[c].target)
              /\ \A d \in Calls \ {c} : pc'[d] = pc[d] /\ local'[d] = local[d]
<1>0. TypeOK /\ CallHeld(c)
  BY DEF AccountsInv
<1>1. CASE pc[c] # "idle"
  <2>0. local'[c].kind = local[c].kind
    BY <1>0, <1>1, Evolution
  <2>1. pc[c] \in {"checkAccount", "createUser", "accept"}
    <3>1. ASSUME NEW d \in Calls, Continue(d)
          PROVE  pc[c] \in {"checkAccount", "createUser", "accept"}
      <4>1. \/ pc'[c] = pc[c]
            \/ pc[c] \in {"checkAccount", "createUser", "accept", "createCompany", "createAddress"}
        BY <1>0, <3>1, ContinueCalls DEF Onward, Accepting
      <4>2. pc[c] \notin {"createCompany", "createAddress"}
        BY <1>0, <2>0 DEF CallHeld, Place, Accepting
      <4> QED
        BY <4>1, <4>2 DEF Accepting
    <3>2. ASSUME NEW d \in Calls, Read(d) PROVE pc'[c] = pc[c]
      BY <1>0, <1>1, <3>2, ReadArrives, ArrivalCalls
    <3>3. CASE Crash
      BY <1>0, <3>3, CrashCalls DEF Accepting
    <3>4. CASE UNCHANGED vars \/ \E i \in Calls : Lapse(i)
      BY <3>4 DEF vars, Lapse, Accepting
    <3> QED
      BY <3>1, <3>2, <3>3, <3>4 DEF Next, Accepting
  <2>2. local'[c] = local[c]
    BY <1>0, <2>1, Evolution
  <2> QED
    BY <2>1, <2>2 DEF Accepting
<1>2. CASE pc[c] = "idle"
  <2>1. Read(c)
    <3>1. ASSUME NEW d \in Calls, Continue(d) PROVE FALSE
      BY <1>0, <1>2, <3>1, ContinueCalls DEF Onward, Accepting
    <3>2. ASSUME NEW d \in Calls, Read(d), d # c PROVE FALSE
      BY <1>0, <1>2, <3>2, ReadArrives, ArrivalCalls DEF Accepting
    <3>3. CASE Crash
      BY <1>0, <1>2, <3>3, CrashCalls DEF Accepting
    <3>4. CASE UNCHANGED vars \/ \E i \in Calls : Lapse(i)
      BY <1>2, <3>4 DEF vars, Lapse, Accepting
    <3> QED
      BY <3>1, <3>2, <3>3, <3>4 DEF Next
  <2>2. PICK l \in Local, label \in Labels : Arrival(c, l, label)
    BY <1>0, <2>1, ReadArrives
  <2>3. /\ local'[c] = l /\ UNCHANGED tables
        /\ \A d \in Calls \ {c} : pc'[d] = pc[d] /\ local'[d] = local[d]
    BY <1>0, <2>2, ArrivalCalls
  <2>4. l.kind = "accept"
    BY <2>3 DEF Accepting
  <2> QED
    BY <2>2, <2>3, <2>4 DEF Arrival
<1> QED
  BY <1>1, <1>2

\* Pending invitations come from an invite that has been checked.
LEMMA WasPending ==
    ASSUME AccountsInv, [Next]_vars, NEW i \in Calls, Pending(i)'
    PROVE  \/ Pending(i) /\ invitations'[i].email = invitations[i].email
           \/ Inviting(i) /\ invitations'[i].email = local[i].email
<1>0. TypeOK /\ CallHeld(i) /\ Exists(i)'
  BY DEF AccountsInv, Pending, Exists
<1>1. CASE CreateInvitation(i)
  <2>1. pc[i] = "createInvitation" /\ invitations'[i].email = local[i].email
    BY <1>0, <1>1 DEF CreateInvitation, Step, TypeOK
  <2> QED
    BY <1>0, <2>1 DEF Inviting, CallHeld, Place
<1> QED
  BY <1>0, <1>1, NewInvitation

LEMMA InviterMetStep ==
    ASSUME AccountsInv, AccountsInv', MeetingInv, [RecordedNext]_recorded
    PROVE  InviterMet'
<1>0. [Next]_vars /\ Remembered' /\ met \subseteq met' /\ Remembered /\ InviterMet
  BY RecordedStep DEF AccountsInv, MeetingInv
<1> SUFFICES ASSUME NEW c \in Calls, NEW i \in Calls, Inviting(c)', i # c, Pending(i)',
                    invitations'[i].email = local'[c].email
             PROVE  <<c, i>> \in met'
  BY DEF InviterMet
<1>1. CASE Inviting(c) /\ local'[c] = local[c]
  <2>1. CASE Pending(i) /\ invitations'[i].email = invitations[i].email
    BY <1>0, <1>1, <2>1 DEF InviterMet
  <2>2. CASE Inviting(i) /\ invitations'[i].email = local[i].email
    BY <1>0, <1>1, <2>2 DEF Remembered, Meeting
  <2> QED
    BY <1>0, <2>1, <2>2, WasPending
<1>2. CASE UNCHANGED tables /\ PendingFor(local'[c].email) = {}
  BY <1>2 DEF PendingFor, Pending, tables
<1> QED
  BY <1>0, <1>1, <1>2, WasInviting

LEMMA SecondInvitationStep ==
    ASSUME AccountsInv, AccountsInv', MeetingInv, [RecordedNext]_recorded
    PROVE  SecondInvitationOnlyByMeeting'
<1>0. /\ [Next]_vars /\ Remembered' /\ met \subseteq met' /\ Remembered /\ InviterMet
      /\ SecondInvitationOnlyByMeeting
  BY RecordedStep DEF AccountsInv, MeetingInv
<1> SUFFICES ASSUME NEW i \in Calls, NEW j \in Calls, i # j, Pending(i)', Pending(j)',
                    invitations'[i].email = invitations'[j].email
             PROVE  <<i, j>> \in met'
  BY DEF SecondInvitationOnlyByMeeting, PendingFor
<1>1. CASE /\ Pending(i) /\ invitations'[i].email = invitations[i].email
           /\ Pending(j) /\ invitations'[j].email = invitations[j].email
  <2>1. invitations[i].email \in Emails
    BY DEF AccountsInv, TypeOK, Invitation
  <2> QED
    BY <1>0, <1>1, <2>1 DEF SecondInvitationOnlyByMeeting, PendingFor
<1>2. CASE /\ Inviting(i) /\ invitations'[i].email = local[i].email
           /\ Pending(j) /\ invitations'[j].email = invitations[j].email
  BY <1>0, <1>2 DEF InviterMet
<1>3. CASE /\ Inviting(j) /\ invitations'[j].email = local[j].email
           /\ Pending(i) /\ invitations'[i].email = invitations[i].email
  BY <1>0, <1>3 DEF InviterMet, Remembered
<1>4. CASE /\ Inviting(i) /\ invitations'[i].email = local[i].email
           /\ Inviting(j) /\ invitations'[j].email = local[j].email
  BY <1>0, <1>4 DEF Remembered, Meeting
<1> QED
  BY <1>0, <1>1, <1>2, <1>3, <1>4, WasPending

\* An invitation used for good is never good again.
LEMMA SpentStays ==
    ASSUME AccountsInv, AccountsInv', [Next]_vars, NEW i \in Calls, Spent(i)
    PROVE  Spent(i)'
<1>0. TypeOK /\ TypeOK'
  BY DEF AccountsInv
<1>1. pc'[i] \in Sent
  BY <1>0, Evolution DEF Spent
<1>2. ~CreateInvitation(i)
  BY DEF Spent, CreateInvitation, Step, Sent
<1>3. CASE UNCHANGED invitations
  BY <1>1, <1>3 DEF Spent
<1>4. ASSUME NEW c \in Calls, CreateInvitation(c)
      PROVE  invitations'[i] = invitations[i]
  BY <1>0, <1>2, <1>4 DEF CreateInvitation, TypeOK
<1>5. ASSUME NEW c \in Calls, MarkAccepted(c)
      PROVE  invitations'[i].status \in {"ACCEPTED", "ABSENT"}
  BY <1>0, <1>5 DEF MarkAccepted, Spent, TypeOK, Invitation, Local
<1>6. ASSUME NEW c \in Calls, ExpireInvitations(c)
      PROVE  invitations'[i].status \in {"ACCEPTED", "ABSENT"}
  BY <1>0, <1>6 DEF ExpireInvitations, PendingFor, Pending, Spent, TypeOK
<1>7. ASSUME NEW c \in Calls, DeleteCompany(c)
      PROVE  invitations'[i].status \in {"ACCEPTED", "ABSENT"}
  BY <1>7 DEF DeleteCompany, AbsentRow, Spent
<1> QED
  BY <1>0, <1>1, <1>3, <1>4, <1>5, <1>6, <1>7, OnlyWrites
     DEF Writes, CreateCompany, InsertCompany, CreateAddress, CreateUser, CreateCart,
         DeleteUser, firms, tables, Spent

\* Accounts made of invitations come from CreateUser only.
LEMMA NewJoiner ==
    ASSUME AccountsInv, AccountsInv', Remembered, [RecordedNext]_recorded,
           NEW c \in Calls, NEW i \in Calls, <<c, i>> \in joined', <<c, i>> \notin joined
    PROVE  CreateUser(c) /\ Accepting(c) /\ local[c].target = i /\ local'[c] = local[c]
<1>0. TypeOK /\ TypeOK' /\ [Next]_vars /\ CallHeld(c)
  BY RecordedStep DEF AccountsInv
<1>1. <<c, i>> \in Joining'
  BY <1>0, RecordedStep
<1>2. local'[c].kind = "accept" /\ IsUser(c)' /\ i = local'[c].target
  BY <1>1 DEF Joining
<1>3. ~IsUser(c)
  <2> SUFFICES ASSUME IsUser(c) PROVE FALSE
    OBVIOUS
  <2>1. pc[c] \in Enrolled
    BY DEF IsUser, AccountsInv, UserHeld
  <2>2. local'[c] = local[c]
    BY <1>0, <2>1, Evolution DEF Enrolled
  <2> QED
    BY <1>2, <2>2 DEF Joining, Remembered
<1>4. PICK u \in users' : u.id = c /\ u \notin users
  BY <1>2, <1>3 DEF IsUser
<1>5. CreateUser(c)
  BY <1>0, <1>4, NewMember DEF NewUser
<1>6. pc[c] = "createUser" /\ UNCHANGED local
  BY <1>5 DEF CreateUser, Step
<1> QED
  BY <1>2, <1>5, <1>6 DEF Accepting

LEMMA JoinerMarksStep ==
    ASSUME AccountsInv, AccountsInv', MeetingInv, [RecordedNext]_recorded
    PROVE  JoinerMarks'
<1>0. TypeOK /\ TypeOK' /\ [Next]_vars /\ Remembered /\ JoinerMarks
  BY RecordedStep DEF AccountsInv, MeetingInv
<1> SUFFICES ASSUME NEW c \in Calls, NEW i \in Calls, <<c, i>> \in joined'
             PROVE  /\ local'[c].kind = "accept" /\ local'[c].target = i
                    /\ pc'[c] \in Enrolled
                    /\ pc'[c] \notin {"accept", "failed"} => Spent(i)'
  BY DEF JoinerMarks
<1>1. CASE <<c, i>> \notin joined
  <2>1. CreateUser(c) /\ Accepting(c) /\ local[c].target = i /\ local'[c] = local[c]
    BY <1>0, <1>1, NewJoiner
  <2>2. pc'[c] = "accept"
    BY <1>0, <2>1 DEF CreateUser, Accepting, Step, TypeOK
  <2> QED
    BY <2>1, <2>2 DEF Accepting, Enrolled
<1>2. CASE <<c, i>> \in joined
  <2>1. /\ local[c].kind = "accept" /\ local[c].target = i /\ pc[c] \in Enrolled
        /\ pc[c] \notin {"accept", "failed"} => Spent(i)
    BY <1>0, <1>2 DEF JoinerMarks
  <2>2. local'[c] = local[c] /\ pc'[c] \in Enrolled
    BY <1>0, <2>1, Evolution DEF Enrolled
  <2>3. CASE pc[c] \notin {"accept", "failed"}
    BY <1>0, <2>1, <2>2, <2>3, SpentStays
  <2>4. CASE pc[c] = "failed"
    BY <1>0, <2>1, <2>2, <2>4, Evolution
  <2>5. CASE pc[c] = "accept"
    <3>1. CASE MarkAccepted(c)
      <4>1. Exists(i) /\ invitations'[i].status = "ACCEPTED"
        BY <1>0, <2>1, <3>1 DEF MarkAccepted, TypeOK, Invitation
      <4>2. pc[i] \in Sent
        BY <4>1 DEF AccountsInv, InvitationHeld
      <4>3. pc'[i] \in Sent
        BY <1>0, <4>2, Evolution
      <4> QED
        BY <2>1, <2>2, <4>1, <4>3 DEF Spent
    <3>2. CASE InvitationGone(c)
      <4>1. pc'[c] = "failed"
        BY <1>0, <3>2 DEF InvitationGone, Step, TypeOK
      <4> QED
        BY <2>1, <2>2, <4>1
    <3> QED
      BY <1>0, <2>1, <2>2, <2>5, <3>1, <3>2, MemberStep
  <2> QED
    BY <2>3, <2>4, <2>5
<1> QED
  BY <1>1, <1>2

LEMMA AcceptorMetStep ==
    ASSUME AccountsInv, AccountsInv', MeetingInv, [RecordedNext]_recorded
    PROVE  AcceptorMet'
<1>0. /\ TypeOK /\ TypeOK' /\ [Next]_vars /\ Remembered /\ Remembered' /\ met \subseteq met'
      /\ JoinerMarks /\ AcceptorMet
  BY RecordedStep DEF AccountsInv, MeetingInv
<1> SUFFICES ASSUME NEW c \in Calls, NEW d \in Calls, NEW i \in Calls, <<c, i>> \in joined',
                    Accepting(d)', local'[d].target = i, c # d, pc'[c] # "failed"
             PROVE  <<c, d>> \in met'
  BY DEF AcceptorMet
<1>1. CASE <<c, i>> \notin joined
  <2>1. CreateUser(c) /\ Accepting(c) /\ local[c].target = i
    BY <1>0, <1>1, NewJoiner
  <2>2. UNCHANGED local /\ pc'[d] = pc[d]
    BY <1>0, <2>1 DEF CreateUser, Step, TypeOK
  <2>3. Accepting(d) /\ local[d].target = i
    BY <2>2 DEF Accepting
  <2> QED
    BY <1>0, <2>1, <2>3 DEF Remembered, Meeting
<1>2. CASE <<c, i>> \in joined /\ Accepting(d) /\ local'[d] = local[d]
  <2>1. pc[c] # "failed"
    BY <1>0, Evolution
  <2> QED
    BY <1>0, <1>2, <2>1 DEF AcceptorMet
<1>3. CASE /\ <<c, i>> \in joined
           /\ UNCHANGED tables /\ Usable(local'[d].target)
           /\ \A e \in Calls \ {d} : pc'[e] = pc[e] /\ local'[e] = local[e]
  <2>1. pc'[c] = pc[c] /\ local'[c] = local[c]
    BY <1>3
  <2>2. ~Spent(i)
    BY <1>3 DEF Usable, Exists, Spent
  <2>3. Accepting(c)' /\ local'[c].target = i
    BY <1>0, <1>3, <2>1, <2>2 DEF JoinerMarks, Accepting
  <2>4. <<c, d>> \in Meeting'
    BY <2>3 DEF Meeting
  <2> QED
    BY <1>0, <2>4 DEF Remembered
<1> QED
  BY <1>0, <1>1, <1>2, <1>3, WasAccepting

LEMMA UsedTwiceStep ==
    ASSUME AccountsInv, AccountsInv', MeetingInv, [RecordedNext]_recorded
    PROVE  UsedTwiceOnlyByMeeting'
<1>0. /\ TypeOK /\ TypeOK' /\ [Next]_vars /\ Remembered /\ Remembered' /\ met \subseteq met'
      /\ AcceptorMet /\ UsedTwiceOnlyByMeeting
  BY RecordedStep DEF AccountsInv, MeetingInv
<1> SUFFICES ASSUME NEW c \in Calls, NEW d \in Calls, NEW i \in Calls, c # d,
                    <<c, i>> \in joined', <<d, i>> \in joined',
                    pc'[c] # "failed", pc'[d] # "failed"
             PROVE  <<c, d>> \in met'
  <2>1. ASSUME NEW p \in joined', NEW q \in joined', p[2] = q[2]
        PROVE  \/ p = q \/ <<p[1], q[1]>> \in met'
               \/ pc'[p[1]] = "failed" \/ pc'[q[1]] = "failed"
    <3>1. /\ p[1] \in Calls /\ p[2] \in Calls /\ p = <<p[1], p[2]>>
          /\ q[1] \in Calls /\ q[2] \in Calls /\ q = <<q[1], q[2]>>
      BY <1>0 DEF Remembered
    <3> QED
      BY <2>1, <3>1
  <2> QED
    BY <2>1 DEF UsedTwiceOnlyByMeeting
<1>1. pc[c] # "failed" /\ pc[d] # "failed"
  BY <1>0, Evolution
<1>2. CASE <<c, i>> \in joined /\ <<d, i>> \in joined
  BY <1>0, <1>1, <1>2 DEF UsedTwiceOnlyByMeeting
<1>3. CASE <<c, i>> \notin joined /\ <<d, i>> \in joined
  BY <1>0, <1>1, <1>3, NewJoiner DEF AcceptorMet, Remembered
<1>4. CASE <<c, i>> \in joined /\ <<d, i>> \notin joined
  BY <1>0, <1>1, <1>4, NewJoiner DEF AcceptorMet
<1>5. CASE <<c, i>> \notin joined /\ <<d, i>> \notin joined
  BY <1>0, <1>5, NewJoiner DEF Remembered, Meeting
<1> QED
  BY <1>2, <1>3, <1>4, <1>5

LEMMA InitMeeting == RecordedInit => MeetingInv
<1> SUFFICES ASSUME RecordedInit PROVE MeetingInv
  OBVIOUS
<1>0. TypeOK /\ Init /\ met = {} /\ joined = {}
  BY InitType DEF RecordedInit
<1>1. \A c \in Calls : local[c].kind = "none"
  BY <1>0 DEF Init, Locals
<1>2. Meeting = {} /\ Joining = {}
  BY <1>1 DEF Meeting, Joining, Inviting, Accepting
<1>3. SecondInvitationOnlyByMeeting
  <2> SUFFICES ASSUME NEW i \in Calls, NEW j \in Calls, Pending(i), Pending(j),
                      invitations[i].email = invitations[j].email
               PROVE  i = j
    BY DEF SecondInvitationOnlyByMeeting, PendingFor
  <2>1. \A k \in Calls : Pending(k) => k \in Invited /\ invitations[k].email = EmailOf[k]
    BY <1>0 DEF Init, Pending, AbsentRow
  <2> QED
    BY <2>1, EarlierAssumption
<1> QED
  BY <1>0, <1>1, <1>2, <1>3
     DEF MeetingInv, Remembered, InviterMet, JoinerMarks, AcceptorMet, UsedTwiceOnlyByMeeting,
         Inviting

LEMMA NextMeeting ==
    AccountsInv /\ AccountsInv' /\ MeetingInv /\ [RecordedNext]_recorded => MeetingInv'
<1> SUFFICES ASSUME AccountsInv, AccountsInv', MeetingInv, [RecordedNext]_recorded
             PROVE  MeetingInv'
  OBVIOUS
<1>1. Remembered'
  BY RecordedStep DEF AccountsInv, MeetingInv
<1> QED
  BY <1>1, InviterMetStep, SecondInvitationStep, JoinerMarksStep, AcceptorMetStep, UsedTwiceStep
     DEF MeetingInv

\* Every execution of RecordedSpec is one of Spec, so what holds of Spec holds of it.
LEMMA Forgets == RecordedSpec => Spec
<1>1. RecordedInit => Init
  BY DEF RecordedInit
<1>2. [RecordedNext]_recorded => [Next]_vars
  BY DEF RecordedNext, recorded
<1> QED
  BY <1>1, <1>2, PTL DEF RecordedSpec, Spec

\* Whoever inserts a second invitation or account has met whoever inserted the first.
THEOREM MeetingInvariant == RecordedSpec => []MeetingInv
  BY Forgets, Invariant, InitMeeting, NextMeeting, PTL DEF RecordedSpec

\* An email has two pending invitations only because two invites met between check and insert.
THEOREM TwoInvitationsNeedMeeting == RecordedSpec => []SecondInvitationOnlyByMeeting
<1>1. MeetingInv => SecondInvitationOnlyByMeeting
  BY DEF MeetingInv
<1> QED
  BY MeetingInvariant, <1>1, PTL

\* An invitation makes two accounts only because two acceptances of it met, or one failed or
\* died between the account and the mark.
THEOREM TwoAccountsNeedMeeting == RecordedSpec => []UsedTwiceOnlyByMeeting
<1>1. MeetingInv => UsedTwiceOnlyByMeeting
  BY DEF MeetingInv
<1> QED
  BY MeetingInvariant, <1>1, PTL

=============================================================================
