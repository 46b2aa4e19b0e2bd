------------------------------ MODULE Accounts ------------------------------
(***************************************************************************)
(* Companies, their members and the invitations that bring members in:     *)
(* AuthService.signup and invitationSignup, InvitationsService.            *)
(* createInvitation, UsersService.deleteUser, CompaniesService.create and  *)
(* delete.                                                                 *)
(*                                                                         *)
(* None of these handlers uses a transaction: every write is committed     *)
(* when it is made, whatever becomes of the handler, and between two       *)
(* awaits anything else may happen.  What protects the tables is the       *)
(* database: unique constraints (email, company name, one cart per user)   *)
(* and foreign keys, some of which cascade.                                *)
(*                                                                         *)
(* A call is one HTTP request.  The rows a call inserts bear its name: a   *)
(* signup inserts at most a company, its address, a user and the user's    *)
(* cart.  A company's name stands for its name and its business number,    *)
(* both unique.  The checks of signup are read at one moment: the unique   *)
(* constraints make them again, one by one, at the inserts.  A call that   *)
(* is refused at its first read changes nothing and is not represented:    *)
(* its action is disabled.                                                 *)
(***************************************************************************)
EXTENDS Integers

CONSTANTS
    Calls,          \* the HTTP calls, past and future
    Founders,       \* signups that were answered before the model starts
    Invited,        \* invitations sent before the model starts, still pending
    Emails,
    Names,          \* names of companies
    EmailOf,        \* the email of each founder, and the one each earlier invitation is for
    NameOf,         \* the name of each founder's company
    HostOf,         \* the founder who sent each earlier invitation
    Ids,            \* the ids that bodies of POST /invitations name
    Operations,     \* the operations clients call in this instance
    Faults,         \* the faults that happen in this instance
    None            \* the id of no row

Kinds == {"signup", "accept", "invite", "deleteUser", "createCompany", "deleteCompany"}

ASSUME CallsAssumption == /\ Founders \subseteq Calls /\ Founders # {}
                          /\ Invited \subseteq Calls /\ Founders \cap Invited = {}
                          /\ None \notin Calls
ASSUME EarlierAssumption == /\ EmailOf \in [Founders \cup Invited -> Emails]
                            /\ NameOf \in [Founders -> Names]
                            /\ HostOf \in [Invited -> Founders]
                            /\ \A c, d \in Founders \cup Invited :
                                  EmailOf[c] = EmailOf[d] => c = d
                            /\ \A c, d \in Founders : NameOf[c] = NameOf[d] => c = d
ASSUME ScopeAssumption == /\ Emails # {} /\ Names # {}
                          /\ Ids \subseteq Calls /\ Operations \subseteq Kinds
                          /\ Faults \subseteq {"failure", "crash"}

VARIABLES
    users,          \* table users
    carts,          \* table carts: the users who have one
    companies,      \* table companies
    addresses,      \* table company_addresses: the companies that have one
    invitations,    \* table invitations: a row for each call, "ABSENT" when there is none
    lapsed,         \* the invitations whose expiresAt is past
    pc,             \* where each call's handler stands
    local           \* what each call's handler holds in local variables

vars == <<users, carts, companies, addresses, invitations, lapsed, pc, local>>
firms == <<companies, addresses>>

-----------------------------------------------------------------------------
(* Rows *)

User == [id : Calls, email : Emails, company : Calls]
Company == [id : Calls, name : Names]
Invitation == [status : {"ABSENT", "PENDING", "ACCEPTED", "EXPIRED"},
               email : Emails, company : Calls, inviter : Calls]
Local == [kind : Kinds \cup {"none"}, email : Emails, name : Names,
          company : Calls \cup {None}, target : Calls, valid : BOOLEAN]

AnyEmail == CHOOSE e \in Emails : TRUE
AnyName == CHOOSE n \in Names : TRUE

\* What a handler holds: email, name and password of its body, the row it is about.
Locals(kind, email, name, company, target, valid) ==
    [kind |-> kind, email |-> email, name |-> name, company |-> company,
     target |-> target, valid |-> valid]

AbsentRow(c) == [status |-> "ABSENT", email |-> AnyEmail, company |-> c, inviter |-> c]

Exists(i) == invitations[i].status # "ABSENT"
Pending(i) == invitations[i].status = "PENDING"
IsUser(u) == \E row \in users : row.id = u
IsCompany(k) == \E row \in companies : row.id = k
Registered(e) == \E row \in users : row.email = e
Named(n) == \E row \in companies : row.name = n
Active(c) == pc[c] \notin {"idle", "done", "failed"}

\* Each founder has a company with an address, an account and a cart; each earlier
\* invitation was sent by a founder to somebody who is not registered.
Init ==
    /\ users = {[id |-> f, email |-> EmailOf[f], company |-> f] : f \in Founders}
    /\ carts = Founders
    /\ companies = {[id |-> f, name |-> NameOf[f]] : f \in Founders}
    /\ addresses = Founders
    /\ invitations = [c \in Calls |->
          IF c \in Invited
          THEN [status |-> "PENDING", email |-> EmailOf[c], company |-> HostOf[c],
                inviter |-> HostOf[c]]
          ELSE AbsentRow(c)]
    /\ lapsed = {}
    /\ pc = [c \in Calls |-> IF c \in Founders \cup Invited THEN "done" ELSE "idle"]
    /\ local = [c \in Calls |-> Locals("none", AnyEmail, AnyName, None, c, TRUE)]

\* A step that leaves the handler's locals alone.
Step(c, from, to) ==
    /\ pc[c] = from
    /\ pc' = [pc EXCEPT ![c] = to]
    /\ UNCHANGED <<lapsed, local>>

\* The first step of a call.
Arrive(c, l, label) ==
    /\ l.kind \in Operations
    /\ pc[c] = "idle"
    /\ pc' = [pc EXCEPT ![c] = label]
    /\ local' = [local EXCEPT ![c] = l]
    /\ UNCHANGED <<users, carts, companies, addresses, invitations, lapsed>>

-----------------------------------------------------------------------------
(* POST /auth/signup: a company and its super administrator *)

\* checkName, checkEmail and checkCompany.
SignupRead(c, e, n, valid) ==
    /\ ~Registered(e) /\ ~Named(n)
    /\ Arrive(c, Locals("signup", e, n, None, c, valid), "createCompany")

\* companyCreate: first the company ...
CreateCompany(c) ==
    /\ ~Named(local[c].name)
    /\ pc[c] = "createCompany"
    /\ pc' = [pc EXCEPT ![c] = "createAddress"]
    /\ companies' = companies \cup {[id |-> c, name |-> local[c].name]}
    /\ local' = [local EXCEPT ![c].company = c]
    /\ UNCHANGED <<users, carts, addresses, invitations, lapsed>>

\* ... whose name somebody else may have taken; the error is swallowed, the id is '' ...
CompanyTaken(c) ==
    /\ Named(local[c].name) \/ "failure" \in Faults
    /\ Step(c, "createCompany", "createUser")
    /\ UNCHANGED <<users, carts, firms, invitations>>

\* ... then its address ...
CreateAddress(c) ==
    /\ IsCompany(c)
    /\ Step(c, "createAddress", "createUser")
    /\ addresses' = addresses \cup {c}
    /\ UNCHANGED <<users, carts, companies, invitations>>

\* Slip: the address is optional, the id of the company is kept.
AddressLostIgnored(c) ==
    /\ ~IsCompany(c) \/ "failure" \in Faults
    /\ Step(c, "createAddress", "createUser")
    /\ UNCHANGED <<users, carts, firms, invitations>>

\* ... and when that fails the error is swallowed, too, and the id is ''.
AddressLost(c) ==
    /\ ~IsCompany(c) \/ "failure" \in Faults
    /\ pc[c] = "createAddress"
    /\ pc' = [pc EXCEPT ![c] = "createUser"]
    /\ local' = [local EXCEPT ![c].company = None]
    /\ UNCHANGED <<users, carts, firms, invitations, lapsed>>

\* validatePassword comes after the company has been created.
PasswordRefused(c) ==
    /\ ~local[c].valid
    /\ Step(c, "createUser", "failed")
    /\ UNCHANGED <<users, carts, firms, invitations>>

\* Slip: the column companyId is filled with the company's name.
NewUserOfName(c) == [id |-> c, email |-> local[c].email, company |-> local[c].name]

NewUser(c) == [id |-> c, email |-> local[c].email, company |-> local[c].company]

\* The email is unique and the company must exist.
Admissible(c) == ~Registered(local[c].email) /\ IsCompany(local[c].company)

\* Slip: the account is complete without a cart.
CreateUserWithoutCart(c) ==
    /\ local[c].valid /\ Admissible(c)
    /\ Step(c, "createUser", IF local[c].kind = "signup" THEN "done" ELSE "accept")
    /\ users' = users \cup {NewUser(c)}
    /\ UNCHANGED <<carts, firms, invitations>>

\* The super administrator, or in invitationSignup the invited member.
CreateUser(c) ==
    /\ local[c].valid /\ Admissible(c)
    /\ Step(c, "createUser", IF local[c].kind = "signup" THEN "createCart" ELSE "accept")
    /\ users' = users \cup {NewUser(c)}
    /\ UNCHANGED <<carts, firms, invitations>>

UserRefused(c) ==
    /\ local[c].valid /\ ~Admissible(c)
    /\ Step(c, "createUser", "failed")
    /\ UNCHANGED <<users, carts, firms, invitations>>

CreateCart(c) ==
    /\ IsUser(c)
    /\ Step(c, "createCart", "done")
    /\ carts' = carts \cup {c}
    /\ UNCHANGED <<users, firms, invitations>>

\* The account was deleted meanwhile.
CartRefused(c) ==
    /\ ~IsUser(c)
    /\ Step(c, "createCart", "failed")
    /\ UNCHANGED <<users, carts, firms, invitations>>

-----------------------------------------------------------------------------
(* POST /auth/signup/invite/:token *)

\* Slip: a link that has been used works until it lapses.
UsableUnlessLapsed(i) == Exists(i) /\ i \notin lapsed

\* Only ACCEPTED is refused, and a past expiresAt.
Usable(i) == Exists(i) /\ invitations[i].status # "ACCEPTED" /\ i \notin lapsed

\* Slip: the new member goes to the company of whoever invited.
AcceptReadOfInviter(c, i) ==
    /\ Usable(i)
    /\ \E u \in users :
          /\ u.id = invitations[i].inviter
          /\ Arrive(c, Locals("accept", invitations[i].email, AnyName, u.company, i, TRUE),
                    "checkAccount")

\* With a valid password; with another one nothing is written.
AcceptRead(c, i) ==
    /\ Usable(i)
    /\ Arrive(c, Locals("accept", invitations[i].email, AnyName,
                        invitations[i].company, i, TRUE), "checkAccount")

\* invitationSignup and createInvitation both look for an account with the email.
AccountChecked(c) ==
    /\ ~Registered(local[c].email)
    /\ Step(c, "checkAccount", IF local[c].kind = "accept" THEN "createUser"
                                                          ELSE "createInvitation")
    /\ UNCHANGED <<users, carts, firms, invitations>>

AccountTaken(c) ==
    /\ Registered(local[c].email)
    /\ Step(c, "checkAccount", "failed")
    /\ UNCHANGED <<users, carts, firms, invitations>>

\* Slip: the update is forgotten.
MarkNothing(c) ==
    /\ Exists(local[c].target)
    /\ Step(c, "accept", "createCart")
    /\ UNCHANGED <<users, carts, firms, invitations>>

MarkAccepted(c) ==
    LET i == local[c].target
    IN  /\ Exists(i)
        /\ Step(c, "accept", "createCart")
        /\ invitations' = [invitations EXCEPT ![i].status = "ACCEPTED"]
        /\ UNCHANGED <<users, carts, firms>>

\* The invitation was deleted, with its company, after the account was created.
InvitationGone(c) ==
    /\ ~Exists(local[c].target)
    /\ Step(c, "accept", "failed")
    /\ UNCHANGED <<users, carts, firms, invitations>>

-----------------------------------------------------------------------------
(* POST /invitations *)

PendingFor(e) == {i \in Calls : Pending(i) /\ invitations[i].email = e}

\* Slip: nobody asks whether the email has been invited.
InviteReadUnchecked(c, k, u, e) ==
    Arrive(c, Locals("invite", e, AnyName, k, u, TRUE), "checkAccount")

\* Company and inviter are the ids in the body: they need not exist, or not
\* any more, nor belong together.
InviteRead(c, k, u, e) ==
    /\ PendingFor(e) = {}
    /\ Arrive(c, Locals("invite", e, AnyName, k, u, TRUE), "checkAccount")

\* The foreign keys are all that is asked of company and inviter.
CreateInvitation(c) ==
    /\ IsUser(local[c].target) /\ IsCompany(local[c].company)
    /\ Step(c, "createInvitation", "mail")
    /\ invitations' = [invitations EXCEPT ![c] =
           [status |-> "PENDING", email |-> local[c].email, company |-> local[c].company,
            inviter |-> local[c].target]]
    /\ UNCHANGED <<users, carts, firms>>

InvitationRefused(c) ==
    /\ ~(IsUser(local[c].target) /\ IsCompany(local[c].company))
    /\ Step(c, "createInvitation", "failed")
    /\ UNCHANGED <<users, carts, firms, invitations>>

\* sendInvitationEmail finds the row again by its id.
SendMail(c) ==
    /\ Exists(c)
    /\ Step(c, "mail", "done")
    /\ UNCHANGED <<users, carts, firms, invitations>>

\* The call fails; when the mail does, the invitation stays.
MailFailed(c) ==
    /\ ~Exists(c) \/ "failure" \in Faults
    /\ Step(c, "mail", "failed")
    /\ UNCHANGED <<users, carts, firms, invitations>>

-----------------------------------------------------------------------------
(* DELETE /users/:id *)

DeleteUserRead(c, u) ==
    Arrive(c, Locals("deleteUser", u.email, AnyName, u.company, u.id, TRUE), "deleteUser")

HasInvited(u) == \E i \in Calls : Exists(i) /\ invitations[i].inviter = u

\* The cart goes with the user; an inviter is protected by the foreign key of the
\* invitations.
DeleteUser(c) ==
    LET u == local[c].target
    IN  /\ IsUser(u) /\ ~HasInvited(u)
        /\ Step(c, "deleteUser", "expire")
        /\ users' = {row \in users : row.id # u}
        /\ carts' = carts \ {u}
        /\ UNCHANGED <<firms, invitations>>

DeleteUserRefused(c) ==
    /\ ~IsUser(local[c].target) \/ HasInvited(local[c].target)
    /\ Step(c, "deleteUser", "failed")
    /\ UNCHANGED <<users, carts, firms, invitations>>

\* updateMany: every pending invitation of the deleted user's address expires.
ExpireInvitations(c) ==
    /\ Step(c, "expire", "done")
    /\ invitations' = [i \in Calls |-> IF i \in PendingFor(local[c].email)
                                       THEN [invitations[i] EXCEPT !.status = "EXPIRED"]
                                       ELSE invitations[i]]
    /\ UNCHANGED <<users, carts, firms>>

-----------------------------------------------------------------------------
(* POST /companies and DELETE /companies/:id *)

\* The body holds a name and a business number only: the table has no column for the
\* address fields of CreateCompanyDto, and with them the insert is refused.
CompanyRead(c, n) ==
    /\ ~Named(n)
    /\ Arrive(c, Locals("createCompany", AnyEmail, n, None, c, TRUE), "insertCompany")

\* The company is created, then toResponseDto looks for its address, finds none and throws.
InsertCompany(c) ==
    /\ ~Named(local[c].name)
    /\ Step(c, "insertCompany", "failed")
    /\ companies' = companies \cup {[id |-> c, name |-> local[c].name]}
    /\ UNCHANGED <<users, carts, addresses, invitations>>

CompanyRefused(c) ==
    /\ Named(local[c].name)
    /\ Step(c, "insertCompany", "failed")
    /\ UNCHANGED <<users, carts, firms, invitations>>

DeleteCompanyRead(c, k) ==
    Arrive(c, Locals("deleteCompany", AnyEmail, k.name, k.id, c, TRUE), "deleteCompany")

\* A member who invited into another company is protected by the foreign key.
HeldBack(k) ==
    \E u \in users, i \in Calls :
        /\ u.company = k
        /\ Exists(i) /\ invitations[i].inviter = u.id /\ invitations[i].company # k

\* The delete cascades to the invitations into the company, then to the members and their
\* carts, then to the address.
DeleteCompany(c) ==
    LET k == local[c].company
    IN  /\ IsCompany(k) /\ ~HeldBack(k)
        /\ Step(c, "deleteCompany", "done")
        /\ companies' = {row \in companies : row.id # k}
        /\ addresses' = addresses \ {k}
        /\ users' = {row \in users : row.company # k}
        /\ carts' = {u \in carts : \E row \in users' : row.id = u}
        /\ invitations' = [i \in Calls |-> IF Exists(i) /\ invitations[i].company = k
                                           THEN AbsentRow(i) ELSE invitations[i]]

DeleteCompanyRefused(c) ==
    /\ ~IsCompany(local[c].company) \/ HeldBack(local[c].company)
    /\ Step(c, "deleteCompany", "failed")
    /\ UNCHANGED <<users, carts, firms, invitations>>

-----------------------------------------------------------------------------
(* The environment *)

\* Twenty-four hours have passed.
Lapse(i) ==
    /\ Exists(i) /\ i \notin lapsed
    /\ lapsed' = lapsed \cup {i}
    /\ UNCHANGED <<users, carts, firms, invitations, pc, local>>

\* A statement fails, for whatever reason (no connection comes free, a foreign key of a table
\* that is not modelled holds the row); nothing but companyCreate catches that.
StatementFails(c) ==
    /\ "failure" \in Faults
    /\ \E label \in {"createUser", "createCart", "checkAccount", "accept", "createInvitation",
                     "deleteUser", "expire", "insertCompany", "deleteCompany"} :
          Step(c, label, "failed")
    /\ UNCHANGED <<users, carts, firms, invitations>>

\* The server process dies: every handler is gone, what it has written stays.
Crash ==
    /\ "crash" \in Faults
    /\ \E c \in Calls : Active(c)
    /\ pc' = [c \in Calls |-> IF Active(c) THEN "failed" ELSE pc[c]]
    /\ UNCHANGED <<users, carts, firms, invitations, lapsed, local>>

Read(c) ==
    \/ \E e \in Emails, n \in Names, valid \in BOOLEAN : SignupRead(c, e, n, valid)
    \/ \E i \in Calls : AcceptRead(c, i)
    \/ \E k, u \in Ids, e \in Emails : InviteRead(c, k, u, e)
    \/ \E u \in users : DeleteUserRead(c, u)
    \/ \E n \in Names : CompanyRead(c, n)
    \/ \E k \in companies : DeleteCompanyRead(c, k)

Continue(c) ==
    \/ CreateCompany(c) \/ CompanyTaken(c) \/ CreateAddress(c) \/ AddressLost(c)
    \/ PasswordRefused(c) \/ CreateUser(c) \/ UserRefused(c)
    \/ AccountChecked(c) \/ AccountTaken(c)
    \/ CreateCart(c) \/ CartRefused(c) \/ MarkAccepted(c) \/ InvitationGone(c)
    \/ CreateInvitation(c) \/ InvitationRefused(c) \/ SendMail(c) \/ MailFailed(c)
    \/ DeleteUser(c) \/ DeleteUserRefused(c) \/ ExpireInvitations(c)
    \/ InsertCompany(c) \/ CompanyRefused(c)
    \/ DeleteCompany(c) \/ DeleteCompanyRefused(c) \/ StatementFails(c)

Next ==
    \/ \E c \in Calls : Read(c) \/ Continue(c)
    \/ \E i \in Calls : Lapse(i)
    \/ Crash

Spec == Init /\ [][Next]_vars
=============================================================================
