------------------------- MODULE AccountsProperties -------------------------
(***************************************************************************)
(* What is claimed of Accounts, however the handlers interleave, whatever  *)
(* statement fails and whenever the server dies.  Since no handler uses a  *)
(* transaction, most of it relates rows that are written in different      *)
(* steps, and nearly every step can be the last one of its handler.        *)
(***************************************************************************)
EXTENDS Accounts

Labels == {"idle", "done", "failed", "createCompany", "createAddress", "createUser",
           "createCart", "checkAccount", "accept", "createInvitation", "mail",
           "deleteUser", "expire", "insertCompany", "deleteCompany"}

\* Every row and every local variable has its column's type.
TypeOK ==
    /\ users \subseteq User
    /\ carts \subseteq Calls
    /\ companies \subseteq Company
    /\ addresses \subseteq Calls
    /\ invitations \in [Calls -> Invitation]
    /\ lapsed \subseteq Calls
    /\ pc \in [Calls -> Labels]
    /\ local \in [Calls -> Local]

\* AuthService.login refuses a user without a cart; signup and invitationSignup create the
\* cart last.  Whoever was told that the signup succeeded can log in as long as the account
\* exists.
AnsweredCanLogin == \A u \in users : pc[u.id] = "done" => u.id \in carts

\* The invitation of a member whose signup was answered with success stays ACCEPTED, whatever
\* other acceptances of it, deletions and expirations come between and after.
AcceptedAfterSignup ==
    \A u \in users : local[u.id].kind = "accept" /\ pc[u.id] = "done"
        => invitations[local[u.id].target].status = "ACCEPTED"

\* getShippingFeeByUserId needs the address of the user's company.  companyCreate swallows
\* its errors and signup goes on, but nobody becomes the super administrator of a company it
\* left without an address: such a company gets members by invitations only.
FoundersHaveAddress ==
    \A u \in users : local[u.id].kind # "accept" => u.company \in addresses

\* The handlers implement Membership: to their clients the separate inserts of a signup look
\* like one step, although what the acceptance read of its invitation is old when it inserts
\* the account.
Rows == {[id |-> i, email |-> invitations[i].email, company |-> invitations[i].company,
          inviter |-> invitations[i].inviter] : i \in {j \in Calls : Exists(j)}}
Ideal == INSTANCE Membership WITH invitations <- Rows
KeepsMembership == Ideal!Spec
=============================================================================
