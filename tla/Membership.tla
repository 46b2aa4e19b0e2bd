----------------------------- MODULE Membership -----------------------------
(***************************************************************************)
(* What the account handlers promise to their clients, whatever overlaps,  *)
(* fails or crashes: an account comes into being in one step, by founding  *)
(* a company or by an invitation into one; an email has one account;       *)
(* whoever has invited somebody stays, unless the company goes with all    *)
(* its members and all invitations into it.                                *)
(***************************************************************************)
CONSTANTS Calls, Emails

VARIABLES
    users,          \* accounts
    invitations     \* the invitations there are, used or not

vars == <<users, invitations>>

Init ==
    /\ \A u, v \in users : u.email = v.email => u = v
    /\ \A i \in invitations : \E u \in users : u.id = i.inviter

Admit(c, email, company) ==
    /\ \A u \in users : u.id # c /\ u.email # email
    /\ users' = users \cup {[id |-> c, email |-> email, company |-> company]}
    /\ UNCHANGED invitations

Found(c) == \E e \in Emails : Admit(c, e, c)

\* Once the account exists the invitation is good for it only.
Join(c) == \E i \in invitations : Admit(c, i.email, i.company)

\* Anybody can be named as the inviter, into any company.
Issue(c) ==
    /\ \A i \in invitations : i.id # c
    /\ \E u \in users, e \in Emails, k \in Calls :
          invitations' = invitations \cup
              {[id |-> c, email |-> e, company |-> k, inviter |-> u.id]}
    /\ UNCHANGED users

Leave(u) ==
    /\ \A i \in invitations : i.inviter # u.id
    /\ users' = users \ {u}
    /\ UNCHANGED invitations

\* A company goes with its members and the invitations into it, and only if none of the
\* members is needed elsewhere.
Dissolve(k) ==
    /\ users' = {u \in users : u.company # k}
    /\ invitations' = {i \in invitations : i.company # k}
    /\ \A i \in invitations' : \E u \in users' : u.id = i.inviter

Next ==
    \/ \E c \in Calls : Found(c) \/ Join(c) \/ Issue(c) \/ Dissolve(c)
    \/ \E u \in users : Leave(u)

Spec == Init /\ [][Next]_vars
=============================================================================
