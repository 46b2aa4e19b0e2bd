------------------------- MODULE SessionsProperties -------------------------
(***************************************************************************)
(* What is claimed of Sessions, however its handlers interleave.           *)
(***************************************************************************)
EXTENDS Sessions

Labels == Finished \cup {"issue", "store", "signOut", "param", "serve", "setRole", "hash",
                         "write", "rename"}

\* Every row and every local variable has its column's type.
TypeOK ==
    /\ users \in [Users -> User]
    /\ names \in [Companies -> Names]
    /\ jar \in [Browsers -> Calls \cup {None}]
    /\ age \in [Calls -> 0 .. 2]
    /\ pc \in [Calls -> Labels]
    /\ local \in [Calls -> Local]
    /\ seen \in [Calls -> SUBSET Facts]

-----------------------------------------------------------------------------
(* Roles *)

\* What only administrators may do (RoleGuard, createOrder, the resolution of requests) is
\* done for somebody who had an account and was an administrator at some moment of the very
\* call, however old the token is that the call came with and whatever became of the role
\* since the login or between the two reads of one call.
ActsWithinRole ==
    \A c \in Calls : pc[c] = "done" /\ local[c].kind \in Guarded =>
        \E s \in seen[c] : s.exists /\ s.role # "USER"

-----------------------------------------------------------------------------
(* Sessions *)

\* What AuthController says of POST /auth/refresh: the token that comes with the call is
\* compared with the one stored for its user, so that after a later login, a refresh or a
\* logout of the same user it is refused.  The code does not: Sessions does not keep this.
RefreshComparesStored ==
    [][\A c \in Calls :
          pc[c] = "idle" /\ pc'[c] = "issue" /\ local'[c].kind = "refresh" =>
              users[local'[c].user].refresh = local'[c].login]_vars

-----------------------------------------------------------------------------
(* PATCH /users/update/info *)

\* A profile change that answers with success has taken effect: the password and the
\* company name it asked for were both in force at some moment of the call, although its
\* comparisons and its two writes are four steps apart.
ProfileTakesEffect ==
    \A c \in Calls : pc[c] = "done" /\ local[c].kind = "profile" =>
        /\ local[c].password # None => \E s \in seen[c] : s.password = local[c].password
        /\ local[c].name # None => \E s \in seen[c] : s.name = local[c].name

\* The password is committed before the name is tried, so a profile change can fail half
\* way.  Never the other way round: a company's name changes only in the step with which
\* a profile change succeeds, so a refused one has left the name alone.
RefusedKeepsName ==
    [][\A k \in Companies : names'[k] # names[k] =>
          \E c \in Calls : /\ pc[c] # "done" /\ pc'[c] = "done"
                           /\ local'[c].kind = "profile"
                           /\ names'[k] = local'[c].name]_vars
=============================================================================
