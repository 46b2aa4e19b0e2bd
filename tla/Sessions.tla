------------------------------ MODULE Sessions ------------------------------
(***************************************************************************)
(* Logins, tokens and what they give access to: AuthService and its        *)
(* controller, the guards, the decorator @GetUser, and the UsersService    *)
(* handlers that change a role, a password or a company's name.            *)
(*                                                                         *)
(* A login puts an access token and a refresh token into two cookies of a  *)
(* browser.  The tokens are signed, not stored: verifying one looks at its *)
(* signature and its age only.  What the bearer may do is read from the    *)
(* database when the call is served, in reads of their own, and anything   *)
(* may happen between those reads and the writes that follow.              *)
(*                                                                         *)
(* A call is one HTTP request.  A pair of tokens bears the name of the     *)
(* login that issued it.  Every user here has a cart and a company, whose  *)
(* making and unmaking is the subject of Accounts.                         *)
(***************************************************************************)
EXTENDS Integers

CONSTANTS
    Calls,          \* the HTTP calls, past and future
    Earlier,        \* logins that were answered before the model starts
    Users,
    Browsers,
    Companies,
    Employer,       \* the company of each user
    Holder,         \* who logged in with each earlier login, [Earlier -> Users]
    Seat,           \* and in which browser, [Earlier -> Browsers]
    FirstRole,      \* the role each user starts with
    FirstName,      \* the name each company starts with
    Passwords,
    Names,          \* names of companies
    Operations,     \* the operations clients call in this instance
    Faults,         \* the faults that happen in this instance
    None            \* NULL, undefined, no cookie

Roles == {"USER", "ADMIN", "SUPERADMIN"}
\* What only administrators may ask for: ProductsController under RoleGuard, POST /orders,
\* the resolution of an order request.
Guarded == {"manage", "purchase", "resolve"}
Kinds == Guarded \cup {"login", "refresh", "logout", "setRole", "profile", "remove", "me"}

ASSUME CallsAssumption == /\ Earlier \subseteq Calls
                          /\ None \notin Calls \cup Passwords \cup Names \cup Roles
ASSUME PeopleAssumption == /\ Users # {} /\ Browsers # {} /\ Passwords # {}
                           /\ Employer \in [Users -> Companies]
                           /\ FirstRole \in [Users -> Roles]
                           /\ FirstName \in [Companies -> Names]
                           /\ Holder \in [Earlier -> Users]
                           /\ Seat \in [Earlier -> Browsers]
ASSUME SeatsAssumption == \A c, d \in Earlier : Seat[c] = Seat[d] => c = d
ASSUME ScopeAssumption == /\ Operations \subseteq Kinds
                          /\ Faults \subseteq {"expire", "timeout", "crash"}

VARIABLES
    users,      \* table users: exists, role, password, refreshToken
    names,      \* the names in table companies
    jar,        \* whose login's cookies each browser holds
    age,        \* what of each login has expired: 1 the access token, 2 both
    pc,         \* where each call's handler stands
    local,      \* what each call's handler holds in local variables
    seen        \* history: what was true of each call's user while the call was served

vars == <<users, names, jar, age, pc, local, seen>>
tables == <<users, names>>

-----------------------------------------------------------------------------
(* Rows and local variables *)

User == [exists : BOOLEAN, role : Roles, password : Passwords,
         refresh : Calls \cup {None}]
Local == [kind : Kinds \cup {"none"}, browser : Browsers, user : Users,
          login : Calls \cup {None}, role : Roles \cup {None},
          password : Passwords \cup {None}, name : Names \cup {None},
          before : Names \cup {None}]
Facts == [exists : BOOLEAN, role : Roles, password : Passwords, name : Names]

AnyUser == CHOOSE u \in Users : TRUE
AnyBrowser == CHOOSE b \in Browsers : TRUE
AnyPassword == CHOOSE p \in Passwords : TRUE

\* A handler's locals: its browser, the user it is about, the login whose cookies came with
\* it, the role, password and company name of its body.
Locals(kind, b, u, role, password, name) ==
    [kind |-> kind, browser |-> b, user |-> u, login |-> jar[b], role |-> role,
     password |-> password, name |-> name, before |-> None]

Fact(u) == [exists |-> users[u].exists, role |-> users[u].role,
            password |-> users[u].password, name |-> names[Employer[u]]]
Exists(u) == users[u].exists
Finished == {"idle", "done", "failed", "lost", "crashed"}
Active(c) == pc[c] \notin Finished
Subject(c) == local[c].user

\* Each login has stored its token in its user's row: the last one of them is there.
Init ==
    /\ \E latest \in [Users -> Earlier \cup {None}] :
          /\ \A u \in Users :
                IF \E e \in Earlier : Holder[e] = u
                THEN latest[u] \in Earlier /\ Holder[latest[u]] = u
                ELSE latest[u] = None
          /\ users = [u \in Users |-> [exists |-> TRUE, role |-> FirstRole[u],
                                       password |-> AnyPassword, refresh |-> latest[u]]]
    /\ names = FirstName
    /\ jar = [b \in Browsers |-> IF \E e \in Earlier : Seat[e] = b
                                 THEN CHOOSE e \in Earlier : Seat[e] = b ELSE None]
    /\ age = [c \in Calls |-> 0]
    /\ pc = [c \in Calls |-> IF c \in Earlier THEN "done" ELSE "idle"]
    /\ local = [c \in Calls |->
          IF c \in Earlier
          THEN [kind |-> "login", browser |-> Seat[c], user |-> Holder[c], login |-> None,
                role |-> FirstRole[Holder[c]], password |-> AnyPassword, name |-> None,
                before |-> None]
          ELSE [kind |-> "none", browser |-> AnyBrowser, user |-> AnyUser, login |-> None,
                role |-> None, password |-> None, name |-> None, before |-> None]]
    /\ seen = [c \in Calls |-> {}]

-----------------------------------------------------------------------------
(* Cookies and tokens *)

\* A cookie is sent until its maxAge, which is taken to be its token's lifetime as well.
RefreshSent(b) == jar[b] # None /\ age[jar[b]] < 2
\* verifyAccessToken and getUserFromCookie: signature, type and expiry, no database.
AccessValid(b) == jar[b] # None /\ age[jar[b]] = 0
\* AuthGuard, in front of everything but signup, login and logout: a refresh token has come;
\* an access token alone does not do, since the refresh token is verified as well.
Passes(b) == RefreshSent(b)
Bearer(b) == Subject(jar[b])

\* The first step of a call.
Arrive(c, l, label) ==
    /\ l.kind \in Operations
    /\ pc[c] = "idle"
    /\ pc' = [pc EXCEPT ![c] = label]
    /\ local' = [local EXCEPT ![c] = l]
    /\ UNCHANGED age

Step(c, from, to) ==
    /\ pc[c] = from
    /\ pc' = [pc EXCEPT ![c] = to]
    /\ UNCHANGED <<age, local>>

-----------------------------------------------------------------------------
(* POST /auth/login, POST /auth/refresh, POST /auth/logout *)

\* The user is read and the password verified against the hash that was read.
LoginRead(c, b, u, password) ==
    /\ Exists(u) /\ users[u].password = password
    /\ Arrive(c, Locals("login", b, u, None, password, None), "issue")
    /\ UNCHANGED <<tables, jar>>

\* Any refresh token that has not expired will do: the comparison with the stored one is
\* commented out in verifyRefreshToken.
RefreshRead(c, b) ==
    /\ jar[b] # None
    /\ Arrive(c, Locals("refresh", b, Bearer(b), None, None, None),
              IF RefreshSent(b) THEN "issue" ELSE "failed")
    /\ UNCHANGED <<tables, jar>>

\* generateAccessToken puts the role it reads into the token's payload.
IssueTokens(c) ==
    /\ pc[c] = "issue"
    /\ Exists(Subject(c))
    /\ pc' = [pc EXCEPT ![c] = "store"]
    /\ local' = [local EXCEPT ![c].role = users[Subject(c)].role]
    /\ UNCHANGED <<tables, jar, age>>

\* The transaction of generateToken: the one refreshToken column of the user is overwritten.
\* A login answers with cookies, a refresh with an access token in the body and no cookie.
StoreToken(c) ==
    /\ Step(c, "store", "done")
    /\ Exists(Subject(c))
    /\ users' = [users EXCEPT ![Subject(c)].refresh = c]
    /\ jar' = IF local[c].kind = "login" THEN [jar EXCEPT ![local[c].browser] = c] ELSE jar
    /\ UNCHANGED names

\* That transaction passes its time limit.
TokenLost(c) ==
    /\ "timeout" \in Faults
    /\ Step(c, "store", "lost")
    /\ UNCHANGED <<tables, jar>>

LogoutRead(c, b) ==
    /\ RefreshSent(b)
    /\ Arrive(c, Locals("logout", b, Bearer(b), None, None, None), "signOut")
    /\ UNCHANGED <<tables, jar>>

\* Clears whatever cookies the browser holds when the answer arrives.
SignOut(c) ==
    /\ Step(c, "signOut", "done")
    /\ Exists(Subject(c))
    /\ users' = [users EXCEPT ![Subject(c)].refresh = None]
    /\ jar' = [jar EXCEPT ![local[c].browser] = None]
    /\ UNCHANGED names

-----------------------------------------------------------------------------
(* Calls for administrators, and GET /users/me *)

\* Slip: the role is taken from the token's payload.
GuardReadPayload(c, b) ==
    /\ Passes(b) /\ AccessValid(b) /\ Exists(Bearer(b))
    /\ local[jar[b]].role # "USER"
    /\ Arrive(c, Locals("manage", b, Bearer(b), local[jar[b]].role, None, None), "param")
    /\ UNCHANGED <<tables, jar>>

\* RoleGuard.canActivate asks the database for the role.
GuardRead(c, b) ==
    /\ Passes(b) /\ AccessValid(b) /\ Exists(Bearer(b))
    /\ users[Bearer(b)].role # "USER"
    /\ Arrive(c, Locals("manage", b, Bearer(b), users[Bearer(b)].role, None, None), "param")
    /\ UNCHANGED <<tables, jar>>

\* @GetUser verifies the token and reads the user once more, for the handler's use.
ParamRead(c) ==
    /\ pc[c] = "param"
    /\ age[local[c].login] = 0
    /\ Exists(Subject(c))
    /\ pc' = [pc EXCEPT ![c] = "done"]
    /\ local' = [local EXCEPT ![c].role = users[Subject(c)].role]
    /\ UNCHANGED <<tables, jar, age>>

\* The token has expired, or the user is gone, since the guard looked.
ParamRefused(c) ==
    /\ Step(c, "param", "failed")
    /\ age[local[c].login] > 0 \/ ~Exists(Subject(c))
    /\ UNCHANGED <<tables, jar>>

\* Without RoleGuard @GetUser comes first: adminPurchase hands the role it read to
\* createOrder, getMe reads the user again.
UserRead(c, b, kind) ==
    /\ Passes(b) /\ AccessValid(b) /\ Exists(Bearer(b))
    /\ Arrive(c, Locals(kind, b, Bearer(b), users[Bearer(b)].role, None, None), "serve")
    /\ UNCHANGED <<tables, jar>>

Serve(c) ==
    /\ Step(c, "serve", "done")
    /\ Exists(Subject(c))
    /\ local[c].kind = "purchase" => age[local[c].login] = 0 /\ local[c].role # "USER"
    /\ UNCHANGED <<tables, jar>>

ServeRefused(c) ==
    /\ Step(c, "serve", "failed")
    /\ \/ ~Exists(Subject(c))
       \/ local[c].kind = "purchase" /\ (age[local[c].login] > 0 \/ local[c].role = "USER")
    /\ UNCHANGED <<tables, jar>>

\* OrderRequestsController.getUserFromCookie reads the row, and the role decides.
ResolverRead(c, b) ==
    /\ Passes(b) /\ AccessValid(b) /\ Exists(Bearer(b))
    /\ users[Bearer(b)].role # "USER"
    /\ Arrive(c, Locals("resolve", b, Bearer(b), users[Bearer(b)].role, None, None), "done")
    /\ UNCHANGED <<tables, jar>>

-----------------------------------------------------------------------------
(* PATCH /users/:userId/role and DELETE /users/:id *)

\* role is None when the body has one of the spellings of UpdateUserRoleDto ('admin',
\* 'basicUser'), which no pipe refuses and Prisma does not know.
RoleRead(c, b, u, role) ==
    /\ Passes(b) /\ Exists(u)
    /\ Arrive(c, Locals("setRole", b, u, role, None, None), "setRole")
    /\ UNCHANGED <<tables, jar>>

\* Slip: the column takes whatever spelling it is given.
SetRoleUnchecked(c) ==
    /\ Step(c, "setRole", "done")
    /\ Exists(Subject(c))
    /\ users' = [users EXCEPT ![Subject(c)].role = local[c].role]
    /\ UNCHANGED <<names, jar>>

SetRole(c) ==
    /\ Step(c, "setRole", "done")
    /\ Exists(Subject(c)) /\ local[c].role # None
    /\ users' = [users EXCEPT ![Subject(c)].role = local[c].role]
    /\ UNCHANGED <<names, jar>>

RoleRefused(c) ==
    /\ Step(c, "setRole", "failed")
    /\ local[c].role = None
    /\ UNCHANGED <<tables, jar>>

\* The row goes; the cookies stay where they are.  What else deleteUser does is in Accounts.
RemoveUser(c, b, u) ==
    /\ Passes(b) /\ Exists(u)
    /\ Arrive(c, Locals("remove", b, u, None, None, None), "done")
    /\ users' = [users EXCEPT ![u].exists = FALSE, ![u].refresh = None]
    /\ UNCHANGED <<names, jar>>

-----------------------------------------------------------------------------
(* PATCH /users/update/info *)

Profile(b, password, name) ==
    [Locals("profile", b, Bearer(b), None, password, name)
        EXCEPT !.before = names[Employer[Bearer(b)]]]

\* The name the company had when the call began decides whether there is anything to rename.
Onward(l) == IF l.name = l.before THEN "done" ELSE "rename"

\* Slip: the comparison of the names comes first.
ProfileReadName(c, b, password, name) ==
    /\ Passes(b) /\ AccessValid(b) /\ Exists(Bearer(b))
    /\ LET l == Profile(b, password, name)
       IN  Arrive(c, l, IF password = None \/ name = l.before THEN Onward(l) ELSE "hash")
    /\ UNCHANGED <<tables, jar>>

\* Slip: the company is renamed before the password is looked at.
ProfileReadRenames(c, b, password, name) ==
    /\ Passes(b) /\ AccessValid(b) /\ Exists(Bearer(b))
    /\ name # None /\ \A k \in Companies : names[k] # name
    /\ Arrive(c, Profile(b, password, name), IF password = None THEN "done" ELSE "hash")
    /\ names' = [names EXCEPT ![Employer[Bearer(b)]] = name]
    /\ UNCHANGED <<users, jar>>

\* None: the body has no password, or no name.
ProfileRead(c, b, password, name) ==
    /\ Passes(b) /\ AccessValid(b) /\ Exists(Bearer(b))
    /\ LET l == Profile(b, password, name)
       IN  Arrive(c, l, IF password = None THEN Onward(l) ELSE "hash")
    /\ UNCHANGED <<tables, jar>>

\* The hash is read again and compared.
CheckPassword(c) ==
    /\ Step(c, "hash", "write")
    /\ Exists(Subject(c)) /\ users[Subject(c)].password # local[c].password
    /\ UNCHANGED <<tables, jar>>

SamePassword(c) ==
    /\ Step(c, "hash", "failed")
    /\ Exists(Subject(c)) /\ users[Subject(c)].password = local[c].password
    /\ UNCHANGED <<tables, jar>>

\* Committed at once, whatever becomes of the name.
WritePassword(c) ==
    /\ Step(c, "write", Onward(local[c]))
    /\ Exists(Subject(c))
    /\ users' = [users EXCEPT ![Subject(c)].password = local[c].password]
    /\ UNCHANGED <<names, jar>>

Taken(c) == \E k \in Companies \ {Employer[Subject(c)]} : names[k] = local[c].name

\* The user may be gone by now, the company is still renamed.  undefined leaves it alone.
Rename(c) ==
    /\ Step(c, "rename", "done")
    /\ ~Taken(c)
    /\ names' = IF local[c].name = None THEN names
                ELSE [names EXCEPT ![Employer[Subject(c)]] = local[c].name]
    /\ UNCHANGED <<users, jar>>

\* A company's name is unique.
NameTaken(c) ==
    /\ Step(c, "rename", "failed")
    /\ Taken(c)
    /\ UNCHANGED <<tables, jar>>

-----------------------------------------------------------------------------
(* What can happen to a handler *)

\* The row it needs has been deleted since it was read.
AccountGone(c) ==
    /\ \E label \in {"issue", "store", "signOut", "setRole", "hash", "write"} :
          Step(c, label, "failed")
    /\ ~Exists(Subject(c))
    /\ UNCHANGED <<tables, jar>>

\* Time passes: 24 hours for an access token, two weeks for both.
Expire(l) ==
    /\ "expire" \in Faults
    /\ local[l].kind = "login" /\ pc[l] = "done" /\ age[l] < 2
    /\ age' = [age EXCEPT ![l] = age[l] + 1]
    /\ UNCHANGED <<tables, jar, pc, local>>

\* The server process dies.
Crash ==
    /\ "crash" \in Faults
    /\ \E c \in Calls : Active(c)
    /\ pc' = [c \in Calls |-> IF Active(c) THEN "crashed" ELSE pc[c]]
    /\ UNCHANGED <<tables, jar, age, local>>

-----------------------------------------------------------------------------

Read(c, b) ==
    \/ RefreshRead(c, b) \/ LogoutRead(c, b) \/ GuardRead(c, b) \/ ResolverRead(c, b)
    \/ \E kind \in {"purchase", "me"} : UserRead(c, b, kind)
    \/ \E password \in Passwords \cup {None}, name \in Names \cup {None} :
          ProfileRead(c, b, password, name)
    \/ \E u \in Users :
          \/ \E password \in Passwords : LoginRead(c, b, u, password)
          \/ \E role \in Roles \cup {None} : RoleRead(c, b, u, role)
          \/ RemoveUser(c, b, u)

Continue(c) ==
    \/ IssueTokens(c) \/ StoreToken(c) \/ TokenLost(c) \/ SignOut(c)
    \/ ParamRead(c) \/ ParamRefused(c) \/ Serve(c) \/ ServeRefused(c)
    \/ SetRole(c) \/ RoleRefused(c)
    \/ CheckPassword(c) \/ SamePassword(c) \/ WritePassword(c) \/ Rename(c) \/ NameTaken(c)
    \/ AccountGone(c)

Move ==
    \/ \E c \in Calls : Continue(c) \/ Expire(c) \/ \E b \in Browsers : Read(c, b)
    \/ Crash

\* Until it is answered a call's history grows by what each step leaves true of its user.
Watch ==
    seen' = [c \in Calls |-> IF Active(c) \/ pc'[c] # pc[c]
                             THEN seen[c] \cup {Fact(Subject(c))'} ELSE seen[c]]

Next == Move /\ Watch

Spec == Init /\ [][Next]_vars
=============================================================================
