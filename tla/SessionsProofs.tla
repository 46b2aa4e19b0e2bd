--------------------------- MODULE SessionsProofs ---------------------------
(***************************************************************************)
(* Proofs about Sessions, for every set of calls, users, browsers and      *)
(* companies.                                                              *)
(***************************************************************************)
EXTENDS SessionsProperties, TLAPS

USE CallsAssumption, PeopleAssumption, ScopeAssumption

LEMMA AnyUserIsUser == AnyUser \in Users
  BY DEF AnyUser

LEMMA AnyBrowserIsBrowser == AnyBrowser \in Browsers
  BY DEF AnyBrowser

LEMMA AnyPasswordIsPassword == AnyPassword \in Passwords
  BY DEF AnyPassword

-----------------------------------------------------------------------------
(* Types *)

\* TypeOK without the history, which is written by Watch alone.
CoreType ==
    /\ users \in [Users -> User]
    /\ names \in [Companies -> Names]
    /\ jar \in [Browsers -> Calls \cup {None}]
    /\ age \in [Calls -> 0 .. 2]
    /\ pc \in [Calls -> Labels]
    /\ local \in [Calls -> Local]

\* The bearer of a browser's cookies is a user.
LEMMA BearerIsUser ==
    ASSUME CoreType, NEW b \in Browsers, jar[b] # None
    PROVE  jar[b] \in Calls /\ Bearer(b) \in Users
  BY DEF CoreType, Local, Bearer, Subject

\* The locals a handler starts with have their types.
LEMMA LocalsType ==
    ASSUME CoreType, NEW b \in Browsers, NEW u \in Users, NEW kind \in Kinds,
           NEW role \in Roles \cup {None}, NEW password \in Passwords \cup {None},
           NEW name \in Names \cup {None}
    PROVE  Locals(kind, b, u, role, password, name) \in Local
  BY DEF CoreType, Locals, Local

\* A call that arrives and leaves the tables and the cookies alone.
LEMMA ArriveType ==
    ASSUME CoreType, NEW c \in Calls, NEW l \in Local, NEW label \in Labels,
           Arrive(c, l, label), UNCHANGED <<tables, jar>>
    PROVE  CoreType'
  BY DEF CoreType, Arrive, tables

\* The row of a deleted user.
LEMMA GoneType ==
    ASSUME NEW row \in User
    PROVE  [row EXCEPT !.exists = FALSE, !.refresh = None] \in User
  BY DEF User

LEMMA ReadType ==
    ASSUME CoreType, NEW c \in Calls, NEW b \in Browsers, Read(c, b)
    PROVE  CoreType'
<1>1. CASE RefreshRead(c, b)
  <2>1. Locals("refresh", b, Bearer(b), None, None, None) \in Local
    BY <1>1, BearerIsUser, LocalsType DEF RefreshRead, Kinds
  <2> QED
    BY <1>1, <2>1, ArriveType DEF RefreshRead, Labels, Finished
<1>2. CASE LogoutRead(c, b)
  <2>1. Locals("logout", b, Bearer(b), None, None, None) \in Local
    BY <1>2, BearerIsUser, LocalsType DEF LogoutRead, RefreshSent, Kinds
  <2> QED
    BY <1>2, <2>1, ArriveType DEF LogoutRead, Labels
<1>3. CASE GuardRead(c, b) \/ ResolverRead(c, b) \/ \E k \in {"purchase", "me"} : UserRead(c, b, k)
  <2>1. Passes(b)
    BY <1>3 DEF GuardRead, ResolverRead, UserRead
  <2>2. Bearer(b) \in Users
    BY <2>1, BearerIsUser DEF Passes, RefreshSent
  <2>3. users[Bearer(b)].role \in Roles
    BY <2>2 DEF CoreType, User
  <2>4. \A k \in Kinds : Locals(k, b, Bearer(b), users[Bearer(b)].role, None, None) \in Local
    BY <2>2, <2>3, LocalsType
  <2> QED
    BY <1>3, <2>4, ArriveType
       DEF GuardRead, ResolverRead, UserRead, Labels, Finished, Kinds, Guarded
<1>4. CASE \E password \in Passwords \cup {None}, name \in Names \cup {None} :
              ProfileRead(c, b, password, name)
  <2> PICK password \in Passwords \cup {None}, name \in Names \cup {None} :
              ProfileRead(c, b, password, name)
    BY <1>4
  <2>1. Bearer(b) \in Users
    BY BearerIsUser DEF ProfileRead, Passes, RefreshSent
  <2>2. names[Employer[Bearer(b)]] \in Names
    BY <2>1 DEF CoreType
  <2>3. Locals("profile", b, Bearer(b), None, password, name) \in Local
    BY <2>1, LocalsType DEF Kinds
  <2>4. Profile(b, password, name) \in Local
    BY <2>2, <2>3 DEF Profile, Local
  <2> QED
    BY <2>4, ArriveType DEF ProfileRead, Onward, Labels, Finished
<1>5. CASE \E u \in Users, password \in Passwords : LoginRead(c, b, u, password)
  <2> PICK u \in Users, password \in Passwords : LoginRead(c, b, u, password)
    BY <1>5
  <2>1. Locals("login", b, u, None, password, None) \in Local
    BY LocalsType DEF Kinds
  <2> QED
    BY <2>1, ArriveType DEF LoginRead, Labels
<1>6. CASE \E u \in Users, role \in Roles \cup {None} : RoleRead(c, b, u, role)
  <2> PICK u \in Users, role \in Roles \cup {None} : RoleRead(c, b, u, role)
    BY <1>6
  <2>1. Locals("setRole", b, u, role, None, None) \in Local
    BY LocalsType DEF Kinds
  <2> QED
    BY <2>1, ArriveType DEF RoleRead, Labels
<1>7. CASE \E u \in Users : RemoveUser(c, b, u)
  <2> PICK u \in Users : RemoveUser(c, b, u)
    BY <1>7
  <2>1. Locals("remove", b, u, None, None, None) \in Local
    BY LocalsType DEF Kinds
  <2>2. [users[u] EXCEPT !.exists = FALSE, !.refresh = None] \in User
    <3>1. users[u] \in User
      BY DEF CoreType
    <3> QED
      BY <3>1, GoneType
  <2>3. users' \in [Users -> User]
    BY <2>2 DEF RemoveUser, CoreType
  <2> QED
    BY <2>1, <2>3 DEF RemoveUser, Arrive, CoreType, Labels, Finished
<1> QED
  BY <1>1, <1>2, <1>3, <1>4, <1>5, <1>6, <1>7 DEF Read

\* A handler writes only values of its columns' types.
LEMMA ContinueType ==
    ASSUME CoreType, NEW c \in Calls, Continue(c),
           pc[c] = "write" => local[c].password \in Passwords
    PROVE  CoreType'
<1> DEFINE u == Subject(c)
<1>0. /\ u \in Users /\ local[c] \in Local
      /\ local[c].browser \in Browsers
  BY DEF CoreType, Local, Subject
<1> HIDE DEF u
<1>1. ASSUME NEW from, NEW to \in Labels, Step(c, from, to), UNCHANGED <<tables, jar>>
      PROVE  CoreType'
  BY <1>1 DEF Step, CoreType, tables
<1>2. CASE IssueTokens(c) \/ ParamRead(c)
  <2>1. users[u].role \in Roles
    BY <1>0 DEF CoreType, User
  <2>2. [local[c] EXCEPT !.role = users[u].role] \in Local
    BY <1>0, <2>1 DEF Local
  <2>3. local' \in [Calls -> Local]
    BY <1>2, <2>2 DEF IssueTokens, ParamRead, CoreType, u
  <2> QED
    BY <1>2, <2>3 DEF IssueTokens, ParamRead, CoreType, tables, Labels, Finished
<1>3. CASE StoreToken(c)
  <2>5. [users[u] EXCEPT !.refresh = c] \in User
    BY <1>0 DEF CoreType, User
  <2>1. users' \in [Users -> User]
    BY <1>0, <1>3, <2>5 DEF StoreToken, CoreType, u
  <2>2. jar' \in [Browsers -> Calls \cup {None}]
    BY <1>0, <1>3 DEF StoreToken, CoreType
  <2> QED
    BY <1>3, <2>1, <2>2 DEF StoreToken, Step, CoreType, Labels, Finished
<1>4. CASE SignOut(c)
  <2>5. [users[u] EXCEPT !.refresh = None] \in User
    BY <1>0 DEF CoreType, User
  <2>1. users' \in [Users -> User]
    BY <1>0, <1>4, <2>5 DEF SignOut, CoreType, u
  <2>2. jar' \in [Browsers -> Calls \cup {None}]
    BY <1>0, <1>4 DEF SignOut, CoreType
  <2> QED
    BY <1>4, <2>1, <2>2 DEF SignOut, Step, CoreType, Labels, Finished
<1>5. CASE SetRole(c)
  <2>1. local[c].role \in Roles
    BY <1>0, <1>5 DEF SetRole, Local
  <2>5. [users[u] EXCEPT !.role = local[c].role] \in User
    BY <1>0, <2>1 DEF CoreType, User
  <2>2. users' \in [Users -> User]
    BY <1>0, <1>5, <2>5 DEF SetRole, CoreType, u
  <2> QED
    BY <1>5, <2>2 DEF SetRole, Step, CoreType, Labels, Finished
<1>6. CASE WritePassword(c)
  <2>1. local[c].password \in Passwords
    BY <1>6 DEF WritePassword, Step
  <2>4. users[u] \in User
    BY <1>0 DEF CoreType
  <2>5. [users[u] EXCEPT !.password = local[c].password] \in User
    BY <2>1, <2>4 DEF User
  <2>2. users' \in [Users -> User]
    BY <1>0, <1>6, <2>5 DEF WritePassword, CoreType, u
  <2> QED
    BY <1>6, <2>2 DEF WritePassword, Step, CoreType, Labels, Finished, Onward
<1>7. CASE Rename(c)
  <2>1. local[c].name \in Names \cup {None}
    BY <1>0 DEF Local
  <2>2. names' \in [Companies -> Names]
    BY <1>7, <2>1 DEF Rename, CoreType
  <2> QED
    BY <1>7, <2>2 DEF Rename, Step, CoreType, Labels, Finished
<1>8. CASE \/ TokenLost(c) \/ ParamRefused(c) \/ Serve(c) \/ ServeRefused(c) \/ RoleRefused(c)
           \/ CheckPassword(c) \/ SamePassword(c) \/ NameTaken(c) \/ AccountGone(c)
  BY <1>1, <1>8 DEF TokenLost, ParamRefused, Serve, ServeRefused, RoleRefused,
                    CheckPassword, SamePassword, NameTaken, AccountGone, Labels, Finished
<1> QED
  BY <1>2, <1>3, <1>4, <1>5, <1>6, <1>7, <1>8 DEF Continue

\* Time and the death of the process.
LEMMA EnvironmentType ==
    ASSUME CoreType, Crash \/ \E l \in Calls : Expire(l)
    PROVE  CoreType'
<1>1. CASE Crash
  BY <1>1 DEF Crash, CoreType, tables, Labels, Finished
<1>2. ASSUME NEW l \in Calls, Expire(l) PROVE CoreType'
  BY <1>2 DEF Expire, CoreType, tables
<1> QED
  BY <1>1, <1>2

\* What Watch writes into a history is a fact.
LEMMA WatchType ==
    ASSUME TypeOK, CoreType', Watch
    PROVE  TypeOK'
<1>1. \A c \in Calls : Fact(Subject(c))' \in Facts
  BY DEF CoreType, Fact, Facts, Subject, Local, User
<1>2. seen' \in [Calls -> SUBSET Facts]
  BY <1>1 DEF Watch, TypeOK
<1> QED
  BY <1>2 DEF TypeOK, CoreType

-----------------------------------------------------------------------------
(* What holds of each call *)

\* Which handler stands at which label.
Place(c) ==
    /\ pc[c] \in {"issue", "store"} => local[c].kind \in {"login", "refresh"}
    /\ pc[c] = "signOut" => local[c].kind = "logout"
    /\ pc[c] = "param" => local[c].kind = "manage"
    /\ pc[c] = "serve" => local[c].kind \in {"purchase", "me"}
    /\ pc[c] = "setRole" => local[c].kind = "setRole"
    /\ pc[c] \in {"hash", "write", "rename"} => local[c].kind = "profile"

\* The caller was an administrator at some moment of the call.
Vouched(c) == \E s \in seen[c] : s.exists /\ s.role # "USER"

\* From the guard's read on, the history vouches for the call.
RoleHeld(c) ==
    /\ pc[c] = "param" => Vouched(c)
    /\ pc[c] = "serve" /\ local[c].kind = "purchase" /\ local[c].role # "USER" => Vouched(c)
    /\ pc[c] = "done" /\ local[c].kind \in Guarded => Vouched(c)

HadPassword(c) == \E s \in seen[c] : s.password = local[c].password
HadName(c, name) == \E s \in seen[c] : s.name = name

\* How far a profile change has come.
ProfileHeld(c) ==
    /\ pc[c] \in {"hash", "write"} => local[c].password \in Passwords
    /\ local[c].kind = "profile" =>
         /\ pc[c] \in {"hash", "write", "rename", "done"} => HadName(c, local[c].before)
         /\ pc[c] \in {"rename", "done"} /\ local[c].password # None => HadPassword(c)
         /\ pc[c] = "done" /\ local[c].name # None => HadName(c, local[c].name)

Held(c) == Place(c) /\ RoleHeld(c) /\ ProfileHeld(c)

\* The properties are not inductive: what a handler may still do depends on the label it
\* has reached and on what its first read established.
SessionsInv == TypeOK /\ \A c \in Calls : Held(c)

-----------------------------------------------------------------------------
(* How a step bears on a call *)

\* What Watch does: histories grow, and a call at work is seen after each of its steps.
LEMMA SeenGrows ==
    ASSUME TypeOK, Watch, NEW c \in Calls
    PROVE  /\ seen[c] \subseteq seen'[c]
           /\ Active(c) \/ pc'[c] # pc[c] => Fact(Subject(c))' \in seen'[c]
  BY DEF TypeOK, Watch

\* A call that does nothing in a step keeps what it holds.
LEMMA Quiet ==
    ASSUME TypeOK, Watch, NEW c \in Calls, Held(c),
           pc'[c] = pc[c], local'[c] = local[c]
    PROVE  Held(c)'
<1>1. seen[c] \subseteq seen'[c]
  BY SeenGrows
<1>3. Place(c)'
  BY DEF Held, Place
<1>4. RoleHeld(c)'
  BY <1>1 DEF Held, RoleHeld, Vouched
<1>6. ProfileHeld(c)'
  BY <1>1 DEF Held, ProfileHeld, HadPassword, HadName
<1> QED
  BY <1>3, <1>4, <1>6 DEF Held

\* A call that ends without success keeps nothing.
LEMMA Ended ==
    ASSUME NEW c \in Calls, Held(c), local'[c] = local[c],
           pc'[c] \in {"failed", "lost", "crashed"}
    PROVE  Held(c)'
  BY DEF Held, Place, RoleHeld, ProfileHeld

-----------------------------------------------------------------------------
(* The step of a call itself *)

\* The history after an arrival that leaves the tables alone holds what was read.
LEMMA Arrival ==
    ASSUME TypeOK, Watch, NEW c \in Calls, NEW l \in Local, NEW label \in Labels \ {"idle"},
           Arrive(c, l, label)
    PROVE  /\ pc'[c] = label /\ local'[c] = l
           /\ \E s \in seen'[c] : /\ s.exists = users'[l.user].exists
                                 /\ s.role = users'[l.user].role
                                 /\ s.name = names'[Employer[l.user]]
<1>1. pc'[c] = label /\ local'[c] = l /\ pc[c] = "idle"
  BY DEF Arrive, TypeOK
<1>2. Fact(Subject(c))' \in seen'[c]
  BY <1>1, SeenGrows
<1>3. /\ Fact(Subject(c))'.exists = users'[l.user].exists
      /\ Fact(Subject(c))'.role = users'[l.user].role
      /\ Fact(Subject(c))'.name = names'[Employer[l.user]]
  BY <1>1 DEF Subject, Fact
<1> QED
  BY <1>1, <1>2, <1>3

LEMMA CoreOfType == TypeOK => CoreType
  BY DEF TypeOK, CoreType

\* An arriving call holds what its label asks for.
LEMMA ReadHeld ==
    ASSUME TypeOK, NEW c \in Calls, NEW b \in Browsers, Read(c, b), Watch
    PROVE  Held(c)'
<1> USE CoreOfType
<1>1. CASE RefreshRead(c, b)
  <2> DEFINE l == Locals("refresh", b, Bearer(b), None, None, None)
  <2>1. /\ l \in Local /\ jar[b] \in Calls
        /\ l.kind = "refresh" /\ l.login = jar[b] /\ l.user = Bearer(b)
    BY <1>1, BearerIsUser, LocalsType DEF RefreshRead, Kinds, Locals
  <2>3. CASE RefreshSent(b)
    <3>1. pc'[c] = "issue" /\ local'[c] = l
      BY <1>1, <2>1, <2>3, Arrival DEF RefreshRead, Labels, Finished
    <3> QED
      BY <2>1, <3>1 DEF Held, Place, RoleHeld, ProfileHeld
  <2>4. CASE ~RefreshSent(b)
    <3>1. pc'[c] = "failed" /\ local'[c] = l
      BY <1>1, <2>1, <2>4, Arrival DEF RefreshRead, Labels, Finished
    <3> QED
      BY <2>1, <3>1 DEF Held, Place, RoleHeld, ProfileHeld
  <2> QED
    BY <2>3, <2>4
<1>2. CASE LogoutRead(c, b)
  <2> DEFINE l == Locals("logout", b, Bearer(b), None, None, None)
  <2>1. l \in Local /\ l.kind = "logout"
    BY <1>2, BearerIsUser, LocalsType DEF LogoutRead, RefreshSent, Kinds, Locals
  <2>2. pc'[c] = "signOut" /\ local'[c] = l
    BY <1>2, <2>1, Arrival DEF LogoutRead, Labels
  <2> QED
    BY <2>1, <2>2 DEF Held, Place, RoleHeld, ProfileHeld
<1>3. ASSUME NEW kind \in {"manage", "resolve", "purchase", "me"},
             NEW label \in {"param", "done", "serve"},
             Passes(b), Exists(Bearer(b)),
             Arrive(c, Locals(kind, b, Bearer(b), users[Bearer(b)].role, None, None), label),
             UNCHANGED <<tables, jar>>,
             label = "param" => kind = "manage",
             label = "serve" => kind \in {"purchase", "me"},
             label \in {"param", "done"} => users[Bearer(b)].role # "USER"
      PROVE  Held(c)'
  <2> DEFINE u == Bearer(b)
  <2> DEFINE l == Locals(kind, b, u, users[u].role, None, None)
  <2>1. u \in Users
    BY <1>3, BearerIsUser DEF Passes, RefreshSent
  <2>2. users[u].role \in Roles
    BY <2>1 DEF TypeOK, User
  <2>3. l \in Local /\ l.kind = kind /\ l.user = u /\ l.role = users[u].role
    BY <1>3, <2>1, <2>2, LocalsType DEF Locals, Kinds, Guarded
  <2> HIDE DEF u
  <2>4. /\ pc'[c] = label /\ local'[c] = l
        /\ \E s \in seen'[c] : /\ s.exists = users'[l.user].exists
                              /\ s.role = users'[l.user].role
    BY <1>3, <2>3, Arrival DEF Labels, Finished, u
  <2>5. users'[u].exists /\ users'[u].role = users[u].role
    BY <1>3, <2>1 DEF tables, Exists, u
  <2>6. users[u].role # "USER" => Vouched(c)'
    BY <2>3, <2>4, <2>5 DEF Vouched
  <2> QED
    BY <1>3, <2>3, <2>4, <2>6
       DEF Held, Place, RoleHeld, ProfileHeld, Guarded, u
<1>4. CASE GuardRead(c, b) \/ ResolverRead(c, b) \/ \E k \in {"purchase", "me"} : UserRead(c, b, k)
  BY <1>3, <1>4 DEF GuardRead, ResolverRead, UserRead
<1>5. CASE \E password \in Passwords \cup {None}, name \in Names \cup {None} :
              ProfileRead(c, b, password, name)
  <2> PICK password \in Passwords \cup {None}, name \in Names \cup {None} :
              ProfileRead(c, b, password, name)
    BY <1>5
  <2> DEFINE u == Bearer(b)
  <2> DEFINE l == Profile(b, password, name)
  <2> DEFINE label == IF password = None THEN Onward(l) ELSE "hash"
  <2>1. u \in Users
    BY BearerIsUser DEF ProfileRead, Passes, RefreshSent
  <2>2. names[Employer[u]] \in Names
    BY <2>1 DEF TypeOK
  <2>3. Locals("profile", b, u, None, password, name) \in Local
    BY <2>1, LocalsType DEF Kinds
  <2>4. /\ l \in Local /\ l.kind = "profile" /\ l.user = u
        /\ l.password = password /\ l.name = name /\ l.before = names[Employer[u]]
    BY <2>2, <2>3 DEF Profile, Locals, Local
  <2>5. label \in {"hash", "rename", "done"} /\ Arrive(c, l, label)
    BY DEF ProfileRead, Onward
  <2>6. label = "done" => name = names[Employer[u]]
    BY <2>4 DEF Onward
  <2>7. label = "hash" <=> password # None
    BY DEF Onward
  <2>8. UNCHANGED names
    BY DEF ProfileRead, tables
  <2> HIDE DEF l, label
  <2>9. /\ pc'[c] = label /\ local'[c] = l
        /\ \E s \in seen'[c] : s.name = names'[Employer[l.user]]
    BY <2>4, <2>5, Arrival DEF Labels, Finished
  <2>10. \E s \in seen'[c] : s.name = names[Employer[u]]
    BY <2>4, <2>8, <2>9
  <2>11. HadName(c, local[c].before)'
    BY <2>4, <2>9, <2>10 DEF HadName
  <2>12. pc'[c] = "done" => HadName(c, local[c].name)'
    BY <2>4, <2>6, <2>9, <2>10 DEF HadName
  <2> QED
    BY <2>4, <2>5, <2>7, <2>9, <2>11, <2>12
       DEF Held, Place, RoleHeld, ProfileHeld, Guarded
<1>6. CASE \E u \in Users, password \in Passwords : LoginRead(c, b, u, password)
  <2> PICK u \in Users, password \in Passwords : LoginRead(c, b, u, password)
    BY <1>6
  <2> DEFINE l == Locals("login", b, u, None, password, None)
  <2>1. l \in Local /\ l.kind = "login"
    BY LocalsType DEF Kinds, Locals
  <2>2. pc'[c] = "issue" /\ local'[c] = l
    BY <2>1, Arrival DEF LoginRead, Labels
  <2> QED
    BY <2>1, <2>2 DEF Held, Place, RoleHeld, ProfileHeld
<1>7. CASE \E u \in Users, role \in Roles \cup {None} : RoleRead(c, b, u, role)
  <2> PICK u \in Users, role \in Roles \cup {None} : RoleRead(c, b, u, role)
    BY <1>7
  <2> DEFINE l == Locals("setRole", b, u, role, None, None)
  <2>1. l \in Local /\ l.kind = "setRole"
    BY LocalsType DEF Kinds, Locals
  <2>2. pc'[c] = "setRole" /\ local'[c] = l
    BY <2>1, Arrival DEF RoleRead, Labels
  <2> QED
    BY <2>1, <2>2 DEF Held, Place, RoleHeld, ProfileHeld
<1>8. CASE \E u \in Users : RemoveUser(c, b, u)
  <2> PICK u \in Users : RemoveUser(c, b, u)
    BY <1>8
  <2> DEFINE l == Locals("remove", b, u, None, None, None)
  <2>1. l \in Local /\ l.kind = "remove"
    BY LocalsType DEF Kinds, Locals
  <2>2. pc'[c] = "done" /\ local'[c] = l
    BY <2>1, Arrival DEF RemoveUser, Labels, Finished
  <2> QED
    BY <2>1, <2>2 DEF Held, Place, RoleHeld, ProfileHeld, Guarded
<1> QED
  BY <1>1, <1>2, <1>4, <1>5, <1>6, <1>7, <1>8, Zenon DEF Read

\* A call that goes on holds what its next label asks for.
LEMMA ContinueHeld ==
    ASSUME TypeOK, CoreType', Watch, NEW c \in Calls, Continue(c), Held(c)
    PROVE  Held(c)'
<1> DEFINE u == Subject(c)
<1>0. u \in Users /\ local[c] \in Local
  BY DEF TypeOK, Local, Subject
<1>1. seen[c] \subseteq seen'[c]
  BY SeenGrows
<1>2. pc'[c] # pc[c] => Fact(Subject(c))' \in seen'[c]
  BY SeenGrows
<1>3. ASSUME NEW from, NEW to, Step(c, from, to)
      PROVE  pc[c] = from /\ pc'[c] = to /\ local'[c] = local[c]
  BY <1>3 DEF Step, TypeOK
<1> HIDE DEF u
<1>4. CASE IssueTokens(c)
  <2>1. /\ pc[c] = "issue" /\ pc'[c] = "store"
        /\ local'[c] = [local[c] EXCEPT !.role = users[u].role]
    BY <1>4 DEF IssueTokens, TypeOK, u
  <2>2. local'[c].kind = local[c].kind /\ local'[c].login = local[c].login
    BY <1>0, <2>1 DEF Local
  <2> QED
    BY <2>1, <2>2 DEF Held, Place, RoleHeld, ProfileHeld
<1>5. CASE ParamRead(c)
  <2>1. /\ pc[c] = "param" /\ pc'[c] = "done"
        /\ local'[c] = [local[c] EXCEPT !.role = users[u].role]
    BY <1>5 DEF ParamRead, TypeOK, u
  <2>2. local'[c].kind = "manage"
    BY <1>0, <2>1 DEF Held, Place, Local
  <2>3. Vouched(c)'
    BY <1>1, <2>1 DEF Held, RoleHeld, Vouched
  <2> QED
    BY <2>1, <2>2, <2>3 DEF Held, Place, RoleHeld, ProfileHeld
<1>6. CASE StoreToken(c) \/ SignOut(c) \/ SetRole(c)
  <2>1. /\ pc[c] \in {"store", "signOut", "setRole"} /\ pc'[c] = "done"
        /\ local'[c] = local[c]
    BY <1>3, <1>6 DEF StoreToken, SignOut, SetRole
  <2> QED
    BY <2>1 DEF Held, Place, RoleHeld, ProfileHeld, Guarded
<1>7. CASE Serve(c)
  <2>1. pc[c] = "serve" /\ pc'[c] = "done" /\ local'[c] = local[c]
    BY <1>3, <1>7 DEF Serve
  <2>2. local[c].kind = "purchase" => Vouched(c)'
    BY <1>1, <1>7, <2>1 DEF Serve, Held, RoleHeld, Vouched
  <2> QED
    BY <2>1, <2>2 DEF Held, Place, RoleHeld, ProfileHeld, Guarded
<1>8. CASE CheckPassword(c)
  <2>1. pc[c] = "hash" /\ pc'[c] = "write" /\ local'[c] = local[c]
    BY <1>3, <1>8 DEF CheckPassword
  <2>2. HadName(c, local[c].before)'
    BY <1>1, <2>1 DEF Held, Place, ProfileHeld, HadName
  <2> QED
    BY <2>1, <2>2 DEF Held, Place, RoleHeld, ProfileHeld
<1>9. CASE WritePassword(c)
  <2>1. /\ pc[c] = "write" /\ pc'[c] = Onward(local[c]) /\ local'[c] = local[c]
        /\ pc'[c] \in {"rename", "done"}
    BY <1>3, <1>9 DEF WritePassword, Onward
  <2>2. Fact(Subject(c))' \in seen'[c]
    BY <1>2, <2>1
  <2>3. users'[u].password = local[c].password
    BY <1>0, <1>9 DEF WritePassword, TypeOK, User, u
  <2>4. HadPassword(c)'
    BY <2>1, <2>2, <2>3 DEF HadPassword, Fact, Subject, u
  <2>5. HadName(c, local[c].before)'
    BY <1>1, <2>1 DEF Held, Place, ProfileHeld, HadName
  <2>6. pc'[c] = "done" => HadName(c, local[c].name)'
    BY <2>1, <2>5 DEF Onward
  <2> QED
    BY <2>1, <2>4, <2>5, <2>6
       DEF Held, Place, RoleHeld, ProfileHeld, Guarded
<1>10. CASE Rename(c)
  <2>1. pc[c] = "rename" /\ pc'[c] = "done" /\ local'[c] = local[c]
    BY <1>3, <1>10 DEF Rename
  <2>2. Fact(Subject(c))' \in seen'[c]
    BY <1>2, <2>1
  <2>3. local[c].name # None => names'[Employer[u]] = local[c].name
    BY <1>0, <1>10 DEF Rename, TypeOK, u
  <2>4. local[c].name # None => HadName(c, local[c].name)'
    BY <2>1, <2>2, <2>3 DEF HadName, Fact, Subject, u
  <2>5. local[c].password # None => HadPassword(c)'
    BY <1>1, <2>1 DEF Held, Place, ProfileHeld, HadPassword
  <2>6. HadName(c, local[c].before)'
    BY <1>1, <2>1 DEF Held, Place, ProfileHeld, HadName
  <2> QED
    BY <2>1, <2>4, <2>5, <2>6
       DEF Held, Place, RoleHeld, ProfileHeld, Guarded
<1>11. CASE \/ ParamRefused(c) \/ ServeRefused(c) \/ RoleRefused(c) \/ SamePassword(c)
            \/ NameTaken(c)
  BY <1>3, <1>11, Ended DEF ParamRefused, ServeRefused, RoleRefused, SamePassword, NameTaken
<1>12. CASE TokenLost(c)
  BY <1>3, <1>12, Ended DEF TokenLost
<1>13. CASE AccountGone(c)
  BY <1>3, <1>13, Ended DEF AccountGone
<1> QED
  BY <1>4, <1>5, <1>6, <1>7, <1>8, <1>9, <1>10, <1>11, <1>12, <1>13 DEF Continue

-----------------------------------------------------------------------------
(* The inductive invariant *)

LEMMA InitSessions == Init => SessionsInv
<1> SUFFICES ASSUME Init PROVE SessionsInv
  OBVIOUS
<1>1. users \in [Users -> User]
  <2>1. PICK latest \in [Users -> Earlier \cup {None}] :
            users = [u \in Users |-> [exists |-> TRUE, role |-> FirstRole[u],
                                      password |-> AnyPassword, refresh |-> latest[u]]]
    BY DEF Init
  <2> QED
    BY <2>1, AnyPasswordIsPassword DEF User
<1>2. jar \in [Browsers -> Calls \cup {None}]
  BY DEF Init
<1>3. ASSUME NEW c \in Calls
      PROVE  local[c] \in Local /\ (local[c].kind = "login" \/ local[c].kind = "none")
  <2>1. CASE c \in Earlier
    <3>1. Seat[c] \in Browsers /\ Holder[c] \in Users /\ FirstRole[Holder[c]] \in Roles
      BY <2>1
    <3> QED
      BY <1>3, <2>1, <3>1, AnyPasswordIsPassword DEF Init, Local, Kinds
  <2>2. CASE c \notin Earlier
    BY <1>3, <2>2, AnyUserIsUser, AnyBrowserIsBrowser DEF Init, Local
  <2> QED
    BY <2>1, <2>2
<1>4. local \in [Calls -> Local]
  <2>1. DOMAIN local = Calls /\ local = [c \in Calls |-> local[c]]
    BY DEF Init
  <2> QED
    BY <1>3, <2>1
<1>5. /\ pc \in [Calls -> Labels] /\ age \in [Calls -> 0 .. 2]
      /\ seen \in [Calls -> SUBSET Facts] /\ names \in [Companies -> Names]
      /\ \A c \in Calls : pc[c] \in {"done", "idle"}
  BY DEF Init, Labels, Finished
<1>6. ASSUME NEW c \in Calls PROVE Held(c)
  BY <1>3, <1>5 DEF Held, Place, RoleHeld, ProfileHeld, Guarded
<1> QED
  BY <1>1, <1>2, <1>4, <1>5, <1>6 DEF SessionsInv, TypeOK

LEMMA NextSessions == SessionsInv /\ [Next]_vars => SessionsInv'
<1> SUFFICES ASSUME SessionsInv, [Next]_vars PROVE SessionsInv'
  OBVIOUS
<1>0. TypeOK /\ CoreType /\ \A c \in Calls : Held(c)
  BY CoreOfType DEF SessionsInv
<1>1. CASE UNCHANGED vars
  BY <1>1 DEF vars, SessionsInv, TypeOK, Held, Place, RoleHeld, ProfileHeld,
              Vouched, HadName, HadPassword, Exists, Subject
<1>2. CASE Next
  <2>1. Move /\ Watch
    BY <1>2 DEF Next
  <2>3. CoreType'
    <3>1. \A c \in Calls : pc[c] = "write" => local[c].password \in Passwords
      BY <1>0 DEF Held, ProfileHeld
    <3> QED
      BY <1>0, <2>1, <3>1, ReadType, ContinueType, EnvironmentType DEF Move
  <2>4. TypeOK'
    BY <1>0, <2>1, <2>3, WatchType
  <2>5. ASSUME NEW c \in Calls, pc'[c] = pc[c], local'[c] = local[c] PROVE Held(c)'
    BY <1>0, <2>1, <2>5, Quiet
  <2>6. ASSUME NEW d \in Calls, NEW b \in Browsers, Read(d, b), NEW c \in Calls
        PROVE  Held(c)'
    <3>1. CASE c = d
      BY <1>0, <2>1, <2>6, <3>1, ReadHeld
    <3>2. CASE c # d
      <4>1. \E l, label : Arrive(d, l, label)
        BY <2>6 DEF Read, RefreshRead, LogoutRead, GuardRead, ResolverRead, UserRead,
                    ProfileRead, LoginRead, RoleRead, RemoveUser
      <4>2. pc'[c] = pc[c] /\ local'[c] = local[c]
        BY <1>0, <3>2, <4>1 DEF Arrive, TypeOK
      <4> QED
        BY <2>5, <4>2
    <3> QED
      BY <3>1, <3>2
  <2>7. ASSUME NEW d \in Calls, Continue(d), NEW c \in Calls
        PROVE  Held(c)'
    <3>1. CASE c = d
      BY <1>0, <2>1, <2>3, <2>7, <3>1, ContinueHeld
    <3>2. CASE c # d
      <4>1. pc'[c] = pc[c] /\ local'[c] = local[c]
        BY <1>0, <2>7, <3>2
           DEF Continue, IssueTokens, StoreToken, TokenLost, SignOut, ParamRead, ParamRefused,
               Serve, ServeRefused, SetRole, RoleRefused, CheckPassword, SamePassword,
               WritePassword, Rename, NameTaken, AccountGone, Step, TypeOK
      <4> QED
        BY <2>5, <4>1
    <3> QED
      BY <3>1, <3>2
  <2>8. ASSUME NEW l \in Calls, Expire(l), NEW c \in Calls PROVE Held(c)'
    BY <2>5, <2>8 DEF Expire
  <2>9. ASSUME Crash, NEW c \in Calls PROVE Held(c)'
    <3>1. local'[c] = local[c] /\ (pc'[c] = "crashed" \/ pc'[c] = pc[c])
      BY <1>0, <2>9 DEF Crash, TypeOK
    <3> QED
      BY <1>0, <2>5, <3>1, Ended
  <2>10. \A c \in Calls : Held(c)'
    BY <2>1, <2>6, <2>7, <2>8, <2>9 DEF Move
  <2> QED
    BY <2>4, <2>10 DEF SessionsInv
<1> QED
  BY <1>1, <1>2

\* What each handler holds on to, at every label, however the handlers interleave.
THEOREM Invariant == Spec => []SessionsInv
  BY InitSessions, NextSessions, PTL DEF Spec

\* Every reachable state is well typed; in particular no role outside of the enumeration
\* is ever stored, although no pipe validates it.
THEOREM TypeCorrect == Spec => []TypeOK
<1>1. SessionsInv => TypeOK
  BY DEF SessionsInv
<1> QED
  BY <1>1, Invariant, PTL

-----------------------------------------------------------------------------
(* The properties *)

\* No token, however old, and no change of role in between lets somebody act who was not
\* an administrator at some moment of the very call.
THEOREM NobodyOverreaches == Spec => []ActsWithinRole
<1>1. SessionsInv => ActsWithinRole
  BY DEF SessionsInv, Held, RoleHeld, Vouched, ActsWithinRole
<1> QED
  BY <1>1, Invariant, PTL

\* A profile change that answers with success has taken effect, whoever changed the same
\* rows meanwhile.
THEOREM ProfilesTakeEffect == Spec => []ProfileTakesEffect
<1>1. SessionsInv => ProfileTakesEffect
  BY DEF SessionsInv, Held, ProfileHeld, HadPassword, HadName, ProfileTakesEffect
<1> QED
  BY <1>1, Invariant, PTL

\* Only a profile change that succeeds renames a company.
LEMMA RenameStep ==
    ASSUME SessionsInv, [Next]_vars, NEW k \in Companies, names'[k] # names[k]
    PROVE  \E c \in Calls : /\ pc[c] # "done" /\ pc'[c] = "done"
                            /\ local'[c].kind = "profile"
                            /\ names'[k] = local'[c].name
<1>0. TypeOK /\ \A c \in Calls : Held(c)
  BY DEF SessionsInv
<1>1. names' # names
  OBVIOUS
<1>2. PICK c \in Calls : Rename(c)
  <2>1. Move
    BY <1>1 DEF Next, vars
  <2>2. ~Crash /\ ~\E l \in Calls : Expire(l)
    BY <1>1 DEF Crash, Expire, tables
  <2>3. ~\E d \in Calls, b \in Browsers : Read(d, b)
    BY <1>1 DEF Read, RefreshRead, LogoutRead, GuardRead, ResolverRead, UserRead,
                ProfileRead, LoginRead, RoleRead, RemoveUser, tables
  <2>4. ASSUME NEW d \in Calls, Continue(d) PROVE Rename(d)
    BY <1>1, <2>4
       DEF Continue, IssueTokens, StoreToken, TokenLost, SignOut, ParamRead, ParamRefused,
           Serve, ServeRefused, SetRole, RoleRefused, CheckPassword, SamePassword,
           WritePassword, NameTaken, AccountGone, tables
  <2> QED
    BY <2>1, <2>2, <2>3, <2>4 DEF Move
<1>3. pc[c] = "rename" /\ pc'[c] = "done" /\ local'[c] = local[c]
  BY <1>0, <1>2 DEF Rename, Step, TypeOK
<1>4. local[c].kind = "profile"
  BY <1>0, <1>3 DEF Held, Place
<1>5. names'[k] = local[c].name
  BY <1>0, <1>2 DEF Rename, TypeOK
<1> QED
  BY <1>3, <1>4, <1>5

\* A refused profile change has left the company's name alone.
THEOREM RefusalsKeepNames == Spec => RefusedKeepsName
<1>1. SessionsInv /\ [Next]_vars
        => [\A k \in Companies : names'[k] # names[k] =>
              \E c \in Calls : /\ pc[c] # "done" /\ pc'[c] = "done"
                               /\ local'[c].kind = "profile"
                               /\ names'[k] = local'[c].name]_vars
  BY RenameStep
<1> QED
  BY <1>1, Invariant, PTL DEF Spec, RefusedKeepsName
=============================================================================
