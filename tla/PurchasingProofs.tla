-------------------------- MODULE PurchasingProofs --------------------------
(***************************************************************************)
(* Proofs about Purchasing, for every set of calls, users and companies:   *)
(* first of Spec, then of RecordedSpec, which is Spec with a memory of the *)
(* calls that have met at a row.                                           *)
(***************************************************************************)
EXTENDS PurchasingOverlaps, Sums, TLAPS

USE CallsAssumption, UsersAssumption, AmountsAssumption, ScopeAssumption

LEMMA AmountFacts == /\ Amounts \subseteq Int /\ 0 \in Amounts
                      /\ Totals \subseteq Amounts /\ BudgetInputs \subseteq Amounts
  BY DEF Amounts

USE AmountFacts

LEMMA AmountIsInt ==
    ASSUME NEW a \in Amounts
    PROVE  a \in Int
  BY Zenon

LEMMA AnyUserIsUser == AnyUser \in Users
  BY DEF AnyUser

\* The locals a handler starts with have their types.
LEMMA LocalsType ==
    ASSUME NEW kind \in Kinds \cup {"none"}, NEW user \in Users, NEW target \in Calls,
           NEW company \in Companies, NEW amount \in Amounts
    PROVE  Locals(kind, user, target, company, amount) \in Local
  BY DEF Locals, Local, Months

\* A row that the handlers insert has its type.
LEMMA RowType ==
    ASSUME NEW status \in Status \cup {"ABSENT"}, NEW user \in Users, NEW total \in Amounts
    PROVE  Row(status, user, total) \in Request
  BY DEF Row, Request

LEMMA InitType == Init => TypeOK
<1> SUFFICES ASSUME Init PROVE TypeOK
  OBVIOUS
<1>1. requests \in [Calls -> Request]
  <2>1. PICK owner \in [Earlier -> Users], total \in [Earlier -> Totals] :
           requests = [c \in Calls |-> IF c \in Earlier
                                       THEN Row("PENDING", owner[c], total[c])
                                       ELSE AbsentRow]
    BY DEF Init
  <2>2. AbsentRow \in Request
    BY AnyUserIsUser, RowType DEF AbsentRow
  <2>3. ASSUME NEW c \in Earlier PROVE Row("PENDING", owner[c], total[c]) \in Request
    BY <2>3, RowType DEF Status
  <2> QED
    BY <2>1, <2>2, <2>3
<1>2. budget \in [Keys -> Budget]
  <2>1. NoBudget \in Budget
    BY DEF NoBudget, Budget
  <2>2. \A n \in Seeded : SeededBudget(n) \in Budget
    BY DEF SeededBudget, Budget
  <2> QED
    BY <2>1, <2>2 DEF Init
<1>3. local \in [Calls -> Local]
  <2>1. \A c \in Calls : Locals("none", AnyUser, c, CompanyOf[AnyUser], 0) \in Local
    BY AnyUserIsUser, LocalsType
  <2> QED
    BY <2>1 DEF Init
<1>4. pc \in [Calls -> Labels] /\ month \in Months
  BY DEF Init, Labels, Finished, Months
<1> QED
  BY <1>1, <1>2, <1>3, <1>4 DEF Init, TypeOK

\* An arriving call keeps the tables and gives the handler well-typed locals.
LEMMA ReadType ==
    ASSUME TypeOK, NEW c \in Calls, Read(c)
    PROVE  TypeOK'
<1>1. ASSUME NEW l \in Local, NEW label \in Labels, Arrive(c, l, label),
             UNCHANGED <<tables, cart, month>>
      PROVE  TypeOK'
  BY <1>1 DEF TypeOK, Arrive, tables
<1>2. CASE \E u \in Users, t \in Totals : CreateRead(c, u, t)
  <2> PICK u \in Users, t \in Totals : CreateRead(c, u, t)
    BY <1>2
  <2>1. Locals("create", u, c, CompanyOf[u], t) \in Local
    BY LocalsType DEF Kinds
  <2> QED
    BY <1>1, <2>1 DEF CreateRead, Labels
<1>3. CASE \E u \in Users, t \in Totals : PurchaseRead(c, u, t)
  <2> PICK u \in Users, t \in Totals : PurchaseRead(c, u, t)
    BY <1>3
  <2>1. Locals("purchase", u, c, CompanyOf[u], t) \in Local
    BY LocalsType DEF Kinds
  <2> QED
    BY <1>1, <2>1 DEF PurchaseRead, Labels
<1>4. CASE \E u \in Users, r \in Calls : ApproveRead(c, u, r)
  <2> PICK u \in Users, r \in Calls : ApproveRead(c, u, r)
    BY <1>4
  <2>1. requests[r].requester \in Users /\ requests[r].total \in Amounts
    BY DEF TypeOK, Request
  <2>2. Locals("approve", u, r, CompanyOf[requests[r].requester], requests[r].total)
           \in Local
    BY <2>1, LocalsType DEF Kinds
  <2> QED
    BY <1>1, <2>2 DEF ApproveRead, Labels
<1>5. CASE \E u \in Users, r \in Calls : RejectRead(c, u, r)
  <2> PICK u \in Users, r \in Calls : RejectRead(c, u, r)
    BY <1>5
  <2>1. Locals("reject", u, r, CompanyOf[u], 0) \in Local
    BY LocalsType DEF Kinds
  <2> QED
    BY <1>1, <2>1 DEF RejectRead, Labels
<1>6. CASE \E u \in Users, r \in Calls : DeleteRead(c, u, r)
  <2> PICK u \in Users, r \in Calls : DeleteRead(c, u, r)
    BY <1>6
  <2>1. Locals("delete", u, r, CompanyOf[u], 0) \in Local
    BY LocalsType DEF Kinds
  <2> QED
    BY <1>1, <2>1 DEF DeleteRead, Labels
<1>7. CASE \E k \in Keys, current, initial \in BudgetInputs :
              BudgetRead(c, k, current, initial)
  <2> PICK k \in Keys, current \in BudgetInputs, initial \in BudgetInputs :
              BudgetRead(c, k, current, initial)
    BY <1>7
  <2> DEFINE base == Locals("budget", AnyUser, c, k[1], current)
  <2>1. k[1] \in Companies /\ k[2] \in Months
    BY DEF Keys
  <2>2. base \in Local
    BY <2>1, LocalsType, AnyUserIsUser DEF Kinds
  <2>3. [base EXCEPT !.month = k[2], !.initial = initial] \in Local
    BY <2>1, <2>2 DEF Local
  <2>4. local' \in [Calls -> Local]
    BY <2>3 DEF TypeOK, BudgetRead
  <2> QED
    BY <2>4 DEF BudgetRead, Step, TypeOK, tables, Labels
<1> QED
  BY <1>2, <1>3, <1>4, <1>5, <1>6, <1>7 DEF Read

\* Withdraw stores a difference of integers and appends a well-typed entry.
LEMMA WithdrawType ==
    ASSUME TypeOK, NEW c \in Calls, Withdraw(c)
    PROVE  TypeOK'
<1> DEFINE after == local[c].before - local[c].amount
           entry == [id |-> c, key |-> Key(c), amount |-> local[c].amount,
                     before |-> local[c].before, after |-> after]
<1>1. local[c] \in Local
  BY DEF TypeOK
<1>2. after \in Int /\ Key(c) \in Keys
  <2>1. local[c].before \in Int /\ local[c].amount \in Amounts
    BY <1>1 DEF Local
  <2>2. local[c].amount \in Int
    BY <2>1, AmountIsInt
  <2>3. after \in Int
    BY <2>1, <2>2
  <2> QED
    BY <1>1, <2>3 DEF Local, Key, Keys
<1>3. entry \in Entry
  BY <1>1, <1>2 DEF Local, Entry
<1>4. ledger' \subseteq Entry
  BY <1>3 DEF Withdraw, TypeOK
<1>5. [budget[Key(c)] EXCEPT !.current = after] \in Budget
  BY <1>2 DEF TypeOK, Budget
<1>6. budget' \in [Keys -> Budget]
  BY <1>2, <1>5 DEF Withdraw, TypeOK
<1> QED
  BY <1>4, <1>6 DEF Withdraw, Step, TypeOK, Labels

\* The later steps of a handler keep every table and local variable well-typed.
LEMMA ContinueType ==
    ASSUME TypeOK, NEW c \in Calls, Continue(c)
    PROVE  TypeOK'
<1>1. local[c] \in Local
  BY DEF TypeOK
<1>2. local[c].user \in Users /\ local[c].target \in Calls /\ local[c].amount \in Amounts
  BY <1>1 DEF Local
<1>3. NewOrder(c) \in Order
  BY <1>1 DEF NewOrder, Local, Order
<1> requests[local[c].target] \in Request
  BY <1>2 DEF TypeOK
<1>4. CASE ClearCart(c)
  BY <1>4 DEF ClearCart, Step, tables, TypeOK, Labels
<1>5. CASE CreateCommit(c)
  <2>1. Row(IF local[c].user \in Admins THEN "APPROVED" ELSE "PENDING", local[c].user,
            local[c].amount) \in Request
    BY <1>2, RowType DEF Status
  <2> QED
    BY <1>5, <2>1 DEF CreateCommit, Answer, TypeOK, Labels, Finished
<1>6. CASE DeductRead(c)
  <2> DEFINE k == <<local[c].company, month>>
  <2>1. k \in Keys /\ month \in Months
    BY <1>1 DEF TypeOK, Local, Keys
  <2>2. budget[k].current \in Int
    BY <2>1 DEF TypeOK, Budget
  <2>3. [local[c] EXCEPT !.month = month, !.before = budget[k].current] \in Local
    BY <1>1, <2>1, <2>2 DEF Local
  <2>4. local' \in [Calls -> Local]
    BY <1>6, <2>3 DEF DeductRead, TypeOK
  <2> QED
    BY <1>6, <2>4 DEF DeductRead, Step, tables, TypeOK, Labels
<1>7. CASE DeductRefused(c)
  BY <1>7 DEF DeductRefused, Answer, tables, TypeOK, Labels, Finished
<1>8. CASE Withdraw(c)
  BY <1>8, WithdrawType
<1>9. CASE ApproveCommit(c)
  <2> DEFINE r == local[c].target
  <2>1. [requests[r] EXCEPT !.status = "APPROVED", !.order = c, !.resolved = TRUE] \in Request
    BY DEF Request, Status
  <2>2. requests' \in [Calls -> Request]
    BY <1>2, <1>9, <2>1 DEF ApproveCommit, TypeOK
  <2> QED
    BY <1>3, <1>9, <2>2 DEF ApproveCommit, Answer, TypeOK, Labels, Finished
<1>10. CASE RejectCommit(c)
  <2> DEFINE r == local[c].target
  <2>1. [requests[r] EXCEPT !.status = "REJECTED", !.resolved = TRUE] \in Request
    BY DEF Request, Status
  <2>2. requests' \in [Calls -> Request]
    BY <1>2, <1>10, <2>1 DEF RejectCommit, TypeOK
  <2> QED
    BY <1>10, <2>2 DEF RejectCommit, Answer, TypeOK, Labels, Finished
<1>11. CASE DeleteCommit(c)
  <2>1. AbsentRow \in Request
    BY AnyUserIsUser, RowType DEF AbsentRow
  <2> QED
    BY <1>2, <1>11, <2>1 DEF DeleteCommit, Answer, TypeOK, Labels, Finished
<1>12. CASE RowGone(c)
  BY <1>12 DEF RowGone, Answer, tables, TypeOK, Labels, Finished
<1>13. CASE PurchaseInsert(c)
  BY <1>13 DEF PurchaseInsert, Step, tables, TypeOK, Labels
<1>14. CASE PurchaseCommit(c)
  BY <1>3, <1>14 DEF PurchaseCommit, Answer, TypeOK, Labels, Finished
<1>15. CASE BudgetUpdate(c) \/ BudgetCreate(c) \/ BudgetClash(c)
  <2>1. Key(c) \in Keys
    BY <1>1 DEF Local, Key, Keys
  <2>0. local[c].amount \in Amounts /\ local[c].initial \in Amounts
    BY <1>1 DEF Local
  <2> local[c].amount \in Int /\ local[c].initial \in Int
    BY <2>0, AmountIsInt, Zenon
  <2> budget[Key(c)] \in Budget
    BY <2>1 DEF TypeOK
  <2>2. [budget[Key(c)] EXCEPT !.current = local[c].amount, !.initial = local[c].initial]
           \in Budget
    BY DEF Budget
  <2>3. [exists |-> TRUE, current |-> local[c].amount, initial |-> local[c].initial,
         named |-> TRUE] \in Budget
    BY DEF Budget
  <2>4. budget' \in [Keys -> Budget]
    BY <1>15, <2>1, <2>2, <2>3
       DEF BudgetUpdate, BudgetCreate, BudgetClash, tables, TypeOK
  <2> QED
    BY <1>15, <2>4
       DEF BudgetUpdate, BudgetCreate, BudgetClash, Step, tables, TypeOK, Labels, Finished
<1>16. CASE Abandon(c)
  BY <1>16 DEF Abandon, Answer, tables, TypeOK, Labels, Finished
<1> QED
  BY <1>4, <1>5, <1>6, <1>7, <1>8, <1>9, <1>10, <1>11, <1>12, <1>13, <1>14, <1>15, <1>16
     DEF Continue

\* Faults and the environment touch no row and no local variable.
LEMMA EnvironmentType ==
    ASSUME TypeOK,
           \/ \E c \in Calls : TransactionLost(c)
           \/ \E u \in Users : FillCart(u)
           \/ Crash \/ NextMonth
           \/ UNCHANGED vars
    PROVE  TypeOK'
<1>1. CASE \E c \in Calls : TransactionLost(c)
  BY <1>1 DEF TransactionLost, tables, TypeOK
<1>2. CASE \E u \in Users : FillCart(u)
  BY <1>2 DEF FillCart, tables, TypeOK
<1>3. CASE Crash
  BY <1>3 DEF Crash, tables, TypeOK, Labels, Finished
<1>4. CASE NextMonth
  BY <1>4 DEF NextMonth, tables, TypeOK, Months
<1>5. CASE UNCHANGED vars
  BY <1>5 DEF vars, TypeOK
<1> QED
  BY <1>1, <1>2, <1>3, <1>4, <1>5

LEMMA NextType == TypeOK /\ [Next]_vars => TypeOK'
  BY ReadType, ContinueType, EnvironmentType DEF Next

\* Every row and local variable keeps its type in every execution.
THEOREM TypeCorrect == Spec => []TypeOK
  BY InitType, NextType, PTL DEF Spec

-----------------------------------------------------------------------------
(* Which steps write which table, and how labels and locals move *)

LEMMA BudgetWriters ==
    ASSUME [Next]_vars
    PROVE  \/ UNCHANGED budget
           \/ \E c \in Calls : Withdraw(c) \/ BudgetUpdate(c) \/ BudgetCreate(c)
  BY DEF Next, vars, tables, Read, Continue, CreateRead, PurchaseRead, ApproveRead,
         RejectRead, DeleteRead, BudgetRead, ClearCart, CreateCommit, DeductRead,
         DeductRefused, ApproveCommit, RejectCommit, DeleteCommit, RowGone, PurchaseInsert,
         PurchaseCommit, BudgetClash, Abandon, TransactionLost, FillCart, Crash, NextMonth

LEMMA LedgerWriters ==
    ASSUME [Next]_vars
    PROVE  UNCHANGED ledger \/ \E c \in Calls : Withdraw(c)
  BY DEF Next, vars, tables, Read, Continue, CreateRead, PurchaseRead, ApproveRead,
         RejectRead, DeleteRead, BudgetRead, ClearCart, CreateCommit, DeductRead,
         DeductRefused, ApproveCommit, RejectCommit, DeleteCommit, RowGone, PurchaseInsert,
         PurchaseCommit, BudgetUpdate, BudgetCreate, BudgetClash, Abandon, TransactionLost,
         FillCart, Crash, NextMonth

LEMMA OrdersWriters ==
    ASSUME [Next]_vars
    PROVE  UNCHANGED orders \/ \E c \in Calls : ApproveCommit(c) \/ PurchaseCommit(c)
  BY DEF Next, vars, tables, Read, Continue, CreateRead, PurchaseRead, ApproveRead,
         RejectRead, DeleteRead, BudgetRead, ClearCart, CreateCommit, DeductRead,
         DeductRefused, Withdraw, RejectCommit, DeleteCommit, RowGone, PurchaseInsert,
         BudgetUpdate, BudgetCreate, BudgetClash, Abandon, TransactionLost, FillCart, Crash,
         NextMonth

LEMMA RequestsWriters ==
    ASSUME [Next]_vars
    PROVE  \/ UNCHANGED requests
           \/ \E c \in Calls : \/ CreateCommit(c) \/ ApproveCommit(c)
                               \/ RejectCommit(c) \/ DeleteCommit(c)
  BY DEF Next, vars, tables, Read, Continue, CreateRead, PurchaseRead, ApproveRead,
         RejectRead, DeleteRead, BudgetRead, ClearCart, DeductRead, DeductRefused, Withdraw,
         RowGone, PurchaseInsert, PurchaseCommit, BudgetUpdate, BudgetCreate, BudgetClash,
         Abandon, TransactionLost, FillCart, Crash, NextMonth

\* What a handler does, for whom and for how much is fixed by its first read.
SameErrand(c) == /\ local'[c].kind = local[c].kind /\ local'[c].user = local[c].user
                 /\ local'[c].target = local[c].target
                 /\ local'[c].company = local[c].company
                 /\ local'[c].amount = local[c].amount

Elsewhere == \/ \E c \in Calls : TransactionLost(c)
             \/ \E u \in Users : FillCart(u)
             \/ Crash \/ NextMonth \/ UNCHANGED vars

LEMMA StepCases ==
    ASSUME [Next]_vars
    PROVE  (\E d \in Calls : Read(d) \/ Continue(d)) \/ Elsewhere
  BY DEF Next, Elsewhere

LEMMA ReadMoves ==
    ASSUME TypeOK, NEW d \in Calls, Read(d)
    PROVE  /\ pc[d] = "idle"
           /\ pc'[d] \in {"clearCart", "deduct", "reject", "delete", "createBudget",
                          "updateBudget"}
           /\ pc'[d] = "clearCart" => local'[d].kind = "create"
           /\ pc'[d] = "deduct" /\ local'[d].kind = "approve" =>
                 \E u \in Users, r \in Calls : ApproveRead(d, u, r)
           /\ \A c \in Calls \ {d} : pc'[c] = pc[c] /\ local'[c] = local[c]
<1>1. ASSUME NEW l \in Local, NEW label \in Labels, Arrive(d, l, label)
      PROVE  /\ pc[d] = "idle" /\ pc'[d] = label /\ local'[d] = l
             /\ \A c \in Calls \ {d} : pc'[c] = pc[c] /\ local'[c] = local[c]
  BY <1>1 DEF Arrive, TypeOK
<1>2. ASSUME NEW u \in Users, NEW t \in Totals, CreateRead(d, u, t)
      PROVE  /\ Locals("create", u, d, CompanyOf[u], t) \in Local
             /\ Locals("create", u, d, CompanyOf[u], t).kind = "create"
  BY LocalsType DEF Kinds, Locals
<1>3. CASE \E u \in Users, t \in Totals : CreateRead(d, u, t)
  BY <1>1, <1>2, <1>3 DEF CreateRead, Labels
<1>4. CASE \E u \in Users, t \in Totals : PurchaseRead(d, u, t)
  <2> PICK u \in Users, t \in Totals : PurchaseRead(d, u, t)
    BY <1>4
  <2> DEFINE l == Locals("purchase", u, d, CompanyOf[u], t)
  <2>1. l \in Local /\ l.kind = "purchase"
    BY LocalsType DEF Kinds, Locals
  <2> QED
    BY <1>1, <2>1 DEF PurchaseRead, Labels
<1>5. CASE \E u \in Users, r \in Calls : ApproveRead(d, u, r)
  <2> PICK u \in Users, r \in Calls : ApproveRead(d, u, r)
    BY <1>5
  <2>1. pc[d] = "idle" /\ pc'[d] = "deduct"
    BY DEF ApproveRead, Arrive, TypeOK
  <2>2. \A c \in Calls \ {d} : pc'[c] = pc[c] /\ local'[c] = local[c]
    BY DEF ApproveRead, Arrive, TypeOK
  <2> QED
    BY <1>5, <2>1, <2>2
<1>6. CASE \E u \in Users, r \in Calls : RejectRead(d, u, r) \/ DeleteRead(d, u, r)
  BY <1>6 DEF RejectRead, DeleteRead, Arrive, TypeOK
<1>7. CASE \E k \in Keys, current, initial \in BudgetInputs :
              BudgetRead(d, k, current, initial)
  BY <1>7 DEF BudgetRead, Step, TypeOK
<1> QED
  BY <1>3, <1>4, <1>5, <1>6, <1>7 DEF Read

LEMMA ContinueMoves ==
    ASSUME TypeOK, NEW d \in Calls, Continue(d)
    PROVE  /\ pc[d] \notin Finished
           /\ \A c \in Calls \ {d} : pc'[c] = pc[c] /\ local'[c] = local[c]
           /\ pc[d] # "deduct" => local'[d] = local[d]
           /\ SameErrand(d)
<1>1. CASE DeductRead(d)
  BY <1>1 DEF DeductRead, Step, Finished, SameErrand, TypeOK, Local
<1>2. CASE ~DeductRead(d)
  <2>1. local' = local
    BY <1>2 DEF Continue, ClearCart, CreateCommit, DeductRefused, Withdraw, ApproveCommit,
                RejectCommit, DeleteCommit, RowGone, PurchaseInsert, PurchaseCommit,
                BudgetUpdate, BudgetCreate, BudgetClash, Abandon
  <2>2. \E from \in Labels \ Finished, to \in Labels : Step(d, from, to) \/ Answer(d, from, to)
    BY <1>2 DEF Continue, ClearCart, CreateCommit, DeductRefused, Withdraw, ApproveCommit,
                RejectCommit, DeleteCommit, RowGone, PurchaseInsert, PurchaseCommit,
                BudgetUpdate, BudgetCreate, BudgetClash, Abandon, Labels, Finished
  <2> QED
    BY <2>1, <2>2 DEF Step, Answer, SameErrand, TypeOK
<1> QED
  BY <1>1, <1>2

\* Which step leads to each label on the way to an order.
LEMMA ContinueLabels ==
    ASSUME TypeOK, NEW d \in Calls, Continue(d)
    PROVE  /\ pc'[d] = "withdraw" => DeductRead(d)
           /\ pc'[d] = "record" => Withdraw(d)
           /\ pc'[d] = "clearCart" => PurchaseInsert(d)
           /\ pc'[d] = "commit" => ClearCart(d)
           /\ pc'[d] \notin {"idle", "deduct", "reject", "delete", "updateBudget"}
  BY DEF TypeOK, Continue, ClearCart, CreateCommit, DeductRead, DeductRefused, Withdraw,
         ApproveCommit, RejectCommit, DeleteCommit, RowGone, PurchaseInsert, PurchaseCommit,
         BudgetUpdate, BudgetCreate, BudgetClash, Abandon, Step, Answer

LEMMA ElsewhereMoves ==
    ASSUME TypeOK, Elsewhere
    PROVE  /\ UNCHANGED local
           /\ \A c \in Calls : pc'[c] = pc[c] \/ (Active(c) /\ pc'[c] = "failed")
<1>1. CASE \E c \in Calls : TransactionLost(c)
  BY <1>1 DEF TransactionLost
<1>2. CASE \E u \in Users : FillCart(u)
  BY <1>2 DEF FillCart
<1>3. CASE Crash
  BY <1>3 DEF Crash
<1>4. CASE NextMonth
  BY <1>4 DEF NextMonth
<1>5. CASE UNCHANGED vars
  BY <1>5 DEF vars
<1> QED
  BY <1>1, <1>2, <1>3, <1>4, <1>5 DEF Elsewhere

\* A handler's locals are fixed from the end of its reads on.
LEMMA LocalStable ==
    ASSUME TypeOK, [Next]_vars, NEW c \in Calls, pc[c] \notin {"idle", "deduct"}
    PROVE  local'[c] = local[c]
<1>1. CASE \E d \in Calls : Read(d)
  BY <1>1, ReadMoves
<1>2. CASE \E d \in Calls : Continue(d)
  BY <1>2, ContinueMoves
<1>3. CASE Elsewhere
  BY <1>3, ElsewhereMoves
<1> QED
  BY <1>1, <1>2, <1>3, StepCases

\* A call that has been answered stays answered.
LEMMA AnsweredStable ==
    ASSUME TypeOK, [Next]_vars, NEW c \in Calls, pc[c] \in {"done", "failed"}
    PROVE  pc'[c] = pc[c]
<1>1. CASE \E d \in Calls : Read(d)
  BY <1>1, ReadMoves
<1>2. CASE \E d \in Calls : Continue(d)
  BY <1>2, ContinueMoves DEF Finished
<1>3. CASE Elsewhere
  BY <1>3, ElsewhereMoves DEF Active, Finished
<1> QED
  BY <1>1, <1>2, <1>3, StepCases

LEMMA ErrandStable ==
    ASSUME TypeOK, [Next]_vars, NEW c \in Calls, pc[c] # "idle"
    PROVE  SameErrand(c)
<1>1. CASE \E d \in Calls : Read(d)
  BY <1>1, ReadMoves DEF SameErrand
<1>2. CASE \E d \in Calls : Continue(d)
  BY <1>2, ContinueMoves DEF SameErrand
<1>3. CASE Elsewhere
  BY <1>3, ElsewhereMoves DEF SameErrand
<1> QED
  BY <1>1, <1>2, <1>3, StepCases

LEMMA WithdrawLabel ==
    ASSUME TypeOK, [Next]_vars, NEW c \in Calls, pc'[c] = "withdraw"
    PROVE  pc[c] = "withdraw" \/ DeductRead(c)
<1>1. CASE \E d \in Calls : Read(d)
  BY <1>1, ReadMoves
<1>2. CASE \E d \in Calls : Continue(d)
  BY <1>2, ContinueMoves, ContinueLabels
<1>3. CASE Elsewhere
  BY <1>3, ElsewhereMoves
<1> QED
  BY <1>1, <1>2, <1>3, StepCases

\* A handler gets past its deduction only by making it.
LEMMA ChargedOnlyByWithdraw ==
    ASSUME TypeOK, [Next]_vars, NEW c \in Calls, Charged(c)'
    PROVE  Charged(c) \/ Withdraw(c)
<1>1. CASE \E d \in Calls : Read(d)
  BY <1>1, ReadMoves DEF Charged
<1>2. CASE \E d \in Calls : Continue(d)
  <2> PICK d \in Calls : Continue(d)
    BY <1>2
  <2>1. CASE d # c
    BY <2>1, ContinueMoves DEF Charged
  <2>2. CASE d = c
    <3>1. SameErrand(c)
      BY <2>2, ContinueMoves
    <3>2. CASE pc'[c] = "record"
      BY <2>2, <3>2, ContinueLabels
    <3>3. CASE local'[c].kind = "purchase" /\ pc'[c] = "clearCart"
      BY <2>2, <3>3, ContinueLabels DEF PurchaseInsert, Step, Charged
    <3>4. CASE local'[c].kind = "purchase" /\ pc'[c] = "commit"
      BY <2>2, <3>1, <3>4, ContinueLabels DEF ClearCart, Step, Charged, SameErrand
    <3> QED
      BY <3>2, <3>3, <3>4 DEF Charged
  <2> QED
    BY <2>1, <2>2
<1>3. CASE Elsewhere
  BY <1>3, ElsewhereMoves DEF Charged
<1> QED
  BY <1>1, <1>2, <1>3, StepCases

-----------------------------------------------------------------------------
(* The inductive invariant, conjunct by conjunct *)

\* What an administrator has set stays set.
LEMMA SetByStays ==
    ASSUME TypeOK, [Next]_vars, NEW c \in Calls, NEW k, SetBy(c, k)
    PROVE  SetBy(c, k)' /\ local'[c].amount = local[c].amount
<1>1. pc'[c] = "done" /\ local'[c] = local[c]
  BY AnsweredStable, LocalStable DEF SetBy
<1> QED
  BY <1>1 DEF SetBy, Key

\* The last step of BudgetsService.update leaves what its client sent.
LEMMA BudgetSet ==
    ASSUME TypeOK, BudgetErrand, NEW c \in Calls, BudgetUpdate(c) \/ BudgetCreate(c),
           NEW k, k = Key(c)
    PROVE  SetBy(c, k)' /\ local' = local /\ budget'[k].current = local[c].amount
<1>1. local[c].kind = "budget" /\ local' = local /\ pc'[c] = "done"
  BY DEF BudgetErrand, BudgetUpdate, BudgetCreate, Step, TypeOK
<1>2. Key(c)' = Key(c) /\ Key(c) \in Keys
  BY <1>1 DEF Key, TypeOK, Local, Keys
<1>3. budget'[Key(c)].current = local[c].amount
  BY <1>2 DEF BudgetUpdate, BudgetCreate, TypeOK, Budget
<1> QED
  BY <1>1, <1>2, <1>3 DEF SetBy

LEMMA NegativeStep ==
    ASSUME TypeOK, NegativeOnlyByHand, CheckHeld, BudgetErrand, [Next]_vars
    PROVE  NegativeOnlyByHand'
<1> SUFFICES ASSUME NEW k \in Keys, budget'[k].current < 0
             PROVE  \E c \in Calls : SetBy(c, k)' /\ local'[c].amount = budget'[k].current
  BY DEF NegativeOnlyByHand
<1>1. CASE budget'[k].current = budget[k].current
  <2>1. PICK c \in Calls : SetBy(c, k) /\ local[c].amount = budget[k].current
    BY <1>1 DEF NegativeOnlyByHand
  <2> QED
    BY <1>1, <2>1, SetByStays
<1>2. ASSUME NEW c \in Calls, Withdraw(c)
      PROVE  budget'[k].current = budget[k].current
  <2>1. local[c].before \in Int /\ local[c].amount \in Int
    BY AmountIsInt DEF TypeOK, Local
  <2>2. local[c].before - local[c].amount >= 0
    BY <1>2, <2>1 DEF CheckHeld, Withdraw, Step
  <2>3. budget'[k].current = IF k = Key(c) THEN local[c].before - local[c].amount
                                           ELSE budget[k].current
    BY <1>2 DEF Withdraw, TypeOK, Budget
  <2> QED
    BY <2>1, <2>2, <2>3
<1>3. ASSUME NEW c \in Calls, BudgetUpdate(c) \/ BudgetCreate(c),
             budget'[k].current # budget[k].current
      PROVE  SetBy(c, k)' /\ local'[c].amount = budget'[k].current
  <2>1. k = Key(c)
    BY <1>3 DEF BudgetUpdate, BudgetCreate, TypeOK
  <2> QED
    BY <1>3, <2>1, BudgetSet
<1> QED
  BY <1>1, <1>2, <1>3, BudgetWriters

LEMMA CheckStep ==
    ASSUME TypeOK, CheckHeld, [Next]_vars
    PROVE  CheckHeld'
<1> SUFFICES ASSUME NEW c \in Calls, pc'[c] = "withdraw"
             PROVE  local'[c].amount <= local'[c].before
  BY DEF CheckHeld
<1>1. CASE pc[c] = "withdraw"
  BY <1>1, LocalStable DEF CheckHeld
<1>2. CASE DeductRead(c)
  <2> DEFINE row == budget[<<local[c].company, month>>]
  <2>1. local'[c].amount = local[c].amount /\ local'[c].before = row.current
    BY <1>2 DEF DeductRead, TypeOK, Local
  <2>2. row.current >= local[c].amount
    BY <1>2 DEF DeductRead, Affordable
  <2>3. <<local[c].company, month>> \in Keys /\ local[c].amount \in Int
    BY AmountIsInt DEF TypeOK, Local, Keys
  <2>4. row.current \in Int
    BY <2>3 DEF TypeOK, Budget
  <2> QED
    BY <2>1, <2>2, <2>3, <2>4
<1> QED
  BY <1>1, <1>2, WithdrawLabel

LEMMA LedgerGrows ==
    ASSUME [Next]_vars
    PROVE  ledger \subseteq ledger'
  BY LedgerWriters DEF Withdraw

LEMMA ChargeStep ==
    ASSUME TypeOK, ChargeHeld, [Next]_vars
    PROVE  ChargeHeld'
<1> SUFFICES ASSUME NEW c \in Calls, Charged(c)'
             PROVE  Entered(c)'
  BY DEF ChargeHeld
<1>1. CASE Charged(c)
  <2>1. pc[c] \notin {"idle", "deduct"}
    BY <1>1 DEF Charged
  <2>2. local'[c] = local[c]
    BY <2>1, LocalStable
  <2>3. Entered(c)
    BY <1>1 DEF ChargeHeld
  <2> QED
    BY <2>2, <2>3, LedgerGrows DEF Entered
<1>2. CASE Withdraw(c)
  <2> DEFINE entry == [id |-> c, key |-> Key(c), amount |-> local[c].amount,
                       before |-> local[c].before,
                       after |-> local[c].before - local[c].amount]
  <2>1. entry \in ledger' /\ local' = local
    BY <1>2 DEF Withdraw
  <2>2. entry.id = c /\ entry.amount = local[c].amount /\ entry.key[1] = local[c].company
    BY DEF Key
  <2> HIDE DEF entry
  <2> QED
    BY <2>1, <2>2 DEF Entered
<1> QED
  BY <1>1, <1>2, ChargedOnlyByWithdraw

LEMMA OrdersPaidStep ==
    ASSUME TypeOK, OrdersPaid, ChargeHeld, [Next]_vars
    PROVE  OrdersPaid'
<1>1. CASE UNCHANGED orders
  BY <1>1, LedgerGrows DEF OrdersPaid
<1>2. ASSUME NEW c \in Calls, ApproveCommit(c) \/ PurchaseCommit(c)
      PROVE  OrdersPaid'
  <2>1. orders' = orders \cup {NewOrder(c)}
    BY <1>2 DEF ApproveCommit, PurchaseCommit
  <2>2. Charged(c)
    BY <1>2 DEF ApproveCommit, PurchaseCommit, Answer, Charged
  <2>3. Entered(c)
    BY <2>2 DEF ChargeHeld
  <2>4. \E w \in ledger' : /\ w.id = NewOrder(c).id /\ w.amount = NewOrder(c).total
                           /\ w.key[1] = NewOrder(c).company
    BY <2>3, LedgerGrows DEF Entered, NewOrder
  <2> QED
    BY <2>1, <2>4, LedgerGrows DEF OrdersPaid
<1> QED
  BY <1>1, <1>2, OrdersWriters

\* The row of an answered call is the row that was there, with its requester and its total.
LEMMA RowFixed ==
    ASSUME TypeOK, [Next]_vars, NEW r \in Calls, pc[r] = "done", Exists(r)'
    PROVE  /\ Exists(r)
           /\ requests'[r].total = requests[r].total
           /\ requests'[r].requester = requests[r].requester
<1>1. CASE UNCHANGED requests
  BY <1>1 DEF Exists
<1>2. ASSUME NEW c \in Calls, CreateCommit(c)
      PROVE  requests'[r] = requests[r]
  <2>1. r # c
    BY <1>2 DEF CreateCommit, Answer
  <2> QED
    BY <1>2, <2>1 DEF CreateCommit, TypeOK
<1>3. ASSUME NEW c \in Calls, ApproveCommit(c) \/ RejectCommit(c)
      PROVE  /\ Exists(r)
             /\ requests'[r].total = requests[r].total
             /\ requests'[r].requester = requests[r].requester
  <2>1. Exists(local[c].target)
    BY <1>3 DEF ApproveCommit, RejectCommit
  <2>2. CASE r = local[c].target
    BY <1>3, <2>1, <2>2 DEF ApproveCommit, RejectCommit, TypeOK, Request
  <2>3. CASE r # local[c].target
    BY <1>3, <2>3 DEF ApproveCommit, RejectCommit, TypeOK, Exists
  <2> QED
    BY <2>2, <2>3
<1>4. ASSUME NEW c \in Calls, DeleteCommit(c)
      PROVE  requests'[r] = requests[r]
  <2>1. r # local[c].target
    <3> SUFFICES ASSUME r = local[c].target PROVE FALSE
      OBVIOUS
    <3>1. requests'[r] = AbsentRow
      BY <1>4 DEF DeleteCommit, TypeOK
    <3> QED
      BY <3>1 DEF AbsentRow, Row, Exists
  <2> QED
    BY <1>4, <2>1 DEF DeleteCommit, TypeOK
<1> QED
  BY <1>1, <1>2, <1>3, <1>4, RequestsWriters DEF Exists

LEMMA RowsDoneStep ==
    ASSUME TypeOK, RowsDone, [Next]_vars
    PROVE  RowsDone'
<1> SUFFICES ASSUME NEW r \in Calls, Exists(r)'
             PROVE  pc'[r] = "done"
  BY DEF RowsDone
<1>1. CASE Exists(r)
  BY <1>1, AnsweredStable DEF RowsDone
<1>2. CASE ~Exists(r)
  <2>1. requests' # requests
    BY <1>2 DEF Exists
  <2>2. ASSUME NEW c \in Calls, CreateCommit(c)
        PROVE  pc'[r] = "done"
    <3>1. r = c
      BY <1>2, <2>2 DEF CreateCommit, TypeOK, Exists
    <3> QED
      BY <2>2, <3>1 DEF CreateCommit, Answer, TypeOK
  <2>3. ASSUME NEW c \in Calls, ApproveCommit(c) \/ RejectCommit(c)
        PROVE  FALSE
    <3>1. r # local[c].target
      BY <1>2, <2>3 DEF ApproveCommit, RejectCommit
    <3> QED
      BY <1>2, <2>3, <3>1 DEF ApproveCommit, RejectCommit, TypeOK, Exists
  <2>4. ASSUME NEW c \in Calls, DeleteCommit(c)
        PROVE  FALSE
    <3>1. requests'[r] \in {AbsentRow, requests[r]}
      BY <2>4 DEF DeleteCommit, TypeOK
    <3> QED
      BY <1>2, <3>1 DEF AbsentRow, Row, Exists
  <2> QED
    BY <2>1, <2>2, <2>3, <2>4, RequestsWriters
<1> QED
  BY <1>1, <1>2

\* A handler approves only what its first read found.
LEMMA ApprovingLabel ==
    ASSUME TypeOK, [Next]_vars, NEW c \in Calls, Approving(c)'
    PROVE  Approving(c) \/ \E u \in Users, r \in Calls : ApproveRead(c, u, r)
<1>1. CASE \E d \in Calls : Read(d)
  <2> PICK d \in Calls : Read(d)
    BY <1>1
  <2>1. CASE d # c
    BY <2>1, ReadMoves DEF Approving
  <2>2. CASE d = c
    BY <2>2, ReadMoves DEF Approving
  <2> QED
    BY <2>1, <2>2
<1>2. CASE \E d \in Calls : Continue(d)
  <2> PICK d \in Calls : Continue(d)
    BY <1>2
  <2>1. CASE d # c
    BY <2>1, ContinueMoves DEF Approving
  <2>2. CASE d = c
    <3>1. local'[c].kind = local[c].kind
      BY <2>2, ContinueMoves DEF SameErrand
    <3>2. DeductRead(c) \/ Withdraw(c)
      BY <2>2, ContinueLabels DEF Approving
    <3> QED
      BY <3>1, <3>2 DEF DeductRead, Withdraw, Step, Approving
  <2> QED
    BY <2>1, <2>2
<1>3. CASE Elsewhere
  BY <1>3, ElsewhereMoves DEF Approving
<1> QED
  BY <1>1, <1>2, <1>3, StepCases

LEMMA SnapshotStep ==
    ASSUME TypeOK, SnapshotHeld, RowsDone, [Next]_vars
    PROVE  SnapshotHeld'
<1> SUFFICES ASSUME NEW c \in Calls, NEW r \in Calls, Approving(c)', local'[c].target = r
             PROVE  pc'[r] = "done" /\ Snapshot(c, r)'
  BY DEF SnapshotHeld
<1>1. CASE Approving(c)
  <2>1. SameErrand(c)
    BY <1>1, ErrandStable DEF Approving
  <2>2. pc[r] = "done" /\ Snapshot(c, r)
    BY <1>1, <2>1 DEF SnapshotHeld, SameErrand
  <2>3. pc'[r] = "done"
    BY <2>2, AnsweredStable
  <2>4. ASSUME Exists(r)'
        PROVE  /\ local'[c].amount = requests'[r].total
               /\ local'[c].company = CompanyOf[requests'[r].requester]
    <3>1. /\ Exists(r)
          /\ requests'[r].total = requests[r].total
          /\ requests'[r].requester = requests[r].requester
      BY <2>2, <2>4, RowFixed
    <3> QED
      BY <2>1, <2>2, <3>1 DEF Snapshot, SameErrand
  <2> QED
    BY <2>3, <2>4 DEF Snapshot
<1>2. CASE \E u \in Users, q \in Calls : ApproveRead(c, u, q)
  <2> PICK u \in Users, q \in Calls : ApproveRead(c, u, q)
    BY <1>2
  <2>1. local'[c] = Locals("approve", u, q, CompanyOf[requests[q].requester],
                           requests[q].total)
    BY DEF ApproveRead, Arrive, TypeOK
  <2>2. q = r /\ requests' = requests
    BY <2>1 DEF Locals, ApproveRead, tables
  <2>3. pc[r] = "done" /\ pc'[r] = "done"
    BY <2>2, AnsweredStable DEF RowsDone, ApproveRead
  <2> QED
    BY <2>1, <2>2, <2>3 DEF Locals, Snapshot
<1> QED
  BY <1>1, <1>2, ApprovingLabel

LEMMA LinkStep ==
    ASSUME TypeOK, LinkedOrderAsRequested, SnapshotHeld, RowsDone, [Next]_vars
    PROVE  LinkedOrderAsRequested'
<1> DEFINE Linked(os, row) == \E o \in os : /\ o.id = row.order /\ o.total = row.total
                                            /\ o.company = CompanyOf[row.requester]
<1> SUFFICES ASSUME NEW r \in Calls, requests'[r].order # None
             PROVE  Linked(orders', requests'[r])
  BY DEF LinkedOrderAsRequested
<1>1. orders \subseteq orders'
  BY OrdersWriters DEF ApproveCommit, PurchaseCommit
<1>2. requests[r].order # None => Linked(orders', requests[r])
  BY <1>1 DEF LinkedOrderAsRequested
<1> HIDE DEF Linked
<1>3. CASE requests'[r] = requests[r]
  BY <1>2, <1>3
<1>4. ASSUME NEW c \in Calls, CreateCommit(c)
      PROVE  requests'[r] = requests[r]
  <2>1. requests'[c].order = None
    BY <1>4 DEF CreateCommit, TypeOK, Row
  <2> QED
    BY <1>4, <2>1 DEF CreateCommit, TypeOK
<1>5. ASSUME NEW c \in Calls, ApproveCommit(c), requests'[r] # requests[r]
      PROVE  Linked(orders', requests'[r])
  <2>1. r = local[c].target /\ Exists(r) /\ Approving(c)
    BY <1>5 DEF ApproveCommit, Answer, Approving, TypeOK
  <2>2. /\ requests'[r].order = c /\ requests'[r].total = requests[r].total
        /\ requests'[r].requester = requests[r].requester
    BY <1>5, <2>1 DEF ApproveCommit, TypeOK, Request
  <2>3. NewOrder(c) \in orders'
    BY <1>5 DEF ApproveCommit
  <2>4. /\ local[c].amount = requests[r].total
        /\ local[c].company = CompanyOf[requests[r].requester]
    BY <2>1 DEF SnapshotHeld, Snapshot
  <2> QED
    BY <2>2, <2>3, <2>4 DEF NewOrder, Linked
<1>6. ASSUME NEW c \in Calls, RejectCommit(c)
      PROVE  /\ requests'[r].order = requests[r].order
             /\ requests'[r].total = requests[r].total
             /\ requests'[r].requester = requests[r].requester
  BY <1>6 DEF RejectCommit, TypeOK, Request
<1>7. ASSUME NEW c \in Calls, DeleteCommit(c)
      PROVE  requests'[r] = requests[r]
  <2>1. AbsentRow.order = None
    BY DEF AbsentRow, Row
  <2> QED
    BY <1>7, <2>1 DEF DeleteCommit, TypeOK
<1>8. CASE \E c \in Calls : RejectCommit(c)
  BY <1>2, <1>6, <1>8 DEF Linked
<1> QED
  BY <1>3, <1>4, <1>5, <1>7, <1>8, RequestsWriters

LEMMA BudgetStays ==
    ASSUME TypeOK, [Next]_vars, NEW k \in Keys, budget[k].exists
    PROVE  budget'[k].exists
<1>1. ASSUME NEW c \in Calls, Withdraw(c) \/ BudgetUpdate(c)
      PROVE  budget'[k].exists
  BY <1>1 DEF Withdraw, BudgetUpdate, TypeOK, Budget
<1>2. ASSUME NEW c \in Calls, BudgetCreate(c)
      PROVE  budget'[k].exists
  BY <1>2 DEF BudgetCreate, TypeOK
<1> QED
  BY <1>1, <1>2, BudgetWriters

LEMMA BudgetFoundStep ==
    ASSUME TypeOK, BudgetFound, [Next]_vars
    PROVE  BudgetFound'
<1> SUFFICES ASSUME NEW c \in Calls, pc'[c] = "updateBudget"
             PROVE  budget'[Key(c)'].exists
  BY DEF BudgetFound
<1>1. CASE pc[c] = "updateBudget"
  <2>1. Key(c) \in Keys
    BY DEF TypeOK, Local, Key, Keys
  <2>2. Key(c)' = Key(c)
    BY <1>1, LocalStable DEF Key
  <2> QED
    BY <1>1, <2>1, <2>2, BudgetStays DEF BudgetFound
<1>2. CASE Read(c)
  <2>1. \E k \in Keys, current, initial \in BudgetInputs : BudgetRead(c, k, current, initial)
    BY <1>2 DEF Read, CreateRead, PurchaseRead, ApproveRead, RejectRead, DeleteRead, Arrive,
                TypeOK
  <2>2. PICK k \in Keys, current \in BudgetInputs, initial \in BudgetInputs :
           BudgetRead(c, k, current, initial)
    BY <2>1
  <2>3. budget[k].exists /\ budget' = budget
    BY <2>2 DEF BudgetRead, Step, TypeOK, tables
  <2>4. local'[c].company = k[1] /\ local'[c].month = k[2]
    BY <2>2 DEF BudgetRead, TypeOK, Locals
  <2>5. Key(c)' = k
    BY <2>4 DEF Key, Keys
  <2> QED
    BY <2>3, <2>5
<1>3. ASSUME pc[c] # "updateBudget"
      PROVE  Read(c)
  <2>1. ~Elsewhere
    BY <1>3, ElsewhereMoves
  <2>2. ASSUME NEW d \in Calls, Continue(d)
        PROVE  FALSE
    BY <1>3, <2>2, ContinueMoves, ContinueLabels
  <2>3. PICK d \in Calls : Read(d)
    BY <2>1, <2>2, StepCases
  <2> QED
    BY <1>3, <2>3, ReadMoves
<1> QED
  BY <1>1, <1>2, <1>3

LEMMA BudgetErrandStep ==
    ASSUME TypeOK, BudgetErrand, [Next]_vars
    PROVE  BudgetErrand'
<1> SUFFICES ASSUME NEW c \in Calls, pc'[c] \in {"updateBudget", "createBudget"}
             PROVE  /\ local'[c].kind = "budget"
                    /\ local'[c].amount <= MaxAmount /\ local'[c].initial <= MaxAmount
  BY DEF BudgetErrand
<1>1. CASE pc[c] \in {"updateBudget", "createBudget"}
  <2>1. local'[c] = local[c]
    BY <1>1, LocalStable
  <2> QED
    BY <1>1, <2>1 DEF BudgetErrand
<1>2. CASE Read(c)
  <2>1. \E k \in Keys, current, initial \in BudgetInputs : BudgetRead(c, k, current, initial)
    BY <1>2 DEF Read, CreateRead, PurchaseRead, ApproveRead, RejectRead, DeleteRead, Arrive,
                TypeOK
  <2> QED
    BY <2>1 DEF BudgetRead, TypeOK, Locals
<1>3. ASSUME pc[c] \notin {"updateBudget", "createBudget"}
      PROVE  Read(c)
  <2>1. ~Elsewhere
    BY <1>3, ElsewhereMoves
  <2>2. ASSUME NEW d \in Calls, Continue(d)
        PROVE  FALSE
    <3>1. d = c
      BY <1>3, <2>2, ContinueMoves
    <3> QED
      BY <1>3, <2>2, <3>1
         DEF TypeOK, Continue, ClearCart, CreateCommit, DeductRead, DeductRefused, Withdraw,
             ApproveCommit, RejectCommit, DeleteCommit, RowGone, PurchaseInsert,
             PurchaseCommit, BudgetUpdate, BudgetCreate, BudgetClash, Abandon, Step, Answer
  <2>3. PICK d \in Calls : Read(d)
    BY <2>1, <2>2, StepCases
  <2> QED
    BY <1>3, <2>3, ReadMoves
<1> QED
  BY <1>1, <1>2, <1>3

\* A handler that has been through the deduction does not come back to it.
LEMMA PastDeduction ==
    ASSUME TypeOK, [Next]_vars, NEW c \in Calls, pc[c] \notin {"idle", "deduct", "withdraw"}
    PROVE  pc'[c] \notin {"idle", "deduct", "withdraw"}
<1>1. CASE \E d \in Calls : Read(d)
  BY <1>1, ReadMoves
<1>2. CASE \E d \in Calls : Continue(d)
  <2> PICK d \in Calls : Continue(d)
    BY <1>2
  <2>1. CASE d # c
    BY <2>1, ContinueMoves
  <2>2. CASE d = c
    BY <2>2, ContinueLabels DEF DeductRead, Step
  <2> QED
    BY <2>1, <2>2
<1>3. CASE Elsewhere
  BY <1>3, ElsewhereMoves
<1> QED
  BY <1>1, <1>2, <1>3, StepCases

LEMMA EnteredOnceStep ==
    ASSUME TypeOK, EnteredOnce, [Next]_vars
    PROVE  EnteredOnce'
<1> SUFFICES ASSUME NEW w \in ledger'
             PROVE  pc'[w.id] \notin {"idle", "deduct", "withdraw"}
  BY DEF EnteredOnce
<1>1. CASE w \in ledger
  <2>1. w.id \in Calls
    BY <1>1 DEF TypeOK, Entry
  <2> QED
    BY <1>1, <2>1, PastDeduction DEF EnteredOnce
<1>2. CASE w \notin ledger
  <2>1. PICK c \in Calls : Withdraw(c)
    BY <1>2, LedgerWriters
  <2>2. w.id = c
    BY <1>2, <2>1 DEF Withdraw
  <2> QED
    BY <2>1, <2>2 DEF Withdraw, Step, TypeOK
<1> QED
  BY <1>1, <1>2

LEMMA OrderedOnceStep ==
    ASSUME TypeOK, OrderedOnce, [Next]_vars
    PROVE  OrderedOnce'
<1> SUFFICES ASSUME NEW o \in orders'
             PROVE  pc'[o.id] = "done" /\ o = NewOrder(o.id)'
  BY DEF OrderedOnce
<1>1. CASE o \in orders
  <2>1. o.id \in Calls
    BY <1>1 DEF TypeOK, Order
  <2>2. pc[o.id] = "done" /\ o = NewOrder(o.id)
    BY <1>1 DEF OrderedOnce
  <2>3. pc'[o.id] = "done" /\ local'[o.id] = local[o.id]
    BY <2>1, <2>2, AnsweredStable, LocalStable
  <2> QED
    BY <2>2, <2>3 DEF NewOrder
<1>2. CASE o \notin orders
  <2>1. PICK c \in Calls : ApproveCommit(c) \/ PurchaseCommit(c)
    BY <1>2, OrdersWriters
  <2>2. o = NewOrder(c) /\ local' = local /\ pc'[c] = "done"
    BY <1>2, <2>1 DEF ApproveCommit, PurchaseCommit, Answer, TypeOK
  <2> QED
    BY <2>2 DEF NewOrder
<1> QED
  BY <1>1, <1>2

-----------------------------------------------------------------------------
(* Theorems about Spec: however the handlers interleave *)

LEMMA InitInvariant == Init => IInv
<1> SUFFICES ASSUME Init PROVE IInv
  OBVIOUS
<1>1. TypeOK
  BY InitType
<1>2. NegativeOnlyByHand
  <2>1. \A k \in Keys : budget[k] \in {NoBudget} \cup {SeededBudget(n) : n \in Seeded}
    BY DEF Init
  <2>2. NoBudget.current \in Nat
    BY DEF NoBudget
  <2>3. \A n \in Seeded : SeededBudget(n).current \in Nat
    BY DEF SeededBudget
  <2> QED
    BY <2>1, <2>2, <2>3 DEF NegativeOnlyByHand
<1>3. orders = {} /\ \A c \in Calls : pc[c] \in {"idle", "done"} /\ local[c].kind = "none"
  BY DEF Init, Locals
<1>4. \A r \in Calls : /\ requests[r].order = None
                       /\ Exists(r) => pc[r] = "done"
  <2>1. PICK owner \in [Earlier -> Users], total \in [Earlier -> Totals] :
           requests = [c \in Calls |-> IF c \in Earlier
                                       THEN Row("PENDING", owner[c], total[c])
                                       ELSE AbsentRow]
    BY DEF Init
  <2>2. AbsentRow.order = None /\ AbsentRow.status = "ABSENT"
    BY DEF AbsentRow, Row
  <2>3. \A status, user, amount : Row(status, user, amount).order = None
    BY DEF Row
  <2>4. \A c \in Earlier : pc[c] = "done"
    BY DEF Init
  <2> QED
    BY <2>1, <2>2, <2>3, <2>4 DEF Exists
<1>5. CheckHeld /\ OrdersPaid /\ ChargeHeld /\ SnapshotHeld
  BY <1>3 DEF CheckHeld, OrdersPaid, ChargeHeld, Charged, SnapshotHeld, Approving
<1>6. LinkedOrderAsRequested /\ RowsDone
  BY <1>4 DEF LinkedOrderAsRequested, RowsDone
<1>7. BudgetFound /\ BudgetErrand
  BY <1>3 DEF BudgetFound, BudgetErrand
<1>8. EnteredOnce /\ OrderedOnce
  BY DEF Init, EnteredOnce, OrderedOnce
<1> QED
  BY <1>1, <1>2, <1>5, <1>6, <1>7, <1>8 DEF IInv

LEMMA NextInvariant == IInv /\ [Next]_vars => IInv'
<1> SUFFICES ASSUME IInv, [Next]_vars PROVE IInv'
  OBVIOUS
<1>1. TypeOK'
  BY NextType DEF IInv
<1>2. NegativeOnlyByHand' /\ CheckHeld'
  BY NegativeStep, CheckStep DEF IInv
<1>3. OrdersPaid' /\ ChargeHeld'
  BY OrdersPaidStep, ChargeStep DEF IInv
<1>4. LinkedOrderAsRequested' /\ SnapshotHeld' /\ RowsDone'
  BY LinkStep, SnapshotStep, RowsDoneStep DEF IInv
<1>5. BudgetFound' /\ BudgetErrand'
  BY BudgetFoundStep, BudgetErrandStep DEF IInv
<1>6. EnteredOnce' /\ OrderedOnce'
  BY EnteredOnceStep, OrderedOnceStep DEF IInv
<1> QED
  BY <1>1, <1>2, <1>3, <1>4, <1>5, <1>6 DEF IInv

\* IInv is an invariant of the interleaved handlers.
THEOREM Invariant == Spec => []IInv
  BY InitInvariant, NextInvariant, PTL DEF Spec

\* No interleaving of approvals and purchases, no timeout, no crash and no total, negative
\* ones included, makes deductCompanyBudgetByUserId leave a balance below zero.
THEOREM NeverOverdrawn == Spec => []NegativeOnlyByHand
<1>1. IInv => NegativeOnlyByHand
  BY DEF IInv
<1> QED
  BY <1>1, Invariant, PTL

\* Every committed order has its own ledger entry, for its total and its company.
THEOREM EveryOrderPaid == Spec => []OrdersPaid
<1>1. IInv => OrdersPaid
  BY DEF IInv
<1> QED
  BY <1>1, Invariant, PTL

\* The order a request points to was placed for its company at the price requested.
THEOREM LinksAreRight == Spec => []LinkedOrderAsRequested
<1>1. IInv => LinkedOrderAsRequested
  BY DEF IInv
<1> QED
  BY <1>1, Invariant, PTL

LEMMA CartWriters ==
    ASSUME [Next]_vars
    PROVE  \/ cart \subseteq cart'
           \/ \E c \in Calls : ClearCart(c)
  BY DEF Next, vars, tables, Read, Continue, CreateRead, PurchaseRead, ApproveRead,
         RejectRead, DeleteRead, BudgetRead, CreateCommit, DeductRead, DeductRefused,
         Withdraw, ApproveCommit, RejectCommit, DeleteCommit, RowGone, PurchaseInsert,
         PurchaseCommit, BudgetUpdate, BudgetCreate, BudgetClash, Abandon, TransactionLost,
         FillCart, Crash, NextMonth

\* Only requests and purchases come to the clearing of a cart.
Clearing == \A c \in Calls : pc[c] = "clearCart" => local[c].kind \in {"create", "purchase"}

LEMMA ClearingStep ==
    ASSUME TypeOK, Clearing, [Next]_vars
    PROVE  Clearing'
<1>1. ASSUME NEW d \in Calls, Read(d) PROVE Clearing'
  BY <1>1, ReadMoves DEF Clearing
<1>2. ASSUME NEW d \in Calls, Continue(d) PROVE Clearing'
  <2>1. pc'[d] = "clearCart" => local'[d].kind = "purchase"
    BY <1>2, ContinueLabels, ContinueMoves DEF PurchaseInsert, SameErrand
  <2> QED
    BY <1>2, <2>1, ContinueMoves DEF Clearing
<1>3. CASE Elsewhere
  BY <1>3, ElsewhereMoves DEF Clearing
<1> QED
  BY <1>1, <1>2, <1>3, StepCases

\* No interleaving, timeout or crash empties an administrator's cart for a purchase that
\* has not been charged.
THEOREM CartsEmptiedAfterCharge == Spec => CartEmptiedAfterCharge
<1>1. Init => Clearing
  BY DEF Init, Clearing
<1>2. Spec => []Clearing
  BY <1>1, ClearingStep, TypeCorrect, PTL DEF Spec
<1>3. IInv /\ Clearing /\ [Next]_vars =>
        \A u \in cart \ cart' :
           \E c \in Calls : /\ local[c].user = u
                            /\ local[c].kind \in {"create", "purchase"}
                            /\ local[c].kind = "purchase" => \E w \in ledger : w.id = c
  <2> SUFFICES ASSUME IInv, Clearing, [Next]_vars, NEW u \in cart \ cart'
               PROVE  \E c \in Calls : /\ local[c].user = u
                                       /\ local[c].kind \in {"create", "purchase"}
                                       /\ local[c].kind = "purchase" =>
                                             \E w \in ledger : w.id = c
    OBVIOUS
  <2>1. PICK c \in Calls : ClearCart(c)
    BY CartWriters
  <2>2. local[c].user = u /\ pc[c] = "clearCart"
    BY <2>1 DEF ClearCart, Step
  <2>3. local[c].kind = "purchase" => \E w \in ledger : w.id = c
    BY <2>2 DEF IInv, ChargeHeld, Charged, Entered
  <2> QED
    BY <2>2, <2>3 DEF Clearing
<1> QED
  BY <1>2, <1>3, Invariant, PTL DEF Spec, CartEmptiedAfterCharge

-----------------------------------------------------------------------------
(* The handlers implement Procurement *)

LEMMA ElsewhereTables ==
    ASSUME Elsewhere
    PROVE  UNCHANGED tables
  BY DEF Elsewhere, TransactionLost, FillCart, Crash, NextMonth, vars, tables

LEMMA ReadTables ==
    ASSUME NEW d \in Calls, Read(d)
    PROVE  UNCHANGED tables
  BY DEF Read, CreateRead, PurchaseRead, ApproveRead, RejectRead, DeleteRead, BudgetRead

\* A step of one handler leaves the others at their rows.
Others(d) ==
    \A c \in Calls \ {d} : /\ local'[c] = local[c]
                           /\ Resolving(c)' <=> Resolving(c)
                           /\ Withdrawing(c)' <=> Withdrawing(c)

LEMMA OthersStay ==
    ASSUME TypeOK, NEW d \in Calls, Read(d) \/ Continue(d)
    PROVE  Others(d)
<1>1. \A c \in Calls \ {d} : pc'[c] = pc[c] /\ local'[c] = local[c]
  BY ReadMoves, ContinueMoves
<1> QED
  BY <1>1 DEF Others, Resolving, Approving, Withdrawing

LEMMA FindingAdded ==
    ASSUME NEW d \in Calls, Others(d), ~Resolving(d), Resolving(d)'
    PROVE  Findings' = Findings \cup {<<d, local'[d].target>>}
  BY DEF Findings, Others

LEMMA FindingTaken ==
    ASSUME NEW d \in Calls, Others(d), Resolving(d), ~Resolving(d)'
    PROVE  /\ <<d, local[d].target>> \in Findings
           /\ Findings' = Findings \ {<<d, local[d].target>>}
  BY DEF Findings, Others

LEMMA FindingsKept ==
    ASSUME NEW d \in Calls, Others(d), Resolving(d)' <=> Resolving(d),
           Resolving(d) => local'[d].target = local[d].target
    PROVE  Findings' = Findings
  BY DEF Findings, Others

LEMMA QuoteIds == \A c, d \in Calls : Quote(c) = Quote(d) => c = d
  BY DEF Quote

LEMMA QuoteOfOther ==
    ASSUME NEW d \in Calls, Others(d), NEW c \in Calls \ {d}
    PROVE  Quote(c)' = Quote(c)
  BY DEF Others, Quote, Key

LEMMA QuoteAdded ==
    ASSUME NEW d \in Calls, Others(d), ~Withdrawing(d), Withdrawing(d)'
    PROVE  Quotes' = Quotes \cup {Quote(d)'}
<1>1. \A c \in Calls \ {d} : Quote(c)' = Quote(c) /\ (Withdrawing(c)' <=> Withdrawing(c))
  BY QuoteOfOther DEF Others
<1> QED
  BY <1>1 DEF Quotes

LEMMA QuoteTaken ==
    ASSUME NEW d \in Calls, Others(d), Withdrawing(d), ~Withdrawing(d)'
    PROVE  Quote(d) \in Quotes /\ Quotes' = Quotes \ {Quote(d)}
<1>1. \A c \in Calls \ {d} : Quote(c)' = Quote(c) /\ (Withdrawing(c)' <=> Withdrawing(c))
  BY QuoteOfOther DEF Others
<1> QED
  BY <1>1, QuoteIds DEF Quotes

LEMMA QuotesKept ==
    ASSUME NEW d \in Calls, Others(d), ~Withdrawing(d), ~Withdrawing(d)'
    PROVE  Quotes' = Quotes
<1>1. \A c \in Calls \ {d} : Quote(c)' = Quote(c) /\ (Withdrawing(c)' <=> Withdrawing(c))
  BY QuoteOfOther DEF Others
<1> QED
  BY <1>1 DEF Quotes

\* A handler that fails, or goes on without having read a row, finds nothing new.
LEMMA NothingFound ==
    ASSUME UNCHANGED tables,
           \A c \in Calls : /\ Resolving(c)' => Resolving(c)
                            /\ Resolving(c)' => local'[c].target = local[c].target
                            /\ Withdrawing(c)' => Withdrawing(c) /\ local'[c] = local[c]
    PROVE  Promise!GiveUp
<1>1. Findings' \subseteq Findings
  BY DEF Findings
<1>2. Quotes' \subseteq Quotes
  <2>1. \A c \in Calls : Withdrawing(c)' => Withdrawing(c) /\ Quote(c)' = Quote(c)
    BY DEF Quote, Key
  <2> QED
    BY <2>1 DEF Quotes
<1> QED
  BY <1>1, <1>2 DEF tables, Promise!GiveUp, Promise!tables

LEMMA InitMaps == Init => Promise!Init
<1> SUFFICES ASSUME Init PROVE Promise!Init
  OBVIOUS
<1>1. PICK owner \in [Earlier -> Users], total \in [Earlier -> Totals] :
         requests = [c \in Calls |-> IF c \in Earlier
                                     THEN Row("PENDING", owner[c], total[c])
                                     ELSE AbsentRow]
  BY DEF Init
<1>2. \A r \in Calls : /\ requests[r].status \in {"ABSENT", "PENDING"}
                       /\ requests[r].order = None
  BY <1>1 DEF AbsentRow, Row
<1>3. \A k \in Keys : budget[k].current >= 0
  <2>1. \A k \in Keys : budget[k] \in {NoBudget} \cup {SeededBudget(n) : n \in Seeded}
    BY DEF Init
  <2> QED
    BY <2>1 DEF NoBudget, SeededBudget
<1>4. orders = {} /\ ledger = {} /\ \A c \in Calls : pc[c] \in {"idle", "done"}
  BY DEF Init
<1>5. Findings = {} /\ Quotes = {}
  BY <1>4 DEF Findings, Quotes, Resolving, Approving, Withdrawing
<1> QED
  BY <1>2, <1>3, <1>4, <1>5 DEF Promise!Init, Promise!Absent, Promise!Pending

LEMMA PendingReads ==
    ASSUME TypeOK, NEW c \in Calls, Read(c), Resolving(c)'
    PROVE  \E u \in Users, r \in Calls :
              ApproveRead(c, u, r) \/ RejectRead(c, u, r) \/ DeleteRead(c, u, r)
<1>1. CASE \E u \in Users, t \in Totals : CreateRead(c, u, t)
  BY <1>1 DEF CreateRead, Arrive, TypeOK, Resolving, Approving
<1>2. CASE \E u \in Users, t \in Totals : PurchaseRead(c, u, t)
  BY <1>2 DEF PurchaseRead, Arrive, TypeOK, Locals, Resolving, Approving
<1>3. CASE \E k \in Keys, current, initial \in BudgetInputs :
              BudgetRead(c, k, current, initial)
  BY <1>3 DEF BudgetRead, Step, TypeOK, Resolving, Approving
<1> QED
  BY <1>1, <1>2, <1>3 DEF Read

\* Whoever reads a request in order to resolve it finds it pending.
LEMMA FoundPending ==
    ASSUME TypeOK, NEW c \in Calls, Read(c), Resolving(c)'
    PROVE  /\ local'[c].target \in Calls
           /\ requests[local'[c].target].status = "PENDING"
<1>1. PICK u \in Users, r \in Calls :
         ApproveRead(c, u, r) \/ RejectRead(c, u, r) \/ DeleteRead(c, u, r)
  BY PendingReads
<1>2. local'[c].target = r
  BY <1>1 DEF ApproveRead, RejectRead, DeleteRead, Arrive, TypeOK, Locals
<1>3. requests[r].status \in Status \cup {"ABSENT"}
  BY DEF TypeOK, Request
<1>4. requests[r].status = "PENDING"
  BY <1>1, <1>3 DEF ApproveRead, RejectRead, DeleteRead, Exists, Resolved, Status
<1> QED
  BY <1>2, <1>4

LEMMA ReadFinds ==
    ASSUME IInv, NEW c \in Calls, Read(c)
    PROVE  Promise!GiveUp \/ \E r \in Calls : Promise!Find(c, r)
<1>1. TypeOK /\ pc[c] = "idle" /\ pc'[c] # "withdraw"
  BY ReadMoves DEF IInv
<1>2. ~Resolving(c) /\ ~Withdrawing(c) /\ ~Withdrawing(c)'
  BY <1>1 DEF Resolving, Approving, Withdrawing
<1>3. UNCHANGED tables /\ Others(c)
  BY <1>1, ReadTables, OthersStay
<1>4. CASE Resolving(c)'
  <2> DEFINE r == local'[c].target
  <2>1. r \in Calls /\ requests[r].status = "PENDING"
    BY <1>1, <1>4, FoundPending
  <2>2. Findings' = Findings \cup {<<c, r>>} /\ Quotes' = Quotes
    BY <1>2, <1>3, <1>4, FindingAdded, QuotesKept
  <2>3. \A f \in Findings : f[1] # c
    BY <1>2 DEF Findings
  <2> HIDE DEF r
  <2> QED
    BY <1>3, <2>1, <2>2, <2>3 DEF tables, Promise!Find, Promise!Pending, Promise!tables
<1>5. CASE ~Resolving(c)'
  <2>1. \A d \in Calls : /\ Resolving(d)' => Resolving(d) /\ local'[d].target = local[d].target
                         /\ Withdrawing(d)' => Withdrawing(d) /\ local'[d] = local[d]
    BY <1>2, <1>3, <1>5 DEF Others
  <2> QED
    BY <1>3, <2>1, NothingFound
<1> QED
  BY <1>4, <1>5

LEMMA DeductReadAsks ==
    ASSUME IInv, NEW c \in Calls, DeductRead(c)
    PROVE  Promise!Ask(c)
<1> DEFINE k == <<local[c].company, month>>
<1>1. TypeOK /\ Continue(c) /\ local[c] \in Local /\ pc[c] = "deduct" /\ pc'[c] = "withdraw"
  BY DEF IInv, TypeOK, Continue, DeductRead, Step
<1>2. k \in Keys /\ local[c].amount \in Amounts
  BY <1>1 DEF Local, Keys, TypeOK
<1>3. Others(c) /\ SameErrand(c)
  BY <1>1, OthersStay, ContinueMoves
<1>4. Findings' = Findings
  <2>1. Resolving(c)' <=> Resolving(c)
    BY <1>1, <1>3 DEF Resolving, Approving, SameErrand
  <2> QED
    BY <1>3, <2>1, FindingsKept DEF SameErrand
<1>5. Quotes' = Quotes \cup {Quote(c)'}
  BY <1>1, <1>3, QuoteAdded DEF Withdrawing
<1>6. Quote(c)' = [id |-> c, key |-> k, amount |-> local[c].amount,
                   before |-> budget[k].current]
  BY <1>1 DEF DeductRead, TypeOK, Local, Quote, Key
<1>7. \A w \in ledger \cup Quotes : w.id # c
  <2>1. \A w \in ledger : w.id # c
    BY <1>1 DEF IInv, EnteredOnce
  <2>2. \A w \in Quotes : w.id # c
    BY <1>1 DEF Quotes, Quote, Withdrawing
  <2> QED
    BY <2>1, <2>2
<1>8. budget[k].exists /\ budget[k].current >= local[c].amount /\ UNCHANGED tables
  BY DEF DeductRead, Affordable
<1> HIDE DEF k
<1> QED
  BY <1>2, <1>4, <1>5, <1>6, <1>7, <1>8 DEF tables, Promise!Ask, Promise!tables

LEMMA WithdrawCharges ==
    ASSUME IInv, NEW c \in Calls, Withdraw(c)
    PROVE  \E q \in Quotes : Promise!Charge(q)
<1>1. TypeOK /\ Continue(c) /\ pc[c] = "withdraw" /\ pc'[c] = "record"
  BY DEF IInv, TypeOK, Continue, Withdraw, Step
<1>2. Others(c) /\ SameErrand(c)
  BY <1>1, OthersStay, ContinueMoves
<1>3. Findings' = Findings
  <2>1. Resolving(c)' <=> Resolving(c)
    BY <1>1, <1>2 DEF Resolving, Approving, SameErrand
  <2> QED
    BY <1>2, <2>1, FindingsKept DEF SameErrand
<1>4. Quote(c) \in Quotes /\ Quotes' = Quotes \ {Quote(c)}
  BY <1>1, <1>2, QuoteTaken DEF Withdrawing
<1>5. Promise!Charge(Quote(c))
  <2> DEFINE q == Quote(c)
  <2>1. /\ q.id = c /\ q.key = Key(c) /\ q.amount = local[c].amount
        /\ q.before = local[c].before
    BY DEF Quote
  <2> HIDE DEF q
  <2>2. /\ budget' = [budget EXCEPT ![q.key].current = q.before - q.amount]
        /\ ledger' = ledger \cup {[id |-> q.id, key |-> q.key, amount |-> q.amount,
                                   before |-> q.before, after |-> q.before - q.amount]}
    BY <2>1 DEF Withdraw
  <2>3. UNCHANGED requests /\ UNCHANGED orders /\ Findings' = Findings
        /\ Quotes' = Quotes \ {q}
    BY <1>3, <1>4 DEF Withdraw, q
  <2>4. Promise!Charge(q)
    BY <2>2, <2>3 DEF Promise!Charge
  <2> QED
    BY <2>4 DEF q
<1> QED
  BY <1>4, <1>5

\* The last step of a handler takes it away from the request it has found.
LEMMA AnswerLeaves ==
    ASSUME IInv, NEW c \in Calls,
           \/ CreateCommit(c) \/ ApproveCommit(c) \/ RejectCommit(c) \/ DeleteCommit(c)
           \/ PurchaseCommit(c) \/ BudgetUpdate(c) \/ BudgetCreate(c)
    PROVE  /\ TypeOK /\ Others(c) /\ Quotes' = Quotes
           /\ Resolving(c) => /\ <<c, local[c].target>> \in Findings
                              /\ Findings' = Findings \ {<<c, local[c].target>>}
           /\ ~Resolving(c) => Findings' = Findings
<1>1. TypeOK /\ Continue(c) /\ pc'[c] = "done" /\ pc[c] # "withdraw"
  BY DEF IInv, TypeOK, Continue, CreateCommit, ApproveCommit, RejectCommit, DeleteCommit,
         PurchaseCommit, BudgetUpdate, BudgetCreate, Step, Answer
<1>2. Others(c)
  BY <1>1, OthersStay
<1>3. ~Resolving(c)' /\ ~Withdrawing(c)' /\ ~Withdrawing(c)
  BY <1>1 DEF Resolving, Approving, Withdrawing
<1> QED
  BY <1>1, <1>2, <1>3, FindingTaken, FindingsKept, QuotesKept

LEMMA CreateSubmits ==
    ASSUME IInv, NEW c \in Calls, CreateCommit(c)
    PROVE  Promise!Submit(c)
<1> DEFINE u == local[c].user
           status == IF u \in Admins THEN "APPROVED" ELSE "PENDING"
<1>1. u \in Users /\ local[c].amount \in Amounts
  BY DEF IInv, TypeOK, Local
<1>2. requests[c].status = "ABSENT"
  BY DEF IInv, RowsDone, Exists, CreateCommit, Answer
<1>3. requests' = [requests EXCEPT ![c] = Row(status, u, local[c].amount)]
  BY DEF CreateCommit
<1>4. UNCHANGED orders /\ UNCHANGED budget /\ UNCHANGED ledger
  BY DEF CreateCommit
<1>5. status \in {"PENDING", "APPROVED"}
  OBVIOUS
<1>6. Findings' = Findings /\ Quotes' = Quotes
  <2>1. ~Resolving(c)
    BY DEF CreateCommit, Answer, Resolving, Approving
  <2> QED
    BY <2>1, AnswerLeaves
<1> HIDE DEF status, u
<1> QED
  BY <1>1, <1>2, <1>3, <1>4, <1>5, <1>6 DEF Row, Promise!Submit, Promise!Absent

LEMMA PaidForOnce ==
    ASSUME IInv, NEW c \in Calls, Charged(c)
    PROVE  /\ Entered(c)
           /\ \A o \in orders : o.id # c
<1>1. pc[c] # "done"
  BY DEF Charged
<1> QED
  BY <1>1 DEF IInv, ChargeHeld, OrderedOnce

LEMMA ApproveApproves ==
    ASSUME IInv, NEW c \in Calls, ApproveCommit(c)
    PROVE  Promise!Approve(c, local[c].target)
<1> DEFINE r == local[c].target
<1>1. r \in Calls /\ requests[r] \in Request /\ Exists(r)
  BY DEF IInv, TypeOK, Local, ApproveCommit
<1>2. Charged(c) /\ Approving(c) /\ Resolving(c)
  BY DEF ApproveCommit, Answer, Charged, Approving, Resolving
<1>3. local[c].amount = requests[r].total /\ local[c].company = CompanyOf[requests[r].requester]
  BY <1>1, <1>2 DEF IInv, SnapshotHeld, Snapshot
<1>4. <<c, r>> \in Findings /\ Findings' = Findings \ {<<c, r>>} /\ Quotes' = Quotes
  BY <1>2, AnswerLeaves
<1>5. Promise!Place(c, CompanyOf[requests[r].requester], requests[r].total)
  <2>1. Entered(c) /\ \A o \in orders : o.id # c
    BY <1>2, PaidForOnce
  <2> QED
    BY <1>3, <1>4, <2>1 DEF ApproveCommit, NewOrder, Entered, Promise!Place
<1>6. requests' = [requests EXCEPT ![r] = [requests[r] EXCEPT !.status = "APPROVED",
                                                             !.order = c, !.resolved = TRUE]]
  BY <1>1 DEF ApproveCommit
<1> HIDE DEF r
<1>7. Promise!Approve(c, r)
  BY <1>1, <1>4, <1>5, <1>6 DEF Exists, Promise!Approve, Promise!Resolve, Promise!Absent
<1> QED
  BY <1>7 DEF r

LEMMA RejectRejects ==
    ASSUME IInv, NEW c \in Calls, RejectCommit(c)
    PROVE  Promise!Reject(c, local[c].target)
<1> DEFINE r == local[c].target
<1>1. r \in Calls /\ requests[r] \in Request /\ Exists(r) /\ Resolving(c)
  BY DEF IInv, TypeOK, Local, RejectCommit, Answer, Resolving
<1>2. <<c, r>> \in Findings /\ Findings' = Findings \ {<<c, r>>} /\ Quotes' = Quotes
  BY <1>1, AnswerLeaves
<1>3. requests' = [requests EXCEPT ![r] = [requests[r] EXCEPT !.status = "REJECTED",
                                                             !.resolved = TRUE]]
  BY <1>1 DEF RejectCommit
<1>4. UNCHANGED orders /\ UNCHANGED budget /\ UNCHANGED ledger
  BY DEF RejectCommit
<1> HIDE DEF r
<1>5. Promise!Reject(c, r)
  BY <1>1, <1>2, <1>3, <1>4 DEF Exists, Promise!Reject, Promise!Resolve, Promise!Absent
<1> QED
  BY <1>5 DEF r

LEMMA DeleteWithdraws ==
    ASSUME IInv, NEW c \in Calls, DeleteCommit(c)
    PROVE  Promise!Withdraw(c, local[c].target)
<1> DEFINE r == local[c].target
<1>1. r \in Calls /\ Exists(r) /\ Resolving(c)
  BY DEF IInv, TypeOK, Local, DeleteCommit, Answer, Resolving
<1>2. <<c, r>> \in Findings /\ Findings' = Findings \ {<<c, r>>} /\ Quotes' = Quotes
  BY <1>1, AnswerLeaves
<1>3. requests' = [requests EXCEPT ![r] = [status |-> "ABSENT", requester |-> AnyUser,
                      total |-> 0, order |-> None, resolved |-> FALSE]]
  BY DEF DeleteCommit, AbsentRow, Row
<1>4. UNCHANGED orders /\ UNCHANGED budget /\ UNCHANGED ledger
  BY DEF DeleteCommit
<1> HIDE DEF r
<1>5. Promise!Withdraw(c, r)
  BY <1>1, <1>2, <1>3, <1>4, AnyUserIsUser
     DEF Exists, Promise!Withdraw, Promise!Resolve, Promise!Absent
<1> QED
  BY <1>5 DEF r

LEMMA PurchasePurchases ==
    ASSUME IInv, NEW c \in Calls, PurchaseCommit(c)
    PROVE  Promise!Purchase(c)
<1>1. Charged(c) /\ ~Resolving(c)
  BY DEF PurchaseCommit, Answer, Charged, Resolving, Approving
<1>2. local[c].company \in Companies /\ local[c].amount \in Amounts
  BY DEF IInv, TypeOK, Local
<1>3. Findings' = Findings /\ Quotes' = Quotes
  BY <1>1, AnswerLeaves
<1>4. Promise!Place(c, local[c].company, local[c].amount)
  <2>1. Entered(c) /\ \A o \in orders : o.id # c
    BY <1>1, PaidForOnce
  <2> QED
    BY <1>3, <2>1 DEF PurchaseCommit, NewOrder, Entered, Promise!Place
<1> QED
  BY <1>2, <1>3, <1>4 DEF PurchaseCommit, Promise!Purchase

LEMMA BudgetSets ==
    ASSUME IInv, NEW c \in Calls, BudgetUpdate(c) \/ BudgetCreate(c)
    PROVE  Promise!SetBudget(Key(c))
<1> DEFINE k == Key(c)
           row(named) == [exists |-> TRUE, current |-> local[c].amount,
                          initial |-> local[c].initial, named |-> named]
<1>1. k \in Keys /\ local[c].amount \in Amounts /\ local[c].initial \in Amounts
  BY DEF IInv, TypeOK, Local, Key, Keys
<1>2. budget[k] \in Budget
  BY <1>1 DEF IInv, TypeOK
<1>3. UNCHANGED requests /\ UNCHANGED orders /\ UNCHANGED ledger
  BY DEF BudgetUpdate, BudgetCreate
<1>4. Findings' = Findings /\ Quotes' = Quotes
  <2>1. ~Resolving(c)
    BY DEF BudgetUpdate, BudgetCreate, Step, Resolving, Approving
  <2> QED
    BY <2>1, AnswerLeaves
<1>5. local[c].amount <= MaxAmount /\ local[c].initial <= MaxAmount
  BY DEF IInv, BudgetErrand, BudgetUpdate, BudgetCreate, Step
<1>6. CASE BudgetUpdate(c)
  <2>1. budget[k].exists
    BY <1>6 DEF IInv, BudgetFound, BudgetUpdate, Step
  <2>2. [budget[k] EXCEPT !.current = local[c].amount, !.initial = local[c].initial]
           = row(budget[k].named)
    <3> DEFINE new == [budget[k] EXCEPT !.current = local[c].amount,
                                        !.initial = local[c].initial]
               old == row(budget[k].named)
    <3>1. local[c].amount \in Int /\ local[c].initial \in Int
      BY <1>1, AmountIsInt, Zenon
    <3>2. new \in Budget
      BY <1>2, <3>1 DEF Budget
    <3>3. budget[k].named \in BOOLEAN
      BY <1>2 DEF Budget
    <3>4. old \in Budget
      BY <3>1, <3>3 DEF Budget
    <3>5. budget[k].exists = TRUE
      BY <1>2, <2>1, Zenon DEF Budget
    <3>6. /\ new.exists = old.exists /\ new.current = old.current
          /\ new.initial = old.initial /\ new.named = old.named
      BY <1>2, <3>5 DEF Budget
    <3> HIDE DEF new, old
    <3>7. new = old
      BY <3>2, <3>4, <3>6 DEF Budget
    <3> QED
      BY <3>7 DEF new, old
  <2>3. budget' = [budget EXCEPT ![k] = row(budget[k].named)]
    BY <1>6, <2>2 DEF BudgetUpdate
  <2>4. budget[k].named \in BOOLEAN
    BY <1>2 DEF Budget
  <2> HIDE DEF k
  <2>5. Promise!SetBudget(k)
    BY <1>1, <1>3, <1>4, <1>5, <2>3, <2>4 DEF Promise!SetBudget
  <2> QED
    BY <2>5 DEF k
<1>7. CASE BudgetCreate(c)
  BY <1>1, <1>3, <1>4, <1>5, <1>7 DEF BudgetCreate, Promise!SetBudget
<1> QED
  BY <1>6, <1>7

LEMMA ContinueMaps ==
    ASSUME IInv, NEW c \in Calls, Continue(c)
    PROVE  Promise!Next
<1>1. local[c].target \in Calls /\ Key(c) \in Keys
  BY DEF IInv, TypeOK, Local, Key, Keys
<1>2. CASE DeductRead(c) \/ Withdraw(c) \/ CreateCommit(c) \/ PurchaseCommit(c)
  BY <1>2, DeductReadAsks, WithdrawCharges, CreateSubmits, PurchasePurchases DEF Promise!Next
<1>3. CASE ApproveCommit(c) \/ RejectCommit(c) \/ DeleteCommit(c)
  BY <1>1, <1>3, ApproveApproves, RejectRejects, DeleteWithdraws DEF Promise!Next
<1>4. CASE BudgetUpdate(c) \/ BudgetCreate(c)
  BY <1>1, <1>4, BudgetSets DEF Promise!Next
<1>5. CASE \/ ClearCart(c) \/ DeductRefused(c) \/ RowGone(c) \/ PurchaseInsert(c)
           \/ BudgetClash(c) \/ Abandon(c)
  <2>1. UNCHANGED tables /\ UNCHANGED local
    BY <1>5 DEF ClearCart, DeductRefused, RowGone, PurchaseInsert, BudgetClash, Abandon
  <2>2. TypeOK /\ Others(c)
    BY OthersStay DEF IInv
  <2>3. pc'[c] \in {"commit", "clearCart", "failed"}
    BY <1>5, <2>2 DEF TypeOK, ClearCart, DeductRefused, RowGone, PurchaseInsert, BudgetClash,
                      Abandon, Step, Answer
  <2>4. ~Resolving(c)' /\ ~Withdrawing(c)'
    BY <2>3 DEF Resolving, Approving, Withdrawing
  <2>5. Promise!GiveUp
    BY <2>1, <2>2, <2>4, NothingFound DEF Others
  <2> QED
    BY <2>5 DEF Promise!Next
<1> QED
  BY <1>2, <1>3, <1>4, <1>5 DEF Continue

\* Every step of the handlers is a step of Procurement.
LEMMA StepMaps ==
    ASSUME IInv, [Next]_vars
    PROVE  Promise!Next
<1>1. CASE \E c \in Calls : Read(c)
  BY <1>1, ReadFinds DEF Promise!Next
<1>2. CASE \E c \in Calls : Continue(c)
  BY <1>2, ContinueMaps
<1>3. CASE Elsewhere
  <2>1. \A c \in Calls : /\ Resolving(c)' => Resolving(c)
                         /\ Resolving(c)' => local'[c].target = local[c].target
                         /\ Withdrawing(c)' => Withdrawing(c) /\ local'[c] = local[c]
    BY <1>3, ElsewhereMoves DEF IInv, Resolving, Approving, Withdrawing
  <2> QED
    BY <1>3, <2>1, ElsewhereTables, NothingFound DEF Promise!Next
<1> QED
  BY <1>1, <1>2, <1>3, StepCases

\* However the handlers interleave, whatever times out or crashes: each of them acts once, on
\* what it found of its row while it ran, and pays before it orders.
THEOREM Implements == Spec => ServesPromise
<1>1. IInv /\ [Next]_vars => [Promise!Next]_(Promise!vars)
  BY StepMaps
<1> QED
  BY InitMaps, <1>1, Invariant, PTL DEF Spec, ServesPromise, Promise!Spec

-----------------------------------------------------------------------------
(* Handlers that meet at a request *)

\* The memory of meetings changes nothing: it only adds to what has happened.
LEMMA RecordedStep ==
    ASSUME TypeOK, Recorded, [RecordedNext]_recorded
    PROVE  /\ [Next]_vars
           /\ resolvers \subseteq resolvers' /\ spenders \subseteq spenders'
           /\ Recorded'
<1>1. CASE RecordedNext
  <2>1. [Next]_vars /\ resolvers \subseteq resolvers' /\ spenders \subseteq spenders'
    BY <1>1 DEF RecordedNext, Record
  <2>2. AtOneRequest' \subseteq resolvers' /\ AtOneBalance' \subseteq spenders'
    BY <1>1 DEF RecordedNext, Record
  <2>3. \A c, d \in Calls : <<c, d>> \in AtOneRequest' => <<d, c>> \in AtOneRequest'
    BY DEF AtOneRequest
  <2>4. \A c, d \in Calls : <<c, d>> \in resolvers' => <<d, c>> \in resolvers'
    BY <1>1, <2>3 DEF RecordedNext, Record, Recorded
  <2> QED
    BY <2>1, <2>2, <2>4 DEF Recorded
<1>2. CASE UNCHANGED recorded
  <2>1. UNCHANGED <<vars, pc, local, resolvers, spenders>>
    BY <1>2 DEF recorded, vars
  <2>2. AtOneRequest' = AtOneRequest
    BY <2>1 DEF AtOneRequest, Resolving, Approving
  <2>3. AtOneBalance' = AtOneBalance
    BY <2>1 DEF AtOneBalance, Withdrawing, Key
  <2> QED
    BY <2>1, <2>2, <2>3 DEF Recorded
<1> QED
  BY <1>1, <1>2

LEMMA MeetAtRequest ==
    ASSUME Recorded, NEW c \in Calls, NEW d \in Calls, c # d, Resolving(c), Resolving(d),
           local[c].target = local[d].target
    PROVE  <<c, d>> \in resolvers
  BY DEF Recorded, AtOneRequest

\* A handler that is between its read and its write has just read, or was there before.
LEMMA ResolvingBefore ==
    ASSUME TypeOK, [Next]_vars, NEW c \in Calls, Resolving(c)'
    PROVE  Read(c) \/ (Resolving(c) /\ local'[c].target = local[c].target)
<1>1. CASE \E d \in Calls : Read(d)
  BY <1>1, ReadMoves DEF Resolving, Approving
<1>2. CASE \E d \in Calls : Continue(d)
  <2> PICK d \in Calls : Continue(d)
    BY <1>2
  <2>1. CASE d # c
    BY <2>1, ContinueMoves DEF Resolving, Approving
  <2>2. CASE d = c
    <3>1. SameErrand(c)
      BY <2>2, ContinueMoves
    <3>2. pc'[c] \in {"withdraw", "record"} /\ local'[c].kind = "approve"
      BY <2>2, ContinueLabels DEF Resolving, Approving
    <3>3. pc[c] \in {"deduct", "withdraw"}
      BY <2>2, <3>2, ContinueLabels DEF DeductRead, Withdraw, Step
    <3> QED
      BY <3>1, <3>2, <3>3 DEF SameErrand, Resolving, Approving
  <2> QED
    BY <2>1, <2>2
<1>3. CASE Elsewhere
  BY <1>3, ElsewhereMoves DEF Resolving, Approving
<1> QED
  BY <1>1, <1>2, <1>3, StepCases

LEMMA SettledStays ==
    ASSUME TypeOK, [Next]_vars, NEW d \in Calls, NEW r, Settled(d, r)
    PROVE  Settled(d, r)' /\ local'[d] = local[d]
  BY AnsweredStable, LocalStable DEF Settled

\* The row of an answered call is changed only by a handler that resolves it.
LEMMA RowChanged ==
    ASSUME TypeOK, [Next]_vars, NEW r \in Calls, pc[r] = "done", requests'[r] # requests[r]
    PROVE  \E c \in Calls : /\ ApproveCommit(c) \/ RejectCommit(c) \/ DeleteCommit(c)
                            /\ Resolving(c) /\ local[c].target = r /\ Settled(c, r)'
                            /\ local' = local
<1>1. ASSUME NEW c \in Calls, CreateCommit(c)
      PROVE  requests'[r] = requests[r]
  <2>1. r # c
    BY <1>1 DEF CreateCommit, Answer
  <2> QED
    BY <1>1, <2>1 DEF CreateCommit, TypeOK
<1>2. PICK c \in Calls : ApproveCommit(c) \/ RejectCommit(c) \/ DeleteCommit(c)
  BY <1>1, RequestsWriters
<1>3. local[c].target = r
  BY <1>2 DEF ApproveCommit, RejectCommit, DeleteCommit, TypeOK
<1>4. Resolving(c) /\ pc'[c] = "done" /\ local' = local
  BY <1>2 DEF ApproveCommit, RejectCommit, DeleteCommit, Answer, TypeOK, Resolving, Approving
<1> QED
  BY <1>2, <1>3, <1>4 DEF Settled

\* An answered call's row does not become pending again.
LEMMA PendingOnce ==
    ASSUME TypeOK, [Next]_vars, NEW r \in Calls, pc[r] = "done", requests'[r].status = "PENDING"
    PROVE  requests[r].status = "PENDING"
<1> SUFFICES ASSUME requests'[r] # requests[r] PROVE FALSE
  OBVIOUS
<1>1. PICK c \in Calls : /\ ApproveCommit(c) \/ RejectCommit(c) \/ DeleteCommit(c)
                         /\ local[c].target = r
  BY RowChanged
<1>2. requests'[r].status \in {"APPROVED", "REJECTED", "ABSENT"}
  BY <1>1 DEF ApproveCommit, RejectCommit, DeleteCommit, AbsentRow, Row, TypeOK, Request
<1> QED
  BY <1>2

LEMMA RejectErrandStep ==
    ASSUME TypeOK, RejectErrand, [Next]_vars
    PROVE  RejectErrand'
<1> SUFFICES ASSUME NEW c \in Calls, pc'[c] = "reject"
             PROVE  local'[c].kind = "reject"
  BY DEF RejectErrand
<1>1. CASE pc[c] = "reject"
  BY <1>1, LocalStable DEF RejectErrand
<1>2. CASE pc[c] # "reject"
  <2>1. Resolving(c)' /\ ~(pc[c] = "reject")
    BY <1>2 DEF Resolving
  <2>2. Read(c)
    <3>1. CASE \E d \in Calls : Read(d)
      BY <1>2, <3>1, ReadMoves
    <3>2. CASE \E d \in Calls : Continue(d)
      BY <1>2, <3>2, ContinueMoves, ContinueLabels
    <3>3. CASE Elsewhere
      BY <1>2, <3>3, ElsewhereMoves
    <3> QED
      BY <3>1, <3>2, <3>3, StepCases
  <2>3. PICK u \in Users, r \in Calls :
           ApproveRead(c, u, r) \/ RejectRead(c, u, r) \/ DeleteRead(c, u, r)
    BY <2>1, <2>2, PendingReads
  <2>4. RejectRead(c, u, r)
    BY <2>3 DEF ApproveRead, DeleteRead, Arrive, TypeOK
  <2> QED
    BY <2>4 DEF RejectRead, Arrive, TypeOK, Locals
<1> QED
  BY <1>1, <1>2

LEMMA StaleStep ==
    ASSUME IInv, MeetingInv, [RecordedNext]_recorded
    PROVE  StaleByMeeting'
<1>0. TypeOK /\ [Next]_vars /\ RowsDone /\ resolvers \subseteq resolvers' /\ Recorded
  BY RecordedStep DEF IInv, MeetingInv
<1> SUFFICES ASSUME NEW c \in Calls, Resolving(c)', NEW r, r = local'[c].target
             PROVE  \/ requests'[r].status = "PENDING"
                    \/ \E d \in Calls : Settled(d, r)' /\ <<c, d>> \in resolvers'
  BY DEF StaleByMeeting
<1>1. CASE Read(c)
  BY <1>0, <1>1, FoundPending, ReadTables DEF tables
<1>2. CASE Resolving(c) /\ local[c].target = r
  <2>1. r \in Calls
    BY <1>0, <1>2 DEF TypeOK, Local
  <2>2. CASE requests[r].status = "PENDING" /\ requests'[r] = requests[r]
    BY <2>2
  <2>3. CASE requests[r].status = "PENDING" /\ requests'[r] # requests[r]
    <3>1. pc[r] = "done"
      BY <1>0, <2>1, <2>3 DEF RowsDone, Exists
    <3>2. PICK d \in Calls : Resolving(d) /\ local[d].target = r /\ Settled(d, r)'
      BY <1>0, <2>1, <2>3, <3>1, RowChanged
    <3>3. c # d
      BY <3>2 DEF Settled, Resolving, Approving
    <3> QED
      BY <1>0, <1>2, <3>2, <3>3, MeetAtRequest
  <2>4. CASE \E d \in Calls : Settled(d, r) /\ <<c, d>> \in resolvers
    BY <1>0, <2>4, SettledStays
  <2> QED
    BY <1>2, <2>2, <2>3, <2>4 DEF MeetingInv, StaleByMeeting
<1> QED
  BY <1>0, <1>1, <1>2, ResolvingBefore

\* An order that is not new belongs to the request it belonged to.
LEMMA OldOrder ==
    ASSUME IInv, [Next]_vars, NEW r \in Calls, NEW o \in OrderedFor(r)', o \in orders
    PROVE  o \in OrderedFor(r) /\ o.id \in Calls /\ pc[o.id] = "done"
<1>1. o.id \in Calls /\ pc[o.id] = "done"
  BY DEF IInv, TypeOK, Order, OrderedOnce
<1>2. local'[o.id] = local[o.id]
  BY <1>1, LocalStable DEF IInv
<1> QED
  BY <1>1, <1>2 DEF OrderedFor

\* A new order for a request comes from the commit of an approval.
LEMMA FreshOrder ==
    ASSUME IInv, [Next]_vars, NEW r \in Calls, NEW o \in OrderedFor(r)', o \notin orders
    PROVE  /\ o.id \in Calls /\ ApproveCommit(o.id) /\ local[o.id].target = r
           /\ Resolving(o.id) /\ Settled(o.id, r)'
           /\ orders' = orders \cup {o}
<1>1. PICK c \in Calls : ApproveCommit(c) \/ PurchaseCommit(c)
  BY OrdersWriters DEF OrderedFor
<1>2. orders' = orders \cup {NewOrder(c)} /\ local' = local
  BY <1>1 DEF ApproveCommit, PurchaseCommit
<1>3. o = NewOrder(c) /\ o.id = c
  BY <1>2 DEF OrderedFor, NewOrder
<1>4. local[c].kind = "approve" /\ local[c].target = r
  BY <1>2, <1>3 DEF OrderedFor
<1>5. ApproveCommit(c)
  BY <1>1, <1>4 DEF PurchaseCommit
<1>6. Resolving(c) /\ Settled(c, r)'
  BY <1>2, <1>4, <1>5 DEF ApproveCommit, Answer, IInv, TypeOK, Resolving, Approving, Settled
<1> QED
  BY <1>2, <1>3, <1>4, <1>5, <1>6

LEMMA OrderedStep ==
    ASSUME IInv, MeetingInv, [RecordedNext]_recorded
    PROVE  OrderedIsResolved'
<1>0. TypeOK /\ [Next]_vars /\ resolvers \subseteq resolvers' /\ Recorded
  BY RecordedStep DEF IInv, MeetingInv
<1> SUFFICES ASSUME NEW r \in Calls, NEW o \in OrderedFor(r)'
             PROVE  /\ pc'[r] = "done" /\ requests'[r].status # "PENDING"
                    /\ \A c \in Calls : Resolving(c)' /\ local'[c].target = r =>
                                            <<o.id, c>> \in resolvers'
  BY DEF OrderedIsResolved
<1>1. CASE o \in orders
  <2>1. o \in OrderedFor(r)
    BY <1>0, <1>1, OldOrder
  <2>2. /\ pc[r] = "done" /\ requests[r].status # "PENDING"
        /\ \A c \in Calls : Resolving(c) /\ local[c].target = r => <<o.id, c>> \in resolvers
    BY <2>1 DEF MeetingInv, OrderedIsResolved
  <2>3. pc'[r] = "done" /\ requests'[r].status # "PENDING"
    BY <1>0, <2>2, AnsweredStable, PendingOnce
  <2>4. ASSUME NEW c \in Calls, Resolving(c)', local'[c].target = r
        PROVE  <<o.id, c>> \in resolvers'
    <3>1. ~Read(c)
      BY <1>0, <2>2, <2>4, FoundPending
    <3> QED
      BY <1>0, <2>2, <2>4, <3>1, ResolvingBefore
  <2> QED
    BY <2>3, <2>4
<1>2. CASE o \notin orders
  <2>1. /\ o.id \in Calls /\ ApproveCommit(o.id) /\ local[o.id].target = r /\ Resolving(o.id)
        /\ Settled(o.id, r)'
    BY <1>0, <1>2, FreshOrder
  <2>2. pc[r] = "done"
    BY <2>1 DEF IInv, SnapshotHeld, ApproveCommit, Answer, Approving
  <2>3. requests'[r].status = "APPROVED"
    BY <1>0, <2>1 DEF ApproveCommit, TypeOK, Request
  <2>4. ASSUME NEW c \in Calls, Resolving(c)', local'[c].target = r
        PROVE  <<o.id, c>> \in resolvers'
    <3>1. c # o.id
      BY <2>1, <2>4 DEF Settled, Resolving, Approving
    <3>2. pc'[c] = pc[c]
      BY <1>0, <2>1, <3>1, ContinueMoves DEF Continue
    <3>3. ~Read(c)
      BY <1>0, <3>2, ReadMoves
    <3> QED
      BY <1>0, <2>1, <2>4, <3>1, <3>3, ResolvingBefore, MeetAtRequest
  <2> QED
    BY <1>0, <2>2, <2>3, <2>4, AnsweredStable
<1> QED
  BY <1>1, <1>2

LEMMA SecondOrderStep ==
    ASSUME IInv, MeetingInv, [RecordedNext]_recorded
    PROVE  SecondOrderOnlyByMeeting'
<1>0. TypeOK /\ [Next]_vars /\ resolvers \subseteq resolvers' /\ Recorded
  BY RecordedStep DEF IInv, MeetingInv
<1> SUFFICES ASSUME NEW r \in Calls, NEW o \in OrderedFor(r)', NEW p \in OrderedFor(r)', o # p
             PROVE  <<o.id, p.id>> \in resolvers'
  BY DEF SecondOrderOnlyByMeeting
<1>1. ASSUME NEW a \in OrderedFor(r)', a \in orders, NEW b \in OrderedFor(r)', b \notin orders
      PROVE  <<a.id, b.id>> \in resolvers' /\ <<b.id, a.id>> \in resolvers'
  <2>1. a \in OrderedFor(r) /\ a.id \in Calls
    BY <1>0, <1>1, OldOrder
  <2>2. b.id \in Calls /\ Resolving(b.id) /\ local[b.id].target = r
    BY <1>0, <1>1, FreshOrder
  <2>3. <<a.id, b.id>> \in resolvers
    BY <2>1, <2>2 DEF MeetingInv, OrderedIsResolved
  <2> QED
    BY <1>0, <2>1, <2>2, <2>3 DEF Recorded
<1>2. CASE o \in orders /\ p \in orders
  BY <1>0, <1>2, OldOrder DEF MeetingInv, SecondOrderOnlyByMeeting
<1>3. CASE o \notin orders /\ p \notin orders
  BY <1>0, <1>3, FreshOrder DEF OrderedFor
<1> QED
  BY <1>1, <1>2, <1>3

LEMMA RejectedOrderStep ==
    ASSUME IInv, MeetingInv, [RecordedNext]_recorded
    PROVE  RejectedOrderOnlyByMeeting'
<1>0. TypeOK /\ [Next]_vars /\ resolvers \subseteq resolvers' /\ Recorded
  BY RecordedStep DEF IInv, MeetingInv
<1> SUFFICES ASSUME NEW r \in Calls, NEW o \in OrderedFor(r)', requests'[r].status = "REJECTED"
             PROVE  \E d \in Calls : /\ local'[d].kind = "reject" /\ local'[d].target = r
                                     /\ pc'[d] = "done" /\ <<o.id, d>> \in resolvers'
  BY DEF RejectedOrderOnlyByMeeting
<1>1. o \in orders
  <2> SUFFICES ASSUME o \notin orders PROVE FALSE
    OBVIOUS
  <2>1. o.id \in Calls /\ ApproveCommit(o.id) /\ local[o.id].target = r
    BY <1>0, FreshOrder
  <2> QED
    BY <1>0, <2>1 DEF ApproveCommit, TypeOK, Request
<1>2. o \in OrderedFor(r) /\ o.id \in Calls
  BY <1>0, <1>1, OldOrder
<1>3. CASE requests[r].status = "REJECTED"
  <2>1. PICK d \in Calls : /\ local[d].kind = "reject" /\ local[d].target = r
                           /\ pc[d] = "done" /\ <<o.id, d>> \in resolvers
    BY <1>2, <1>3 DEF MeetingInv, RejectedOrderOnlyByMeeting
  <2> QED
    BY <1>0, <2>1, SettledStays DEF Settled
<1>4. CASE requests[r].status # "REJECTED"
  <2>1. pc[r] = "done"
    BY <1>2 DEF MeetingInv, OrderedIsResolved
  <2>2. PICK c \in Calls : /\ ApproveCommit(c) \/ RejectCommit(c) \/ DeleteCommit(c)
                           /\ Resolving(c) /\ local[c].target = r /\ Settled(c, r)'
                           /\ local' = local
    BY <1>0, <1>4, <2>1, RowChanged
  <2>3. RejectCommit(c)
    BY <1>0, <2>2 DEF ApproveCommit, DeleteCommit, AbsentRow, Row, TypeOK, Request
  <2>4. local[c].kind = "reject"
    BY <2>3 DEF RejectCommit, Answer, MeetingInv, RejectErrand
  <2>5. <<o.id, c>> \in resolvers
    BY <1>2, <2>2 DEF MeetingInv, OrderedIsResolved
  <2> QED
    BY <1>0, <2>2, <2>4, <2>5 DEF Settled
<1> QED
  BY <1>3, <1>4

LEMMA InitMeeting == RecordedInit => MeetingInv
<1> SUFFICES ASSUME RecordedInit PROVE MeetingInv
  OBVIOUS
<1>1. /\ \A c \in Calls : ~Resolving(c) /\ ~Withdrawing(c) /\ pc[c] # "reject"
      /\ orders = {} /\ resolvers = {} /\ spenders = {}
  BY DEF RecordedInit, Init, Resolving, Approving, Withdrawing
<1>2. AtOneRequest = {} /\ AtOneBalance = {}
  BY <1>1 DEF AtOneRequest, AtOneBalance
<1>3. \A r \in Calls : OrderedFor(r) = {}
  BY <1>1 DEF OrderedFor
<1> QED
  BY <1>1, <1>2, <1>3 DEF MeetingInv, Recorded, RejectErrand, StaleByMeeting,
     OrderedIsResolved, SecondOrderOnlyByMeeting, RejectedOrderOnlyByMeeting

LEMMA NextMeeting == IInv /\ MeetingInv /\ [RecordedNext]_recorded => MeetingInv'
<1> SUFFICES ASSUME IInv, MeetingInv, [RecordedNext]_recorded PROVE MeetingInv'
  OBVIOUS
<1>1. TypeOK /\ Recorded /\ RejectErrand
  BY DEF IInv, MeetingInv
<1>2. Recorded' /\ RejectErrand'
  BY <1>1, RecordedStep, RejectErrandStep
<1> QED
  BY <1>2, StaleStep, OrderedStep, SecondOrderStep, RejectedOrderStep DEF MeetingInv

\* Every execution of RecordedSpec is one of Spec, so what holds of Spec holds of it.
LEMMA Forgets == RecordedSpec => Spec
<1>1. RecordedInit => Init
  BY DEF RecordedInit
<1>2. [RecordedNext]_recorded => [Next]_vars
  BY DEF RecordedNext, recorded
<1> QED
  BY <1>1, <1>2, PTL DEF RecordedSpec, Spec

\* Whoever writes a request that is no longer what it read met the handler that changed it.
THEOREM MeetingInvariant == RecordedSpec => []MeetingInv
  BY Forgets, Invariant, InitMeeting, NextMeeting, PTL DEF RecordedSpec

\* Nothing but two approvals that are between check and commit at the same time buys a request
\* twice: not a retry, not a rolled back transaction, not a crash.
THEOREM TwoOrdersNeedMeeting == RecordedSpec => []SecondOrderOnlyByMeeting
<1>1. MeetingInv => SecondOrderOnlyByMeeting
  BY DEF MeetingInv
<1> QED
  BY <1>1, MeetingInvariant, PTL

\* A request that was bought ends as rejected only if rejection and approval overlapped.
THEOREM BoughtAndRejectedNeedsMeeting == RecordedSpec => []RejectedOrderOnlyByMeeting
<1>1. MeetingInv => RejectedOrderOnlyByMeeting
  BY DEF MeetingInv
<1> QED
  BY <1>1, MeetingInvariant, PTL

\* A resolved request changes or disappears only under a handler that read it before it was
\* resolved, while the one that resolved it was running.
THEOREM ReopeningNeedsMeeting == RecordedSpec => ReopenedOnlyByMeeting
<1>1. ASSUME IInv, MeetingInv, [RecordedNext]_recorded,
             NEW r \in Calls, Resolved(r), requests'[r] # requests[r]
      PROVE  \E c, d \in Calls : /\ Resolving(c) /\ local[c].target = r /\ pc'[c] = "done"
                                 /\ Settled(d, r) /\ <<c, d>> \in resolvers
  <2>1. TypeOK /\ [Next]_vars /\ pc[r] = "done"
    BY <1>1, RecordedStep DEF IInv, MeetingInv, RowsDone, Exists, Resolved
  <2>2. PICK c \in Calls : Resolving(c) /\ local[c].target = r /\ Settled(c, r)'
    BY <1>1, <2>1, RowChanged
  <2>3. pc'[c] = "done"
    BY <2>2 DEF Settled
  <2>4. \E d \in Calls : Settled(d, r) /\ <<c, d>> \in resolvers
    BY <1>1, <2>2 DEF MeetingInv, StaleByMeeting, Resolved
  <2> QED
    BY <2>2, <2>3, <2>4
<1>2. IInv /\ MeetingInv /\ [RecordedNext]_recorded =>
        [\A r \in Calls : Resolved(r) /\ requests'[r] # requests[r] =>
            \E c, d \in Calls : /\ Resolving(c) /\ local[c].target = r /\ pc'[c] = "done"
                                /\ Settled(d, r) /\ <<c, d>> \in resolvers]_recorded
  BY <1>1
<1> QED
  BY <1>2, Forgets, Invariant, MeetingInvariant, PTL DEF RecordedSpec, ReopenedOnlyByMeeting

-----------------------------------------------------------------------------
(* The balance and the ledger *)

NewEntry(c) == [id |-> c, key |-> Key(c), amount |-> local[c].amount,
                before |-> local[c].before, after |-> local[c].before - local[c].amount]

LEMMA Withdrawal ==
    ASSUME EnteredOnce, NEW c \in Calls, Withdraw(c), NEW e, e = NewEntry(c)
    PROVE  /\ ledger' = ledger \cup {e} /\ e \notin ledger
           /\ e.id = c /\ e.key = Key(c) /\ e.amount = local[c].amount
<1>1. e.id = c /\ e.key = Key(c) /\ e.amount = local[c].amount
  BY DEF NewEntry
<1>2. ledger' = ledger \cup {e}
  BY DEF Withdraw, NewEntry
<1>3. pc[c] = "withdraw"
  BY DEF Withdraw, Step
<1>4. \A w \in ledger : w.id # c
  BY <1>3 DEF EnteredOnce
<1> QED
  BY <1>1, <1>2, <1>4

LEMMA FiniteStep ==
    ASSUME IsFiniteSet(ledger), [Next]_vars
    PROVE  IsFiniteSet(ledger)'
<1>1. ASSUME NEW c \in Calls, Withdraw(c)
      PROVE  IsFiniteSet(ledger')
  <2>1. \E entry : ledger' = ledger \cup {entry}
    BY <1>1 DEF Withdraw
  <2> QED
    BY <2>1, FS_AddElement
<1> QED
  BY <1>1, LedgerWriters

LEMMA EntryAmounts ==
    ASSUME TypeOK
    PROVE  \A w \in ledger : w.amount \in Int
<1>1. \A w \in ledger : w.amount \in Amounts
  BY DEF TypeOK, Entry
<1> QED
  BY <1>1, AmountIsInt

\* What was taken is taken: a later step changes no sum of earlier entries.
LEMMA SumStays ==
    ASSUME TypeOK, IsFiniteSet(ledger), [Next]_vars, NEW S \in SUBSET ledger
    PROVE  Sum(S)' = Sum(S) /\ Sum(S) \in Int
<1> DEFINE old == [w \in ledger |-> w.amount]
           new == [w \in ledger' |-> w.amount]
<1>1. IsFiniteSet(S)
  BY FS_Subset
<1>2. \A w \in S : old[w] = w.amount /\ new[w] = w.amount /\ old[w] \in Int
  BY EntryAmounts, LedgerGrows
<1>3. Sum(S) = SumFunctionOnSet(old, S) /\ Sum(S)' = SumFunctionOnSet(new, S)
  BY DEF Sum
<1> HIDE DEF old, new
<1>4. SumFunctionOnSet(old, S) = SumFunctionOnSet(new, S)
  BY <1>1, <1>2, SumSame
<1>5. SumFunctionOnSet(old, S) \in Int
  BY <1>1, <1>2, SumType
<1> QED
  BY <1>3, <1>4, <1>5

\* A withdrawal adds its amount to a sum that counts it.
LEMMA SumWithdrawal ==
    ASSUME TypeOK, EnteredOnce, IsFiniteSet(ledger), NEW c \in Calls, Withdraw(c), [Next]_vars,
           NEW S \in SUBSET ledger, NEW e, e = NewEntry(c)
    PROVE  Sum(S \cup {e})' = Sum(S) + local[c].amount
<1> DEFINE new == [w \in ledger' |-> w.amount]
<1>1. IsFiniteSet(S) /\ ledger' = ledger \cup {e} /\ e \notin S
  BY FS_Subset, Withdrawal
<1>2. e.amount = local[c].amount /\ local[c].amount \in Int
  BY Withdrawal, AmountIsInt DEF TypeOK, Local
<1>3. \A w \in S \cup {e} : new[w] = w.amount /\ new[w] \in Int
  BY <1>1, <1>2, EntryAmounts
<1>4. Sum(S)' = SumFunctionOnSet(new, S)
      /\ Sum(S \cup {e})' = SumFunctionOnSet(new, S \cup {e})
  BY DEF Sum
<1>5. new[e] = local[c].amount
  BY <1>2, <1>3
<1> HIDE DEF new
<1>6. SumFunctionOnSet(new, S \cup {e}) = SumFunctionOnSet(new, S) + new[e]
  <2>1. IsFiniteSet(S) /\ e \notin S /\ \A w \in S \cup {e} : new[w] \in Int
    BY <1>1, <1>3
  <2> QED
    BY <2>1, SumAdd
<1>7. Sum(S)' = Sum(S)
  BY SumStays
<1> QED
  BY <1>4, <1>5, <1>6, <1>7

\* What a budget started with changes only by an administrator's hand.
LEMMA InitialFixed ==
    ASSUME TypeOK, BudgetErrand, [Next]_vars, NEW k \in Keys, ~Administered(k)'
    PROVE  /\ ~Administered(k)
           /\ budget'[k].initial = budget[k].initial
           /\ budget[k].initial \in Int /\ budget[k].current \in Int
           /\ \/ budget'[k].current = budget[k].current
              \/ \E c \in Calls : Withdraw(c) /\ Key(c) = k
<1>1. ~Administered(k)
  BY SetByStays DEF Administered
<1>2. ASSUME NEW c \in Calls, Withdraw(c)
      PROVE  /\ budget'[k].initial = budget[k].initial
             /\ Key(c) # k => budget'[k].current = budget[k].current
  BY <1>2 DEF Withdraw, TypeOK, Budget
<1>3. ASSUME NEW c \in Calls, BudgetUpdate(c) \/ BudgetCreate(c)
      PROVE  budget'[k] = budget[k]
  <2>1. Key(c) # k
    BY <1>3, BudgetSet DEF Administered
  <2> QED
    BY <1>3, <2>1 DEF BudgetUpdate, BudgetCreate, TypeOK
<1>4. budget[k].initial \in Int /\ budget[k].current \in Int
  BY DEF TypeOK, Budget
<1> QED
  BY <1>1, <1>2, <1>3, <1>4, BudgetWriters

\* An explanation of a balance remains one while others withdraw elsewhere, or in the presence
\* of some handler.
LEMMA ExplanationStays ==
    ASSUME IInv, LedgerInv, [Next]_vars, spenders \subseteq spenders',
           NEW k \in Keys, ~Administered(k)',
           NEW S \in SUBSET Entries(k), NEW n, Explains(S, k, n),
           \A c \in Calls : Withdraw(c) /\ Key(c) = k => \E d \in Calls : <<c, d>> \in spenders
    PROVE  S \in SUBSET Entries(k)' /\ Explains(S, k, n)'
<1>1. TypeOK /\ EnteredOnce /\ BudgetErrand /\ IsFiniteSet(ledger)
  BY DEF IInv, LedgerInv
<1>2. S \in SUBSET ledger /\ ledger \subseteq ledger'
  BY LedgerGrows DEF Entries
<1>3. S \in SUBSET Entries(k)'
  BY <1>2 DEF Entries
<1>4. Sum(S)' = Sum(S) /\ budget'[k].initial = budget[k].initial
  BY <1>1, <1>2, SumStays, InitialFixed
<1>5. ASSUME NEW w \in Unmet(k)'
      PROVE  w \in S
  <2>1. w \in ledger' /\ w.key = k /\ \A c \in Calls : <<w.id, c>> \notin spenders
    BY <1>5 DEF Unmet, Entries
  <2>2. CASE w \in ledger
    BY <2>1, <2>2 DEF Explains, Unmet, Entries
  <2>3. CASE w \notin ledger
    <3>1. PICK c \in Calls : Withdraw(c)
      BY <2>1, <2>3, LedgerWriters
    <3>2. PICK e : e = NewEntry(c)
      OBVIOUS
    <3>3. w = e /\ e.id = c /\ e.key = Key(c)
      BY <1>1, <2>1, <2>3, <3>1, <3>2, Withdrawal
    <3> QED
      BY <2>1, <3>1, <3>3
  <2> QED
    BY <2>2, <2>3
<1> QED
  BY <1>3, <1>4, <1>5 DEF Explains

LEMMA BalanceStep ==
    ASSUME IInv, LedgerInv, Recorded, [RecordedNext]_recorded
    PROVE  BalanceExplained'
<1>0. /\ TypeOK /\ EnteredOnce /\ BudgetErrand /\ IsFiniteSet(ledger)
      /\ [Next]_vars /\ spenders \subseteq spenders'
  BY RecordedStep DEF IInv, LedgerInv
<1> SUFFICES ASSUME NEW k \in Keys, ~Administered(k)'
             PROVE  \E S \in SUBSET Entries(k)' : Explains(S, k, budget[k].current)'
  BY DEF BalanceExplained
<1>1. /\ ~Administered(k) /\ budget'[k].initial = budget[k].initial
      /\ budget[k].initial \in Int /\ budget[k].current \in Int
  BY <1>0, InitialFixed
<1>2. CASE \E c \in Calls : Withdraw(c) /\ Key(c) = k
  <2>1. PICK c \in Calls : Withdraw(c) /\ Key(c) = k
    BY <1>2
  <2>2. PICK S \in SUBSET Entries(k) : Explains(S, k, local[c].before)
    BY <1>1, <2>1 DEF LedgerInv, CheckExplained, Withdraw, Step, Withdrawing
  <2>3. PICK e : e = NewEntry(c)
    OBVIOUS
  <2>4. /\ ledger' = ledger \cup {e} /\ e \notin ledger
        /\ e.id = c /\ e.key = k /\ e.amount = local[c].amount
    BY <1>0, <2>1, <2>3, Withdrawal
  <2>5. S \in SUBSET ledger /\ S \cup {e} \in SUBSET Entries(k)'
    BY <2>2, <2>4 DEF Entries
  <2>6. Sum(S \cup {e})' = Sum(S) + local[c].amount /\ Sum(S) \in Int
    BY <1>0, <2>1, <2>3, <2>5, SumWithdrawal, SumStays
  <2>7. budget'[k].current = local[c].before - local[c].amount
    BY <1>0, <2>1 DEF Withdraw, TypeOK, Budget
  <2>8. local[c].before = budget[k].initial - Sum(S) /\ local[c].amount \in Int
    BY <1>0, <2>2, AmountIsInt DEF Explains, TypeOK, Local
  <2>9. budget'[k].current = budget'[k].initial - Sum(S \cup {e})'
    BY <1>1, <2>6, <2>7, <2>8
  <2>10. Unmet(k)' \subseteq S \cup {e}
    <3>1. \A w \in Unmet(k)' : w \in ledger => w \in Unmet(k)
      BY <1>0 DEF Unmet, Entries
    <3>2. \A w \in Unmet(k)' : w \in ledger \cup {e}
      BY <2>4 DEF Unmet, Entries
    <3> QED
      BY <2>2, <3>1, <3>2 DEF Explains
  <2>11. PICK T : T = S \cup {e}
    OBVIOUS
  <2>12. T \in SUBSET Entries(k)' /\ Explains(T, k, budget[k].current)'
    BY <2>5, <2>9, <2>10, <2>11 DEF Explains
  <2> QED
    BY <2>12
<1>3. CASE ~\E c \in Calls : Withdraw(c) /\ Key(c) = k
  <2>1. PICK n : n = budget[k].current
    OBVIOUS
  <2>2. PICK S \in SUBSET Entries(k) : Explains(S, k, n)
    BY <1>1, <2>1 DEF LedgerInv, BalanceExplained
  <2>3. S \in SUBSET Entries(k)' /\ Explains(S, k, n)'
    BY <1>0, <1>3, <2>2, ExplanationStays
  <2>4. budget'[k].current = n
    BY <1>0, <1>3, <2>1, InitialFixed
  <2> QED
    BY <2>3, <2>4 DEF Explains
<1> QED
  BY <1>2, <1>3

LEMMA CheckedStep ==
    ASSUME IInv, LedgerInv, Recorded, [RecordedNext]_recorded
    PROVE  CheckExplained'
<1>0. /\ TypeOK /\ [Next]_vars /\ spenders \subseteq spenders'
  BY RecordedStep DEF IInv
<1> SUFFICES ASSUME NEW c \in Calls, Withdrawing(c)', NEW k, k = Key(c)', ~Administered(k)'
             PROVE  \E S \in SUBSET Entries(k)' : Explains(S, k, local[c].before)'
  BY DEF CheckExplained
<1>1. k \in Keys
  <2>1. TypeOK'
    BY <1>0, NextType
  <2> QED
    BY <2>1 DEF TypeOK, Local, Key, Keys
<1>2. ~Administered(k)
  BY <1>0, <1>1, InitialFixed DEF IInv
<1>3. ASSUME NEW n, local'[c].before = n, NEW S \in SUBSET Entries(k), Explains(S, k, n),
             \A d \in Calls : Withdraw(d) /\ Key(d) = k => \E b \in Calls : <<d, b>> \in spenders
      PROVE  \E T \in SUBSET Entries(k)' : Explains(T, k, local[c].before)'
  <2>1. S \in SUBSET Entries(k)' /\ Explains(S, k, n)'
    BY <1>0, <1>1, <1>3, ExplanationStays
  <2> QED
    BY <1>3, <2>1 DEF Explains
<1>4. CASE DeductRead(c)
  <2>1. k = <<local[c].company, month>> /\ local'[c].before = budget[k].current
    BY <1>0, <1>1, <1>4 DEF DeductRead, Key, TypeOK, Local
  <2>2. \A d \in Calls : ~Withdraw(d)
    <3>1. pc[c] = "deduct" /\ pc'[c] = "withdraw"
      BY <1>0, <1>4 DEF DeductRead, Step, TypeOK
    <3> QED
      BY <1>0, <3>1 DEF Withdraw, Step, TypeOK
  <2>3. PICK S \in SUBSET Entries(k) : Explains(S, k, budget[k].current)
    BY <1>1, <1>2 DEF LedgerInv, BalanceExplained
  <2> QED
    BY <1>3, <2>1, <2>2, <2>3
<1>5. CASE pc[c] = "withdraw"
  <2>1. local'[c] = local[c] /\ k = Key(c)
    BY <1>0, <1>5, LocalStable DEF Key
  <2>2. PICK S \in SUBSET Entries(k) : Explains(S, k, local[c].before)
    BY <1>2, <1>5, <2>1 DEF LedgerInv, CheckExplained, Withdrawing
  <2>3. ASSUME NEW d \in Calls, Withdraw(d), Key(d) = k
        PROVE  <<d, c>> \in spenders
    <3>1. d # c
      BY <1>0, <2>3 DEF Withdraw, Step, TypeOK, Withdrawing
    <3> QED
      BY <1>5, <2>1, <2>3, <3>1 DEF Withdraw, Step, Withdrawing, Recorded, AtOneBalance
  <2> QED
    BY <1>3, <2>1, <2>2, <2>3
<1> QED
  BY <1>0, <1>4, <1>5, WithdrawLabel DEF Withdrawing

LEMMA InitLedger == RecordedInit => LedgerInv
<1> SUFFICES ASSUME RecordedInit PROVE LedgerInv
  OBVIOUS
<1>1. ledger = {} /\ \A c \in Calls : ~Withdrawing(c)
  BY DEF RecordedInit, Init, Withdrawing
<1>2. IsFiniteSet(ledger)
  BY <1>1, FS_EmptySet
<1>3. \A k \in Keys : budget[k].current = budget[k].initial /\ budget[k].initial \in Int
  <2>1. \A k \in Keys : budget[k] \in {NoBudget} \cup {SeededBudget(n) : n \in Seeded}
    BY DEF RecordedInit, Init
  <2>2. NoBudget.current = NoBudget.initial /\ NoBudget.initial \in Int
    BY DEF NoBudget
  <2>3. \A n \in Seeded : /\ SeededBudget(n).current = SeededBudget(n).initial
                          /\ SeededBudget(n).initial \in Int
    BY DEF SeededBudget
  <2> QED
    BY <2>1, <2>2, <2>3
<1>4. Sum({}) = 0
  BY SumEmpty DEF Sum
<1>5. \A k \in Keys : {} \in SUBSET Entries(k) /\ Explains({}, k, budget[k].current)
  BY <1>1, <1>3, <1>4 DEF Explains, Unmet, Entries
<1> QED
  BY <1>1, <1>2, <1>5 DEF LedgerInv, BalanceExplained, CheckExplained

LEMMA NextLedger == IInv /\ MeetingInv /\ LedgerInv /\ [RecordedNext]_recorded => LedgerInv'
<1> SUFFICES ASSUME IInv, MeetingInv, LedgerInv, [RecordedNext]_recorded PROVE LedgerInv'
  OBVIOUS
<1>1. TypeOK /\ Recorded /\ IsFiniteSet(ledger)
  BY DEF IInv, MeetingInv, LedgerInv
<1>2. IsFiniteSet(ledger)'
  BY <1>1, RecordedStep, FiniteStep
<1> QED
  BY <1>1, <1>2, BalanceStep, CheckedStep DEF LedgerInv

\* The ledger accounts for every balance up to the withdrawals that met another one: a charge
\* whose handler overlapped no other at its budget is never lost, whatever else is.
THEOREM LedgerAccounts == RecordedSpec => []BalanceExplained
<1>1. LedgerInv => BalanceExplained
  BY DEF LedgerInv
<1> QED
  BY <1>1, Forgets, Invariant, MeetingInvariant, InitLedger, NextLedger, PTL DEF RecordedSpec

=============================================================================
