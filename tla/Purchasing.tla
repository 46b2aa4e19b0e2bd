----------------------------- MODULE Purchasing -----------------------------
(***************************************************************************)
(* The purchasing core of the back end: order requests, orders, the        *)
(* monthly company budget and its ledger, and the HTTP handlers that       *)
(* change them.                                                            *)
(*                                                                         *)
(* Every handler is an async function whose awaits are separate database   *)
(* round trips, so handlers of different calls interleave between them.    *)
(* Handlers run inside an interactive transaction (prisma.$transaction),   *)
(* but two of the things they call - deductCompanyBudgetByUserId and       *)
(* clearCartItemsByUserId - use another connection, so their effects are   *)
(* committed whatever becomes of that transaction.  PostgreSQL runs at its *)
(* default isolation, READ COMMITTED: a read sees the last committed row,  *)
(* and an update by id waits for the row and then overwrites it.  The      *)
(* writes of an interactive transaction are invisible until it commits and *)
(* are therefore one step, the commit.                                     *)
(*                                                                         *)
(* A call is one HTTP request.  A row that a call inserts bears the call's *)
(* name: each call inserts at most one request, one order and one ledger   *)
(* entry.  A call that is refused at its first read changes nothing and is *)
(* not represented: its action is disabled.                                *)
(***************************************************************************)
EXTENDS Integers

CONSTANTS
    Calls,          \* the HTTP calls, past and future
    Earlier,        \* calls answered before the model starts; each left a pending request
    Users,          \* registered users
    Admins,         \* the users whose role is ADMIN or SUPERADMIN
    Companies,
    CompanyOf,      \* the company each user belongs to
    Totals,         \* totals (items plus shipping fee) an order can come to
    Seeded,         \* amounts of the budget rows the database may start with
    BudgetInputs,   \* amounts an administrator types into PUT /budgets/update
    MaxAmount,      \* MAX_AMOUNT of BudgetsService.update
    LastMonth,      \* bound: the clock stops in this month
    Operations,     \* the operations clients call in this instance
    Faults,         \* the faults that happen in this instance
    None            \* SQL NULL in a column that holds the id of a row

Kinds == {"create", "approve", "reject", "delete", "purchase", "budget"}
Status == {"PENDING", "APPROVED", "REJECTED"}

Months == 1 .. LastMonth
Keys == Companies \X Months
Amounts == Totals \cup BudgetInputs \cup {0}

ASSUME CallsAssumption == Earlier \subseteq Calls /\ None \notin Calls
ASSUME UsersAssumption == /\ Users # {} /\ Admins \subseteq Users
                          /\ CompanyOf \in [Users -> Companies]
\* prisma/seed.ts writes natural amounts.  No pipe applies the DTOs' @Min(1) (src/main.ts), so
\* quantities, totals and the amounts administrators send may be negative.
ASSUME AmountsAssumption == /\ Totals \subseteq Int
                            /\ Seeded \subseteq Nat
                            /\ BudgetInputs \subseteq Int
                            /\ MaxAmount \in Nat
ASSUME ScopeAssumption == /\ LastMonth \in Nat \ {0}
                          /\ Operations \subseteq Kinds \cup {"fillCart"}
                          /\ Faults \subseteq {"timeout", "crash"}

VARIABLES
    requests,   \* table order_requests: a row for each call, "ABSENT" when there is none
    orders,     \* table orders
    budget,     \* table budgets: a row for each company and month
    ledger,     \* table budget_ledgers
    cart,       \* the users whose cart holds something
    month,      \* what dayjs() reads
    pc,         \* where each call's handler stands
    open,       \* the calls whose interactive transaction is still open
    local       \* what each call's handler holds in local variables

vars == <<requests, orders, budget, ledger, cart, month, pc, open, local>>
tables == <<requests, orders, budget, ledger>>

-----------------------------------------------------------------------------
(* Rows and local variables *)

Request == [status : Status \cup {"ABSENT"}, requester : Users, total : Amounts,
            order : Calls \cup {None}, resolved : BOOLEAN]
Order == [id : Calls, company : Companies, total : Amounts]
Budget == [exists : BOOLEAN, current : Int, initial : Int, named : BOOLEAN]
\* amount is what was taken; a withdrawal's column stores it negated.
Entry == [id : Calls, key : Keys, amount : Amounts, before : Int, after : Int]
Local == [kind : Kinds \cup {"none"}, user : Users, target : Calls, company : Companies,
          month : Months, amount : Amounts, before : Int, initial : Amounts]

AnyUser == CHOOSE u \in Users : TRUE

Row(status, user, total) ==
    [status |-> status, requester |-> user, total |-> total, order |-> None,
     resolved |-> FALSE]
AbsentRow == Row("ABSENT", AnyUser, 0)

\* A budget row seeded by prisma/seed.ts has a name of its own; one made by the API is
\* called "Budget <year>-<month>", which "named" records.
SeededBudget(n) == [exists |-> TRUE, current |-> n, initial |-> n, named |-> FALSE]
NoBudget == [exists |-> FALSE, current |-> 0, initial |-> 0, named |-> FALSE]

\* A handler's locals once it has read what it needs; amount is the total it charges or the
\* currentAmount it sets, target the request it is about.
Locals(kind, user, target, company, amount) ==
    [kind |-> kind, user |-> user, target |-> target, company |-> company, month |-> 1,
     amount |-> amount, before |-> 0, initial |-> 0]

Finished == {"idle", "done", "failed"}
Active(c) == pc[c] \notin Finished
Exists(r) == requests[r].status # "ABSENT"
Key(c) == <<local[c].company, local[c].month>>

Init ==
    /\ \E owner \in [Earlier -> Users], total \in [Earlier -> Totals] :
          requests = [c \in Calls |-> IF c \in Earlier
                                      THEN Row("PENDING", owner[c], total[c])
                                      ELSE AbsentRow]
    /\ orders = {} /\ ledger = {}
    /\ budget \in [Keys -> {NoBudget} \cup {SeededBudget(n) : n \in Seeded}]
    /\ cart = {}
    /\ month = 1
    /\ pc = [c \in Calls |-> IF c \in Earlier THEN "done" ELSE "idle"]
    /\ open = {}
    /\ local = [c \in Calls |-> Locals("none", AnyUser, c, CompanyOf[AnyUser], 0)]

\* The first step of a call: its handler opens an interactive transaction and reads.
Arrive(c, l, label) ==
    /\ l.kind \in Operations
    /\ pc[c] = "idle"
    /\ pc' = [pc EXCEPT ![c] = label]
    /\ open' = open \cup {c}
    /\ local' = [local EXCEPT ![c] = l]

\* A later step of a handler, which stays in its transaction.
Step(c, from, to) ==
    /\ pc[c] = from
    /\ pc' = [pc EXCEPT ![c] = to]
    /\ UNCHANGED open

\* The last step of a handler: it answers, and its transaction is over.
Answer(c, from, outcome) ==
    /\ pc[c] = from
    /\ pc' = [pc EXCEPT ![c] = outcome]
    /\ open' = open \ {c}
-----------------------------------------------------------------------------
(* POST /order-requests *)

\* Prices, shipping fee and total come from the first reads, the row is inserted but not
\* yet committed.
CreateRead(c, u, t) ==
    /\ Arrive(c, Locals("create", u, c, CompanyOf[u], t), "clearCart")
    /\ UNCHANGED <<tables, cart, month>>

\* clearCartItemsByUserId, on a connection of its own: it is not undone with the caller's
\* transaction.
ClearCart(c) ==
    /\ Step(c, "clearCart", "commit")
    /\ cart' = cart \ {local[c].user}
    /\ UNCHANGED <<tables, month, local>>

\* An administrator's own request is stored as already approved, with no order.
CreateCommit(c) ==
    LET u == local[c].user
    IN  /\ local[c].kind = "create" /\ c \in open
        /\ Answer(c, "commit", "done")
        /\ requests' = [requests EXCEPT ![c] =
               Row(IF u \in Admins THEN "APPROVED" ELSE "PENDING", u, local[c].amount)]
        /\ UNCHANGED <<orders, budget, ledger, cart, month, local>>

-----------------------------------------------------------------------------
(* deductCompanyBudgetByUserId, shared by approvals and purchases *)

\* Slip: the balance is not compared with the amount.
AffordableUnchecked(c) == budget[<<local[c].company, month>>].exists

Affordable(c) ==
    LET row == budget[<<local[c].company, month>>]
    IN  row.exists /\ row.current >= local[c].amount

DeductRead(c) ==
    /\ Affordable(c)
    /\ Step(c, "deduct", "withdraw")
    /\ local' = [local EXCEPT ![c].month = month,
                              ![c].before = budget[<<local[c].company, month>>].current]
    /\ UNCHANGED <<tables, cart, month>>

\* Slip: the refusal is caught and logged, as createOrder does with a failed shipping fee.
DeductRefusalSwallowed(c) ==
    /\ ~Affordable(c)
    /\ Step(c, "deduct", "record")
    /\ UNCHANGED <<tables, cart, month, local>>

\* No budget row for this month, or not enough left in it.
DeductRefused(c) ==
    /\ ~Affordable(c)
    /\ Answer(c, "deduct", "failed")
    /\ UNCHANGED <<tables, cart, month, local>>

\* Slip: the balance is decremented in place, {decrement: amount}, after the earlier check.
WithdrawByDecrement(c) ==
    /\ Step(c, "withdraw", "record")
    /\ budget' = [budget EXCEPT ![Key(c)].current = @ - local[c].amount]
    /\ ledger' = ledger \cup
          {[id |-> c, key |-> Key(c), amount |-> local[c].amount,
            before |-> local[c].before, after |-> local[c].before - local[c].amount]}
    /\ UNCHANGED <<requests, orders, cart, month, local>>

\* Slip: the balance is written on its own and the entry is lost.
WithdrawUnrecorded(c) ==
    /\ Step(c, "withdraw", "record")
    /\ budget' = [budget EXCEPT ![Key(c)].current = local[c].before - local[c].amount]
    /\ UNCHANGED <<requests, orders, ledger, cart, month, local>>

\* One batch transaction writes the balance computed from the earlier read and the entry.
Withdraw(c) ==
    LET after == local[c].before - local[c].amount
    IN  /\ Step(c, "withdraw", "record")
        /\ budget' = [budget EXCEPT ![Key(c)].current = after]
        /\ ledger' = ledger \cup
              {[id |-> c, key |-> Key(c), amount |-> local[c].amount,
                before |-> local[c].before, after |-> after]}
        /\ UNCHANGED <<requests, orders, cart, month, local>>

\* Slip: the order is filed under the caller instead of the company.
NewOrderOfCaller(c) == [id |-> c, company |-> local[c].user, total |-> local[c].amount]

NewOrder(c) == [id |-> c, company |-> local[c].company, total |-> local[c].amount]

-----------------------------------------------------------------------------
(* POST /order-requests/:id/accept *)

\* Slip: the check forgets that an approved request is resolved, too.
ResolvedRejectedOnly(r) == requests[r].status = "REJECTED"

Resolved(r) == requests[r].status \in {"APPROVED", "REJECTED"}

\* Slip: the total is computed again from today's prices.
ApproveReadRepriced(c, u, r) ==
    /\ u \in Admins
    /\ Exists(r) /\ ~Resolved(r)
    /\ \E t \in Totals :
          Arrive(c, Locals("approve", u, r, CompanyOf[requests[r].requester], t), "deduct")
    /\ UNCHANGED <<tables, cart, month>>

ApproveRead(c, u, r) ==
    /\ u \in Admins
    /\ Exists(r) /\ ~Resolved(r)
    /\ Arrive(c, Locals("approve", u, r, CompanyOf[requests[r].requester],
                        requests[r].total), "deduct")
    /\ UNCHANGED <<tables, cart, month>>

\* The order and the request's new status are committed together.  The update finds its row
\* by id and does not look at the status again.
ApproveCommit(c) ==
    LET r == local[c].target
    IN  /\ local[c].kind = "approve" /\ c \in open /\ Exists(r)
        /\ Answer(c, "record", "done")
        /\ orders' = orders \cup {NewOrder(c)}
        /\ requests' = [requests EXCEPT ![r].status = "APPROVED", ![r].order = c,
                                        ![r].resolved = TRUE]
        /\ UNCHANGED <<budget, ledger, cart, month, local>>

-----------------------------------------------------------------------------
(* POST /order-requests/:id/reject *)

\* Slip: any existing request can be rejected.
RejectReadUnchecked(c, u, r) ==
    /\ u \in Admins
    /\ Exists(r)
    /\ Arrive(c, Locals("reject", u, r, CompanyOf[u], 0), "reject")
    /\ UNCHANGED <<tables, cart, month>>

RejectRead(c, u, r) ==
    /\ u \in Admins
    /\ Exists(r) /\ ~Resolved(r)
    /\ Arrive(c, Locals("reject", u, r, CompanyOf[u], 0), "reject")
    /\ UNCHANGED <<tables, cart, month>>

RejectCommit(c) ==
    LET r == local[c].target
    IN  /\ c \in open /\ Exists(r)
        /\ Answer(c, "reject", "done")
        /\ requests' = [requests EXCEPT ![r].status = "REJECTED", ![r].resolved = TRUE]
        /\ UNCHANGED <<orders, budget, ledger, cart, month, local>>

-----------------------------------------------------------------------------
(* DELETE /order-requests/:id *)

\* Slip: the requester can delete a request in any status.
DeleteReadUnchecked(c, u, r) ==
    /\ Exists(r) /\ requests[r].requester = u
    /\ Arrive(c, Locals("delete", u, r, CompanyOf[u], 0), "delete")
    /\ UNCHANGED <<tables, cart, month>>

DeleteRead(c, u, r) ==
    /\ Exists(r) /\ requests[r].requester = u
    /\ requests[r].status = "PENDING"
    /\ Arrive(c, Locals("delete", u, r, CompanyOf[u], 0), "delete")
    /\ UNCHANGED <<tables, cart, month>>

DeleteCommit(c) ==
    LET r == local[c].target
    IN  /\ c \in open /\ Exists(r)
        /\ Answer(c, "delete", "done")
        /\ requests' = [requests EXCEPT ![r] = AbsentRow]
        /\ UNCHANGED <<orders, budget, ledger, cart, month, local>>

\* An update or delete by id of a row that has been deleted since it was read fails, and
\* with it everything its transaction wrote.
RowGone(c) ==
    /\ c \in open /\ local[c].kind \in {"approve", "reject", "delete"}
    /\ ~Exists(local[c].target)
    /\ \E label \in {"record", "reject", "delete"} : Answer(c, label, "failed")
    /\ UNCHANGED <<tables, cart, month, local>>

-----------------------------------------------------------------------------
(* POST /orders, an administrator's own purchase *)

\* Slip: the cart is cleared before the budget is charged.
PurchaseReadClearsFirst(c, u, t) ==
    /\ u \in Admins
    /\ Arrive(c, Locals("purchase", u, c, CompanyOf[u], t), "clearCart")
    /\ UNCHANGED <<tables, cart, month>>

PurchaseRead(c, u, t) ==
    /\ u \in Admins
    /\ Arrive(c, Locals("purchase", u, c, CompanyOf[u], t), "deduct")
    /\ UNCHANGED <<tables, cart, month>>

\* The order and its items are inserted in the transaction; then the cart is cleared.
PurchaseInsert(c) ==
    /\ local[c].kind = "purchase" /\ c \in open
    /\ Step(c, "record", "clearCart")
    /\ UNCHANGED <<tables, cart, month, local>>

PurchaseCommit(c) ==
    /\ local[c].kind = "purchase" /\ c \in open
    /\ Answer(c, "commit", "done")
    /\ orders' = orders \cup {NewOrder(c)}
    /\ UNCHANGED <<requests, budget, ledger, cart, month, local>>

-----------------------------------------------------------------------------
(* PUT /budgets/update, which uses no transaction *)

BudgetRead(c, k, current, initial) ==
    /\ "budget" \in Operations
    /\ current <= MaxAmount /\ initial <= MaxAmount
    /\ Step(c, "idle", IF ~budget[k].exists \/ current = 0 \/ initial = 0
                       THEN "createBudget" ELSE "updateBudget")
    /\ local' = [local EXCEPT ![c] =
           [Locals("budget", AnyUser, c, k[1], current) EXCEPT !.month = k[2],
                                                               !.initial = initial]]
    /\ UNCHANGED <<tables, cart, month>>

BudgetUpdate(c) ==
    /\ Step(c, "updateBudget", "done")
    /\ budget' = [budget EXCEPT ![Key(c)].current = local[c].amount,
                                ![Key(c)].initial = local[c].initial]
    /\ UNCHANGED <<requests, orders, ledger, cart, month, local>>

\* Unique constraints on (companyId, year, month) and on name, which is made of the year
\* and the month alone.
Insertable(k) ==
    /\ ~budget[k].exists
    /\ \A co \in Companies : ~budget[<<co, k[2]>>].named

BudgetCreate(c) ==
    /\ Insertable(Key(c))
    /\ Step(c, "createBudget", "done")
    /\ budget' = [budget EXCEPT ![Key(c)] =
           [exists |-> TRUE, current |-> local[c].amount, initial |-> local[c].initial,
            named |-> TRUE]]
    /\ UNCHANGED <<requests, orders, ledger, cart, month, local>>

BudgetClash(c) ==
    /\ ~Insertable(Key(c))
    /\ Step(c, "createBudget", "failed")
    /\ UNCHANGED <<tables, cart, month, local>>

-----------------------------------------------------------------------------
(* Faults and the environment *)

\* The transaction of a call is rolled back under it: its time limit has passed, or one of
\* its statements failed (a product listed twice in an order, a lost connection).  The
\* handler does not notice before it uses the transaction again.
TransactionLost(c) ==
    /\ "timeout" \in Faults
    /\ c \in open
    /\ open' = open \ {c}
    /\ UNCHANGED <<tables, cart, month, pc, local>>

\* A handler fails: its next statement needs the transaction it has lost, or a statement it
\* makes on another connection fails (no connection came free in time).
Abandon(c) ==
    /\ \/ c \notin open /\ pc[c] \in {"record", "reject", "delete", "commit"}
       \/ "timeout" \in Faults /\ pc[c] \in {"clearCart", "deduct", "withdraw",
                                             "createBudget", "updateBudget"}
    /\ Answer(c, pc[c], "failed")
    /\ UNCHANGED <<tables, cart, month, local>>

\* The server process dies: every handler is gone and every open transaction is rolled back.
Crash ==
    /\ "crash" \in Faults
    /\ \E c \in Calls : Active(c)
    /\ pc' = [c \in Calls |-> IF Active(c) THEN "failed" ELSE pc[c]]
    /\ open' = {}
    /\ UNCHANGED <<tables, cart, month, local>>

\* Another request of the user puts something into the cart (CartsService.addToCart).
FillCart(u) ==
    /\ "fillCart" \in Operations
    /\ u \notin cart
    /\ cart' = cart \cup {u}
    /\ UNCHANGED <<tables, month, pc, open, local>>

NextMonth ==
    /\ month < LastMonth
    /\ month' = month + 1
    /\ UNCHANGED <<tables, cart, pc, open, local>>

-----------------------------------------------------------------------------

Read(c) ==
    \/ \E u \in Users, t \in Totals : CreateRead(c, u, t) \/ PurchaseRead(c, u, t)
    \/ \E u \in Users, r \in Calls :
          ApproveRead(c, u, r) \/ RejectRead(c, u, r) \/ DeleteRead(c, u, r)
    \/ \E k \in Keys, current, initial \in BudgetInputs : BudgetRead(c, k, current, initial)

Continue(c) ==
    \/ ClearCart(c) \/ CreateCommit(c)
    \/ DeductRead(c) \/ DeductRefused(c) \/ Withdraw(c) \/ ApproveCommit(c)
    \/ RejectCommit(c) \/ DeleteCommit(c) \/ RowGone(c)
    \/ PurchaseInsert(c) \/ PurchaseCommit(c)
    \/ BudgetUpdate(c) \/ BudgetCreate(c) \/ BudgetClash(c)
    \/ Abandon(c)

Next ==
    \/ \E c \in Calls : Read(c) \/ Continue(c) \/ TransactionLost(c)
    \/ \E u \in Users : FillCart(u)
    \/ Crash \/ NextMonth

Spec == Init /\ [][Next]_vars
=============================================================================
