------------------------ MODULE PurchasingProperties ------------------------
(***************************************************************************)
(* What is claimed of Purchasing: the properties the runs check and the    *)
(* inductive invariant their proofs rest on.  All of it is about Spec, that *)
(* is about every interleaving of the handlers, every timeout and crash.   *)
(***************************************************************************)
EXTENDS Purchasing

Labels == Finished \cup {"clearCart", "commit", "deduct", "withdraw", "record", "reject",
                         "delete", "createBudget", "updateBudget"}

\* Every row and every local variable has its column's type.
TypeOK ==
    /\ requests \in [Calls -> Request]
    /\ orders \subseteq Order
    /\ budget \in [Keys -> Budget]
    /\ ledger \subseteq Entry
    /\ cart \subseteq Users
    /\ month \in Months
    /\ pc \in [Calls -> Labels]
    /\ open \subseteq Calls
    /\ local \in [Calls -> Local]

\* An administrator has set the month's budget, which leaves no ledger entry
\* (BudgetsService.update).
SetBy(c, k) == local[c].kind = "budget" /\ pc[c] = "done" /\ Key(c) = k
Administered(k) == \E c \in Calls : SetBy(c, k)

\* deductCompanyBudgetByUserId never drives a company's balance below zero, not even for a
\* negative total: the check and the write are separated by an await, but the write stores
\* the checked value minus the amount, whatever happened in between.  A balance below zero is
\* one that an administrator sent (budgets.service.ts compares it with MAX_AMOUNT only), and
\* no deduction has touched it since.
NegativeOnlyByHand ==
    \A k \in Keys : budget[k].current < 0 =>
        \E c \in Calls : SetBy(c, k) /\ local[c].amount = budget[k].current

\* No order without its money: every committed order has a ledger entry of its own, written
\* by the same call against the same company, for exactly the order's total - through
\* timeouts, crashes and concurrent approvals of one request.
OrdersPaid ==
    \A o \in orders :
        \E w \in ledger : w.id = o.id /\ w.amount = o.total /\ w.key[1] = o.company

\* The order a request points to exists, belongs to the requester's company and costs what
\* was requested, although its handler copied the total from a read made three awaits ago.
LinkedOrderAsRequested ==
    \A r \in Calls : requests[r].order # None =>
        \E o \in orders : /\ o.id = requests[r].order
                          /\ o.total = requests[r].total
                          /\ o.company = CompanyOf[requests[r].requester]

\* An administrator's purchase empties the cart only after the budget has been charged.
CartEmptiedAfterCharge ==
    [][\A u \in cart \ cart' :
          \E c \in Calls : /\ local[c].user = u
                           /\ local[c].kind \in {"create", "purchase"}
                           /\ local[c].kind = "purchase" =>
                                 \E w \in ledger : w.id = c]_vars

\* The orders that approvals of r have placed.
OrderedFor(r) == {o \in orders : local[o.id].kind = "approve" /\ local[o.id].target = r}

\* approveOrderRequest refuses a request that has been resolved, so it should turn one request
\* into at most one order.
OneOrderPerRequest == \A r \in Calls : \A o, p \in OrderedFor(r) : o = p

\* The deduction is for an order: once its handler has ended, there should be an order it has
\* paid for.
EveryChargeBuysAnOrder ==
    \A w \in ledger : ~Active(w.id) => \E o \in orders : o.id = w.id

\* The handlers of approvals, rejections and deletions that have read their request as pending
\* and are going to write it.
Approving(c) == local[c].kind = "approve" /\ pc[c] \in {"deduct", "withdraw", "record"}
Resolving(c) == Approving(c) \/ pc[c] \in {"reject", "delete"}
Withdrawing(c) == pc[c] = "withdraw"

\* The handlers, however they interleave and whatever fails, implement the promise: each acts
\* once, on what it has found of its row while it ran.  The mapping is the identity on the
\* tables and hides the cart, the clock, the transactions and the steps of the handlers.
Findings == {<<c, local[c].target>> : c \in {d \in Calls : Resolving(d)}}
Quote(c) == [id |-> c, key |-> Key(c), amount |-> local[c].amount, before |-> local[c].before]
Quotes == {Quote(c) : c \in {d \in Calls : Withdrawing(d)}}
Promise == INSTANCE Procurement WITH findings <- Findings, quotes <- Quotes
ServesPromise == Promise!Spec

-----------------------------------------------------------------------------
(* The inductive invariant of Spec *)

Entered(c) ==
    \E w \in ledger : /\ w.id = c /\ w.amount = local[c].amount
                      /\ w.key[1] = local[c].company

\* The handler of c has been through the deduction.
Charged(c) == \/ pc[c] = "record"
              \/ local[c].kind = "purchase" /\ pc[c] \in {"clearCart", "commit"}

\* The checked balance, not the current one, covers what is about to be withdrawn.
CheckHeld == \A c \in Calls : pc[c] = "withdraw" => local[c].amount <= local[c].before

ChargeHeld == \A c \in Calls : Charged(c) => Entered(c)

\* A request's row is inserted once, by the last step of its own call.
RowsDone == \A r \in Calls : Exists(r) => pc[r] = "done"

\* What an approval read of its request is still true of the row, if the row is still there.
Snapshot(c, r) ==
    Exists(r) => /\ local[c].amount = requests[r].total
                 /\ local[c].company = CompanyOf[requests[r].requester]
SnapshotHeld ==
    \A c, r \in Calls : Approving(c) /\ local[c].target = r =>
        pc[r] = "done" /\ Snapshot(c, r)

\* BudgetsService.update writes to the row its read found: budgets are never deleted.
BudgetFound == \A c \in Calls : pc[c] = "updateBudget" => budget[Key(c)].exists

\* A handler that has come to the writes of BudgetsService.update is one of that kind.
BudgetErrand ==
    \A c \in Calls : pc[c] \in {"updateBudget", "createBudget"} =>
        local[c].kind = "budget" /\ local[c].amount <= MaxAmount /\ local[c].initial <= MaxAmount

\* A call enters the ledger and the orders once.
EnteredOnce == \A w \in ledger : pc[w.id] \notin {"idle", "deduct", "withdraw"}
OrderedOnce == \A o \in orders : pc[o.id] = "done" /\ o = NewOrder(o.id)

\* Why balances stay covered, orders are paid and links are right: each handler holds on to
\* what its reads established, and writes once.
IInv == /\ TypeOK
        /\ NegativeOnlyByHand /\ CheckHeld
        /\ OrdersPaid /\ ChargeHeld
        /\ LinkedOrderAsRequested /\ SnapshotHeld /\ RowsDone
        /\ BudgetFound /\ BudgetErrand
        /\ EnteredOnce /\ OrderedOnce
=============================================================================
