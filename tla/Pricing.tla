------------------------------- MODULE Pricing -------------------------------
(***************************************************************************)
(* What an order costs: the prices, the shipping fee and the total that a  *)
(* cart's summary quotes, an order request and a purchase store, an        *)
(* approval copies and the detail pages show, while administrators reprice *)
(* and delete the products.  Budgets, carts and transaction limits are in  *)
(* Purchasing; here they are only a reason for a handler to give up.       *)
(***************************************************************************)
EXTENDS Integers, Sequences, Functions

CONSTANTS
  Calls,        \* requests to the service
  Products,
  Prices,       \* prices a product is given
  Carts,        \* lists of [product, quantity] that are quoted and ordered
  StandardFee,  \* STANDARD_SHIPPING_FEE
  RemoteFee,    \* JEJU_ISOLATED_SHIPPING_FEE
  Threshold,    \* FREE_SHIPPING_THRESHOLD
  MaxChanges,   \* bound on the changes to the products
  None

\* The products' forms are validated (ProductsController's ValidationPipe, @Min(0)).
ASSUME AmountsAssumption ==
  /\ Prices \subseteq Nat
  /\ {StandardFee, RemoteFee, Threshold, MaxChanges} \subseteq Nat

\* The forms of carts, requests and purchases are validated by nothing: a quantity may be
\* zero or negative.
ASSUME CartsAssumption == Carts \subseteq Seq([product : Products, quantity : Int])

VARIABLES
  history,   \* the states of the product table, the last one the present
  zone,      \* feeType of the company's address; None without an address
  requests,  \* per call, the order request it stored, or None
  orders,    \* per call, the order it stored, or None
  pc,        \* per call, its next step
  local      \* per call, what it holds

vars == <<history, zone, requests, orders, pc, local>>

Now == Len(history)
Product(p) == history[Now][p]

\* Slip: a deleted product is found without a price.
PricedIfLive(items, t) ==
  [i \in DOMAIN items |->
     LET row == history[t][items[i].product]
     IN [product |-> items[i].product, quantity |-> items[i].quantity,
         price |-> IF row.live THEN row.price ELSE None]]

\* The items of an order as they stand in the table of time t.
Priced(items, t) ==
  [i \in DOMAIN items |-> [product |-> items[i].product,
                           quantity |-> items[i].quantity,
                           price |-> history[t][items[i].product].price]]

Net(lines) == SumFunction([i \in DOMAIN lines |-> lines[i].quantity * lines[i].price])

\* getShippingFeeByUserId; it throws when there is something to ship and no
\* address to ship it to.
Fee(net) ==
  IF net = 0 THEN 0
  ELSE IF zone = "REMOTE" THEN RemoteFee
  ELSE IF net < Threshold THEN StandardFee ELSE 0

HasFee(net) == net = 0 \/ zone # None

NoCall == [kind |-> "none", at |-> 0, lines |-> <<>>, total |-> 0,
           lost |-> FALSE, of |-> None]

Init ==
  /\ history \in {<<t>> : t \in [Products -> [price : Prices, live : BOOLEAN]]}
  /\ zone \in {"STANDARD", "REMOTE", None}
  /\ requests = [c \in Calls |-> None]
  /\ orders = [c \in Calls |-> None]
  /\ pc = [c \in Calls |-> "idle"]
  /\ local = [c \in Calls |-> NoCall]

Goto(c, label) == pc' = [pc EXCEPT ![c] = label]
Hold(c, l) == local' = [local EXCEPT ![c] = l]
Refuse(c) == Goto(c, "failed") /\ UNCHANGED local

-----------------------------------------------------------------------------
(* The products: updateProduct finds live products only, deleteProduct      *)
(* keeps the row.                                                           *)

Change(p, row) ==
  /\ Now <= MaxChanges
  /\ Product(p).live
  /\ history' = Append(history, [history[Now] EXCEPT ![p] = row])
  /\ UNCHANGED <<zone, requests, orders, pc, local>>

UpdateProduct(p) ==
  \E k \in Prices \ {Product(p).price} : Change(p, [price |-> k, live |-> TRUE])

DeleteProduct(p) == Change(p, [price |-> Product(p).price, live |-> FALSE])

-----------------------------------------------------------------------------
(* The first reads: the prices of the items.                                *)

Reads(c, kind, items) ==
  LET lines == Priced(items, Now)
  IN Hold(c, [NoCall EXCEPT !.kind = kind, !.at = Now, !.lines = lines])

Distinct(items) ==
  \A i, j \in DOMAIN items : items[i].product = items[j].product => i = j

\* createOrderRequest finds deleted products too, and wants as many rows as it
\* has items: an item listed twice is not found.
CreateOrderRequest(c) ==
  /\ pc[c] = "idle"
  /\ \E items \in Carts :
       IF Distinct(items)
       THEN Reads(c, "request", items) /\ Goto(c, "fee")
       ELSE Refuse(c)
  /\ UNCHANGED <<history, zone, requests, orders>>

\* Slip: the read misses `isDeleted: false`.
CreateOrderAnyProduct(c) ==
  /\ pc[c] = "idle"
  /\ \E items \in Carts : Reads(c, "purchase", items) /\ Goto(c, "fee")
  /\ UNCHANGED <<history, zone, requests, orders>>

\* createOrder finds live products only (getProductPricesByIds).
CreateOrder(c) ==
  /\ pc[c] = "idle"
  /\ \E items \in Carts :
       IF \A i \in DOMAIN items : Product(items[i].product).live
       THEN Reads(c, "purchase", items) /\ Goto(c, "fee")
       ELSE Refuse(c)
  /\ UNCHANGED <<history, zone, requests, orders>>

\* getSummaryBySelectedItems, and getCartItems for a whole cart.
GetSummary(c) ==
  /\ pc[c] = "idle"
  /\ \E items \in Carts : Reads(c, "summary", items) /\ Goto(c, "fee")
  /\ UNCHANGED <<history, zone, requests, orders>>

\* approveOrderRequest takes items and total from the request.
ApproveOrderRequest(c) ==
  /\ pc[c] = "idle"
  /\ \E r \in Calls :
       /\ requests[r] # None /\ requests[r].status = "PENDING"
       /\ Hold(c, [NoCall EXCEPT !.kind = "approve", !.at = Now, !.of = r,
                                 !.lines = requests[r].lines,
                                 !.total = requests[r].total])
  /\ Goto(c, "store")
  /\ UNCHANGED <<history, zone, requests, orders>>

-----------------------------------------------------------------------------
(* The second read: the shipping fee.                                       *)

ItemTotal(c) == Net(local[c].lines)

\* The fee is looked up on a connection of its own and comes back, or the
\* lookup throws: there is no address, or the database did not answer.
FeeRead(c) ==
  /\ pc[c] = "fee"
  /\ HasFee(ItemTotal(c))
  /\ local' = [local EXCEPT ![c].total = ItemTotal(c) + Fee(ItemTotal(c))]

\* createOrder and the summaries catch the error, log it and charge no fee.
FeeLost(c) ==
  /\ pc[c] = "fee"
  /\ ItemTotal(c) # 0
  /\ local' = [local EXCEPT ![c].total = ItemTotal(c), ![c].lost = TRUE]

RequestFee(c) ==
  /\ local[c].kind = "request"
  /\ \/ FeeRead(c) /\ Goto(c, "store")
     \/ pc[c] = "fee" /\ ItemTotal(c) # 0 /\ Refuse(c)
  /\ UNCHANGED <<history, zone, requests, orders>>

PurchaseFee(c) ==
  /\ local[c].kind = "purchase"
  /\ FeeRead(c) \/ FeeLost(c)
  /\ Goto(c, "store")
  /\ UNCHANGED <<history, zone, requests, orders>>

\* Slip: the summary asks calculateShippingFee, which knows no address and
\* charges for an empty total.
SummaryFeeByThreshold(c) ==
  /\ local[c].kind = "summary" /\ pc[c] = "fee"
  /\ local' = [local EXCEPT ![c].total =
       ItemTotal(c) + IF ItemTotal(c) < Threshold THEN StandardFee ELSE 0]
  /\ Goto(c, "done")
  /\ UNCHANGED <<history, zone, requests, orders>>

SummaryFee(c) ==
  /\ local[c].kind = "summary"
  /\ FeeRead(c) \/ FeeLost(c)
  /\ Goto(c, "done")
  /\ UNCHANGED <<history, zone, requests, orders>>

-----------------------------------------------------------------------------
(* The commits.                                                             *)

\* A request of an administrator is stored as approved.
StoreRequest(c) ==
  /\ pc[c] = "store" /\ local[c].kind = "request"
  /\ \E status \in {"PENDING", "APPROVED"} :
       requests' = [requests EXCEPT ![c] =
         [lines |-> local[c].lines, total |-> local[c].total, status |-> status]]
  /\ Goto(c, "done")
  /\ UNCHANGED <<history, zone, orders, local>>

\* An order has one row for each of its products (@@unique of order_items).
StoreOrder(c) ==
  /\ pc[c] = "store" /\ local[c].kind \in {"purchase", "approve"}
  /\ Distinct(local[c].lines)
  /\ orders' = [orders EXCEPT ![c] = [lines |-> local[c].lines,
                                      total |-> local[c].total]]
  /\ requests' = IF local[c].kind = "approve"
                 THEN [requests EXCEPT ![local[c].of].status = "APPROVED"]
                 ELSE requests
  /\ Goto(c, "done")
  /\ UNCHANGED <<history, zone, local>>

\* The budget does not suffice, a product is listed twice, or the transaction does not commit.
GiveUp(c) ==
  /\ pc[c] = "store"
  /\ Refuse(c)
  /\ UNCHANGED <<history, zone, requests, orders>>

-----------------------------------------------------------------------------
(* The detail pages.                                                        *)

\* The items of a request are shown with the products' prices of today, and
\* its total as it was stored.
GetOrderRequestDetail(c) ==
  /\ pc[c] = "idle"
  /\ \E r \in Calls :
       /\ requests[r] # None
       /\ Hold(c, [NoCall EXCEPT !.kind = "requestDetail", !.at = Now, !.of = r,
                                 !.lines = Priced(requests[r].lines, Now),
                                 !.total = requests[r].total])
  /\ Goto(c, "done")
  /\ UNCHANGED <<history, zone, requests, orders>>

\* Slip: an order is shown the way a request is.
GetOrderDetailOfToday(c) ==
  /\ pc[c] = "idle"
  /\ \E o \in Calls :
       /\ orders[o] # None
       /\ Hold(c, [NoCall EXCEPT !.kind = "orderDetail", !.at = Now, !.of = o,
                                 !.lines = Priced(orders[o].lines, Now),
                                 !.total = orders[o].total])
  /\ Goto(c, "done")
  /\ UNCHANGED <<history, zone, requests, orders>>

\* The items of an order are shown with the prices that were stored.
GetOrderDetail(c) ==
  /\ pc[c] = "idle"
  /\ \E o \in Calls :
       /\ orders[o] # None
       /\ Hold(c, [NoCall EXCEPT !.kind = "orderDetail", !.at = Now, !.of = o,
                                 !.lines = orders[o].lines,
                                 !.total = orders[o].total])
  /\ Goto(c, "done")
  /\ UNCHANGED <<history, zone, requests, orders>>

-----------------------------------------------------------------------------
Next ==
  \/ \E p \in Products : UpdateProduct(p) \/ DeleteProduct(p)
  \/ \E c \in Calls :
       \/ CreateOrderRequest(c) \/ CreateOrder(c) \/ GetSummary(c)
       \/ ApproveOrderRequest(c)
       \/ RequestFee(c) \/ PurchaseFee(c) \/ SummaryFee(c)
       \/ StoreRequest(c) \/ StoreOrder(c) \/ GiveUp(c)
       \/ GetOrderRequestDetail(c) \/ GetOrderDetail(c)

Spec == Init /\ [][Next]_vars
=============================================================================
