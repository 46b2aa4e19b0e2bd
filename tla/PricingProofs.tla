---------------------------- MODULE PricingProofs ----------------------------
(* Proofs about Pricing, for every set of calls, products, prices, carts and *)
(* fees.  What a cart comes to is left as Net(lines), of which the proofs    *)
(* need that the same lines come to the same amount, and that it is a number.*)
EXTENDS PricingProperties, Sums, TLAPS

Tables == [Products -> [price : Prices, live : BOOLEAN]]
Fields == {"kind", "at", "lines", "total", "lost", "of"}
Steps == {"idle", "fee", "store", "done", "failed"}
Reading == {"request", "purchase", "summary"}

\* The variables are tables of their kind; amounts are not typed here.
Shape ==
  /\ history \in Seq(Tables) /\ Now \in Nat \ {0}
  /\ pc \in [Calls -> Steps]
  /\ DOMAIN local = Calls /\ DOMAIN requests = Calls /\ DOMAIN orders = Calls
  /\ \A c \in Calls : DOMAIN local[c] = Fields

\* Which kind of call stands at which step.
Place(c) ==
  /\ pc[c] = "fee" => local[c].kind \in Reading
  /\ pc[c] = "store" => local[c].kind \in {"request", "purchase", "approve"}

\* The lines of a quote, a request or a purchase bear the prices of the moment
\* at which they were read; a purchase found its products live.
Drawn(c) ==
  local[c].kind \in Reading =>
    /\ local[c].at \in 1 .. Now
    /\ local[c].lines = Priced(local[c].lines, local[c].at)
    /\ local[c].kind = "purchase" =>
         \A i \in DOMAIN local[c].lines :
           history[local[c].at][local[c].lines[i].product].live

\* What a call has computed is what its lines come to.
Due(c) ==
  /\ local[c].kind = "request" => ~local[c].lost
  /\ /\ local[c].kind \in Reading \cup {"approve"} /\ pc[c] \in {"store", "done"}
     /\ ~local[c].lost
     => local[c].total = Net(local[c].lines) + Fee(Net(local[c].lines))

IsRequest(r) == r \in Calls /\ pc[r] = "done" /\ local[r].kind = "request"
IsOrder(o) == o \in Calls /\ pc[o] = "done" /\ local[o].kind \in {"purchase", "approve"}

\* The stored rows are what their calls held.
Filed(c) ==
  /\ requests[c] # None => IsRequest(c)
  /\ IsRequest(c) => requests[c] = [lines |-> local[c].lines, total |-> local[c].total,
                                    status |-> requests[c].status]
  /\ orders[c] # None => IsOrder(c)
  /\ IsOrder(c) => orders[c] = [lines |-> local[c].lines, total |-> local[c].total]

\* What an approval and a detail page have taken from the row of another call.
Copied(c) ==
  LET l == local[c]  o == local[local[c].of]
  IN /\ l.kind = "approve" =>
          IsRequest(l.of) /\ l.lines = o.lines /\ l.total = o.total
     /\ l.kind = "orderDetail" =>
          IsOrder(l.of) /\ l.lines = o.lines /\ l.total = o.total
     /\ l.kind = "requestDetail" =>
          /\ IsRequest(l.of) /\ l.at \in 1 .. Now /\ o.at <= l.at
          /\ l.lines = Priced(o.lines, l.at) /\ l.total = o.total

Claims(c) == Place(c) /\ Drawn(c) /\ Due(c) /\ Filed(c) /\ Copied(c)

PricingInv == Shape /\ \A c \in Calls : Claims(c)

-----------------------------------------------------------------------------
(* Priced lines                                                             *)

\* Pricing lines at the moment they were priced at changes nothing.
LEMMA PricedTwice ==
  ASSUME NEW items, NEW t
  PROVE  Priced(Priced(items, t), t) = Priced(items, t)
  BY DEF Priced

\* Pricing keeps the products of the items.
LEMMA PricedProducts ==
  ASSUME NEW items, NEW t
  PROVE  /\ DOMAIN Priced(items, t) = DOMAIN items
         /\ \A i \in DOMAIN items :
              /\ Priced(items, t)[i].product = items[i].product
              /\ Priced(items, t)[i].price = history[t][items[i].product].price
  BY DEF Priced

-----------------------------------------------------------------------------
(* What a step leaves alone                                                 *)

\* A change of the products leaves the past as it was.
LEMMA PastKept ==
  ASSUME Shape, NEW x, history' = Append(history, x), NEW t \in 1 .. Now
  PROVE  history'[t] = history[t] /\ t \in 1 .. Now'
  BY DEF Shape, Now

\* So no call's claims are touched.
LEMMA ProductStep ==
  ASSUME PricingInv, NEW p \in Products, UpdateProduct(p) \/ DeleteProduct(p)
  PROVE  PricingInv'
<1>1. PICK row \in [price : Prices, live : BOOLEAN] : Change(p, row)
  <2>1. Product(p) \in [price : Prices, live : BOOLEAN]
    BY DEF PricingInv, Shape, Product, Now, Tables
  <2>2. CASE UpdateProduct(p)
    BY <2>2 DEF UpdateProduct
  <2>3. CASE DeleteProduct(p)
    BY <2>1, <2>3 DEF DeleteProduct
  <2> QED
    BY <2>2, <2>3
<1> DEFINE table == [history[Now] EXCEPT ![p] = row]
<1>2. table \in Tables
  BY DEF PricingInv, Shape, Now, Tables
<1>3. history' = Append(history, table) /\ UNCHANGED <<zone, requests, orders, pc, local>>
  BY <1>1 DEF Change
<1> HIDE DEF table
<1>4. Shape'
  BY <1>2, <1>3 DEF PricingInv, Shape, Now
<1>5. \A t \in 1 .. Now : history'[t] = history[t] /\ t \in 1 .. Now'
  BY <1>3, PastKept DEF PricingInv
<1>6. ASSUME NEW c \in Calls PROVE Claims(c)'
  <2>1. Claims(c)
    BY DEF PricingInv
  <2>2. Place(c)' /\ Filed(c)'
    BY <1>3, <2>1 DEF Claims, Place, Filed, IsRequest, IsOrder
  <2>3. Due(c)'
    BY <1>3, <2>1 DEF Claims, Due, Fee
  <2>4. Drawn(c)'
    BY <1>3, <1>5, <2>1 DEF Claims, Drawn, Priced
  <2>5. Copied(c)'
    BY <1>3, <1>5, <2>1 DEF Claims, Copied, IsRequest, IsOrder, Priced
  <2> QED
    BY <2>2, <2>3, <2>4, <2>5 DEF Claims
<1> QED
  BY <1>4, <1>6 DEF PricingInv

\* A step of c's handler: a call that is done moves no more, and of the rows of
\* others it changes at most a request's status.
Moves(c) ==
  /\ pc[c] # "done"
  /\ UNCHANGED <<history, zone>>
  /\ \A d \in Calls \ {c} :
       /\ pc'[d] = pc[d] /\ local'[d] = local[d] /\ orders'[d] = orders[d]
       /\ \/ requests'[d] = requests[d]
          \/ /\ IsRequest(d)
             /\ requests'[d] = [requests[d] EXCEPT !.status = "APPROVED"]

\* The other calls keep their claims.
LEMMA OthersKept ==
  ASSUME PricingInv, NEW c \in Calls, Moves(c), NEW d \in Calls \ {c}
  PROVE  Claims(d)'
<1>1. Claims(d) /\ pc'[d] = pc[d] /\ local'[d] = local[d]
  BY DEF PricingInv, Moves
<1>2. \A r : IsRequest(r) => pc'[r] = "done" /\ local'[r] = local[r]
  BY DEF Moves, IsRequest
<1>3. \A o : IsOrder(o) => pc'[o] = "done" /\ local'[o] = local[o]
  BY DEF Moves, IsOrder
<1>4. Place(d)'
  BY <1>1 DEF Claims, Place
<1>5. Drawn(d)'
  BY <1>1 DEF Claims, Drawn, Priced, Moves, Now
<1>6. Due(d)'
  BY <1>1 DEF Claims, Due, Fee, Moves
<1>7. Filed(d)'
  <2>1. IsRequest(d)' <=> IsRequest(d)
    BY <1>1 DEF IsRequest
  <2>2. IsOrder(d)' <=> IsOrder(d)
    BY <1>1 DEF IsOrder
  <2>3. orders'[d] = orders[d]
    BY DEF Moves
  <2>4. CASE requests'[d] = requests[d]
    BY <1>1, <2>1, <2>2, <2>3, <2>4 DEF Claims, Filed
  <2>5. CASE IsRequest(d) /\ requests'[d] = [requests[d] EXCEPT !.status = "APPROVED"]
    BY <1>1, <2>1, <2>2, <2>3, <2>5 DEF Claims, Filed
  <2> QED
    BY <2>4, <2>5 DEF Moves
<1>8. Copied(d)'
  <2> DEFINE l == local[d]
  <2>1. local'[d] = l /\ Copied(d) /\ UNCHANGED history
    BY <1>1 DEF Claims, Moves
  <2>2. CASE l.kind = "approve"
    <3>1. IsRequest(l.of) /\ l.lines = local[l.of].lines /\ l.total = local[l.of].total
      BY <2>1, <2>2 DEF Copied
    <3>2. pc'[l.of] = "done" /\ local'[l.of] = local[l.of]
      BY <1>2, <3>1
    <3> QED
      BY <2>1, <2>2, <3>1, <3>2 DEF Copied, IsRequest
  <2>3. CASE l.kind = "orderDetail"
    <3>1. IsOrder(l.of) /\ l.lines = local[l.of].lines /\ l.total = local[l.of].total
      BY <2>1, <2>3 DEF Copied
    <3>2. pc'[l.of] = "done" /\ local'[l.of] = local[l.of]
      BY <1>3, <3>1
    <3> QED
      BY <2>1, <2>3, <3>1, <3>2 DEF Copied, IsOrder
  <2>4. CASE l.kind = "requestDetail"
    <3>1. IsRequest(l.of) /\ Now' = Now
      BY <2>1, <2>4 DEF Copied, Now
    <3>2. pc'[l.of] = "done" /\ local'[l.of] = local[l.of]
      BY <1>2, <3>1
    <3>3. Priced(local[l.of].lines, l.at)' = Priced(local[l.of].lines, l.at)
      BY <2>1, <3>2 DEF Priced
    <3> QED
      BY <2>1, <2>4, <3>1, <3>2, <3>3 DEF Copied, IsRequest
  <2> QED
    BY <2>1, <2>2, <2>3, <2>4 DEF Copied
<1> QED
  BY <1>4, <1>5, <1>6, <1>7, <1>8 DEF Claims

-----------------------------------------------------------------------------
(* The steps of a handler                                                   *)

\* What a step of c must show: the tables keep their shape, others are left
\* alone, and c's own claims hold afterwards.
Good(c) == Shape' /\ Moves(c) /\ Claims(c)'

\* A step that changes only what c holds, or nothing.
LEMMA Private ==
  ASSUME PricingInv, NEW c \in Calls, NEW label \in Steps, pc[c] # "done",
         Goto(c, label), UNCHANGED <<history, zone, requests, orders>>,
         UNCHANGED local \/ \E l : Hold(c, l) /\ DOMAIN l = Fields
  PROVE  /\ Shape' /\ Moves(c)
         /\ pc'[c] = label
         /\ requests'[c] = None /\ orders'[c] = None
<1>1. Shape /\ Filed(c)
  BY DEF PricingInv, Claims
<1>2. /\ pc' \in [Calls -> Steps] /\ pc'[c] = label
      /\ \A d \in Calls \ {c} : pc'[d] = pc[d]
  BY <1>1 DEF Shape, Goto
<1>3. /\ DOMAIN local' = Calls /\ \A d \in Calls : DOMAIN local'[d] = Fields
      /\ \A d \in Calls \ {c} : local'[d] = local[d]
  <2>1. CASE UNCHANGED local
    BY <1>1, <2>1 DEF Shape
  <2>2. CASE \E l : Hold(c, l) /\ DOMAIN l = Fields
    BY <1>1, <2>2 DEF Shape, Hold
  <2> QED
    BY <2>1, <2>2
<1>4. requests[c] = None /\ orders[c] = None
  BY <1>1 DEF Filed, IsRequest, IsOrder
<1> QED
  BY <1>1, <1>2, <1>3, <1>4 DEF Shape, Moves, Now

\* A call that is refused holds what it held, and claims no more about it.
LEMMA Refused ==
  ASSUME PricingInv, NEW c \in Calls, pc[c] # "done", Refuse(c),
         UNCHANGED <<history, zone, requests, orders>>
  PROVE  Good(c)
<1>1. /\ Shape' /\ Moves(c) /\ pc'[c] = "failed"
      /\ requests'[c] = None /\ orders'[c] = None
  BY Private DEF Refuse, Steps
<1>2. local'[c] = local[c] /\ UNCHANGED <<history, zone, local>>
  BY DEF Refuse
<1>3. Claims(c)
  BY DEF PricingInv
<1>4. Place(c)' /\ Due(c)' /\ Filed(c)'
  BY <1>1, <1>2, <1>3 DEF Place, Due, Filed, IsRequest, IsOrder, Claims
<1>5. Drawn(c)'
  BY <1>2, <1>3 DEF Claims, Drawn, Priced, Now
<1>6. Copied(c)'
  <2> DEFINE r == local[c].of
  <2>1. \A d : IsRequest(d) \/ IsOrder(d) => pc'[d] = pc[d]
    BY <1>1 DEF Moves, IsRequest, IsOrder
  <2> QED
    BY <1>2, <1>3, <2>1 DEF Claims, Copied, IsRequest, IsOrder, Priced, Now
<1> QED
  BY <1>1, <1>4, <1>5, <1>6 DEF Good, Claims

\* A call that has read the prices of its items holds lines of this moment.
LEMMA ReadsGood ==
  ASSUME PricingInv, NEW c \in Calls, NEW kind \in Reading, NEW items,
         pc[c] = "idle", Reads(c, kind, items), Goto(c, "fee"),
         UNCHANGED <<history, zone, requests, orders>>,
         kind = "purchase" => \A i \in DOMAIN items : Product(items[i].product).live
  PROVE  Good(c)
<1> DEFINE lines == Priced(items, Now)
<1> DEFINE l == [NoCall EXCEPT !.kind = kind, !.at = Now, !.lines = lines]
<1>1. Hold(c, l)
  BY DEF Reads
<1>2. /\ DOMAIN l = Fields
      /\ l.kind = kind /\ l.at = Now /\ l.lines = lines /\ l.lost = FALSE
  BY DEF NoCall, Fields
<1> HIDE DEF l
<1>3. local'[c] = l
  BY <1>1 DEF Hold, PricingInv, Shape
<1>4. /\ Shape' /\ Moves(c) /\ pc'[c] = "fee"
      /\ requests'[c] = None /\ orders'[c] = None
  BY <1>1, <1>2, Private DEF Steps
<1>5. Place(c)' /\ Due(c)' /\ Filed(c)' /\ Copied(c)'
  BY <1>2, <1>3, <1>4 DEF Place, Due, Filed, Copied, IsRequest, IsOrder, Reading
<1>6. lines = Priced(lines, Now)
  BY PricedTwice
<1>7. kind = "purchase" =>
        \A i \in DOMAIN lines : history[Now][lines[i].product].live
  BY PricedProducts DEF Product
<1>8. Now \in 1 .. Now
  BY DEF PricingInv, Shape
<1>9. Drawn(c)'
  <2>1. /\ local'[c].at = Now /\ local'[c].lines = lines /\ local'[c].kind = kind
        /\ UNCHANGED history
    BY <1>2, <1>3
  <2> HIDE DEF lines
  <2> QED
    BY <1>6, <1>7, <1>8, <2>1 DEF Drawn, Priced, Now
<1> QED
  BY <1>4, <1>5, <1>9 DEF Good, Claims

LEMMA FirstReads ==
  ASSUME PricingInv, NEW c \in Calls,
         CreateOrderRequest(c) \/ CreateOrder(c) \/ GetSummary(c)
  PROVE  Good(c)
<1>1. ASSUME pc[c] = "idle", Refuse(c), UNCHANGED <<history, zone, requests, orders>>
      PROVE  Good(c)
  BY <1>1, Refused
<1>2. CASE CreateOrderRequest(c)
  BY <1>1, <1>2, ReadsGood DEF CreateOrderRequest, Reading
<1>3. CASE CreateOrder(c)
  BY <1>1, <1>3, ReadsGood DEF CreateOrder, Reading
<1>4. CASE GetSummary(c)
  BY <1>4, ReadsGood DEF GetSummary, Reading
<1> QED
  BY <1>2, <1>3, <1>4

\* An approval and the detail pages take what they show from the row of
\* another call.
LEMMA CopyGood ==
  ASSUME PricingInv, NEW c \in Calls,
         ApproveOrderRequest(c) \/ GetOrderRequestDetail(c) \/ GetOrderDetail(c)
  PROVE  Good(c)
<1>0. Now \in 1 .. Now /\ pc[c] = "idle"
  <2>1. Now \in 1 .. Now
    BY DEF PricingInv, Shape
  <2>2. pc[c] = "idle"
    BY DEF ApproveOrderRequest, GetOrderRequestDetail, GetOrderDetail
  <2> QED
    BY <2>1, <2>2
<1>1. ASSUME NEW r \in Calls, NEW kind \in {"approve", "requestDetail", "orderDetail"},
             NEW lines, NEW total, NEW label \in {"store", "done"},
             Hold(c, [NoCall EXCEPT !.kind = kind, !.at = Now, !.of = r, !.lines = lines,
                                    !.total = total]),
             Goto(c, label), UNCHANGED <<history, zone, requests, orders>>,
             kind # "orderDetail" => IsRequest(r), kind = "orderDetail" => IsOrder(r),
             total = local[r].total,
             lines = IF kind = "requestDetail" THEN Priced(local[r].lines, Now)
                     ELSE local[r].lines,
             label = IF kind = "approve" THEN "store" ELSE "done"
      PROVE  Good(c)
  <2> DEFINE l == [NoCall EXCEPT !.kind = kind, !.at = Now, !.of = r, !.lines = lines,
                                 !.total = total]
  <2>1. /\ DOMAIN l = Fields /\ l.kind = kind /\ l.at = Now /\ l.of = r
        /\ l.lines = lines /\ l.total = total
    BY DEF NoCall, Fields
  <2> HIDE DEF l
  <2>2. local'[c] = l
    BY <1>1 DEF Hold, PricingInv, Shape, l
  <2>3. /\ Shape' /\ Moves(c) /\ pc'[c] = label
        /\ requests'[c] = None /\ orders'[c] = None
    BY <1>0, <1>1, <2>1, Private DEF Steps, l
  <2>4. pc'[r] = "done" /\ local'[r] = local[r] /\ Claims(r)
    BY <1>0, <1>1, <2>3 DEF Moves, IsRequest, IsOrder, PricingInv
  <2>5. Place(c)' /\ Filed(c)' /\ Drawn(c)'
    BY <1>1, <2>1, <2>2, <2>3 DEF Place, Filed, Drawn, IsRequest, IsOrder, Reading
  <2>6. kind = "approve" => total = Net(lines) + Fee(Net(lines))
    BY <1>1, <2>4 DEF Claims, Due, IsRequest, Reading
  <2>7. Due(c)'
    <3>1. Fee(Net(lines))' = Fee(Net(lines)) /\ Net(lines)' = Net(lines)
      BY <1>1 DEF Fee
    <3> QED
      BY <1>1, <2>1, <2>2, <2>6, <3>1 DEF Due, Reading, Fee
  <2>8. Copied(c)'
    <3>1. kind = "requestDetail" => local[r].at <= Now
      BY <1>1, <2>4 DEF Claims, Drawn, IsRequest, Reading, PricingInv, Shape
    <3>2. /\ local'[c].of = r /\ local'[c].kind = kind /\ local'[c].at = Now
          /\ local'[c].lines = lines /\ local'[c].total = total
          /\ UNCHANGED history
      BY <1>1, <2>1, <2>2
    <3> QED
      BY <1>0, <1>1, <2>4, <3>1, <3>2 DEF Copied, IsRequest, IsOrder, Priced, Now
  <2> QED
    BY <2>3, <2>5, <2>7, <2>8 DEF Good, Claims
<1>2. ASSUME NEW r \in Calls, requests[r] # None
      PROVE  /\ IsRequest(r) /\ requests[r].lines = local[r].lines
             /\ requests[r].total = local[r].total
  <2>1. Filed(r)
    BY DEF PricingInv, Claims
  <2>2. IsRequest(r)
    BY <1>2, <2>1 DEF Filed
  <2>3. requests[r] = [lines |-> local[r].lines, total |-> local[r].total,
                       status |-> requests[r].status]
    BY <2>1, <2>2 DEF Filed
  <2> QED
    BY <2>2, <2>3
<1>3. ASSUME NEW o \in Calls, orders[o] # None
      PROVE  /\ IsOrder(o) /\ orders[o].lines = local[o].lines
             /\ orders[o].total = local[o].total
  <2>1. Filed(o)
    BY DEF PricingInv, Claims
  <2>2. IsOrder(o)
    BY <1>3, <2>1 DEF Filed
  <2>3. orders[o] = [lines |-> local[o].lines, total |-> local[o].total]
    BY <2>1, <2>2 DEF Filed
  <2> QED
    BY <2>2, <2>3
<1>4. CASE ApproveOrderRequest(c)
  BY <1>1, <1>2, <1>4 DEF ApproveOrderRequest
<1>5. CASE GetOrderRequestDetail(c)
  BY <1>1, <1>2, <1>5 DEF GetOrderRequestDetail
<1>6. CASE GetOrderDetail(c)
  BY <1>1, <1>3, <1>6 DEF GetOrderDetail
<1> QED
  BY <1>4, <1>5, <1>6

\* The fee is added, or left out where the handler catches the error.
LEMMA FeeGood ==
  ASSUME PricingInv, NEW c \in Calls,
         RequestFee(c) \/ PurchaseFee(c) \/ SummaryFee(c)
  PROVE  Good(c)
<1>0. pc[c] = "fee" /\ local[c].kind \in Reading /\ DOMAIN local[c] = Fields
  BY DEF RequestFee, PurchaseFee, SummaryFee, FeeRead, FeeLost, PricingInv, Shape, Reading
<1>1. CASE Refuse(c)
  BY <1>0, <1>1, Refused DEF RequestFee, PurchaseFee, SummaryFee
<1>2. ASSUME NEW total, NEW lost, NEW label \in {"store", "done"},
             Hold(c, [local[c] EXCEPT !.total = total, !.lost = lost]),
             Goto(c, label), UNCHANGED <<history, zone, requests, orders>>,
             label = "store" => local[c].kind \in {"request", "purchase"},
             label = "done" => local[c].kind = "summary",
             ~lost => total = ItemTotal(c) + Fee(ItemTotal(c)),
             local[c].kind = "request" => lost = local[c].lost
      PROVE  Good(c)
  <2> DEFINE l == [local[c] EXCEPT !.total = total, !.lost = lost]
  <2>1. /\ DOMAIN l = Fields /\ l.kind = local[c].kind /\ l.at = local[c].at
        /\ l.lines = local[c].lines /\ l.total = total /\ l.lost = lost
    BY <1>0 DEF Fields
  <2> HIDE DEF l
  <2>2. local'[c] = l
    BY <1>2 DEF Hold, PricingInv, Shape, l
  <2>3. /\ Shape' /\ Moves(c) /\ pc'[c] = label
        /\ requests'[c] = None /\ orders'[c] = None
    BY <1>0, <1>2, <2>1, Private DEF Steps, l
  <2>4. Claims(c)
    BY DEF PricingInv
  <2>5. Place(c)' /\ Filed(c)' /\ Copied(c)'
    BY <1>0, <1>2, <2>1, <2>2, <2>3
       DEF Place, Filed, Copied, IsRequest, IsOrder, Reading
  <2>6. Due(c)'
    BY <1>0, <1>2, <2>1, <2>2, <2>4 DEF Claims, Due, Reading, ItemTotal, Fee
  <2>7. Drawn(c)'
    BY <1>2, <2>1, <2>2, <2>4 DEF Claims, Drawn, Priced, Now
  <2> QED
    BY <2>3, <2>5, <2>6, <2>7 DEF Good, Claims
<1>3. CASE FeeRead(c) /\ ~Refuse(c)
  <2>1. Hold(c, [local[c] EXCEPT !.total = ItemTotal(c) + Fee(ItemTotal(c)),
                                 !.lost = local[c].lost])
    <3>1. [local[c] EXCEPT !.total = ItemTotal(c) + Fee(ItemTotal(c))]
            = [local[c] EXCEPT !.total = ItemTotal(c) + Fee(ItemTotal(c)),
                               !.lost = local[c].lost]
      BY <1>0 DEF Fields
    <3> QED
      BY <1>3, <3>1 DEF FeeRead, Hold
  <2>3. CASE RequestFee(c)
    <3>1. /\ Goto(c, "store") /\ local[c].kind = "request"
          /\ UNCHANGED <<history, zone, requests, orders>>
      BY <1>3, <2>3 DEF RequestFee
    <3> QED
      BY <1>2, <2>1, <3>1
  <2>4. CASE PurchaseFee(c)
    BY <1>2, <1>3, <2>1, <2>4 DEF PurchaseFee
  <2>5. CASE SummaryFee(c)
    BY <1>2, <1>3, <2>1, <2>5 DEF SummaryFee
  <2> QED
    BY <2>3, <2>4, <2>5
<1>4. CASE FeeLost(c) /\ ~RequestFee(c)
  <2>1. Hold(c, [local[c] EXCEPT !.total = ItemTotal(c), !.lost = TRUE])
    BY <1>4 DEF FeeLost, Hold
  <2>2. CASE PurchaseFee(c)
    BY <1>2, <2>1, <2>2 DEF PurchaseFee
  <2>3. CASE SummaryFee(c)
    BY <1>2, <2>1, <2>3 DEF SummaryFee
  <2> QED
    BY <1>4, <2>2, <2>3
<1> QED
  BY <1>1, <1>3, <1>4 DEF RequestFee, PurchaseFee, SummaryFee

\* A request or an order is stored as its call holds it.
LEMMA StoreGood ==
  ASSUME PricingInv, NEW c \in Calls, StoreRequest(c) \/ StoreOrder(c)
  PROVE  Good(c)
<1>0. Shape /\ Claims(c) /\ pc[c] = "store"
  BY DEF PricingInv, StoreRequest, StoreOrder
<1>1. /\ Goto(c, "done") /\ UNCHANGED <<history, zone, local>>
      /\ pc' \in [Calls -> Steps] /\ pc'[c] = "done"
      /\ \A d \in Calls \ {c} : pc'[d] = pc[d]
  BY <1>0 DEF StoreRequest, StoreOrder, Goto, Shape, Steps
<1>2. ASSUME DOMAIN requests' = Calls, DOMAIN orders' = Calls,
             \A d \in Calls \ {c} : orders'[d] = orders[d],
             \A d \in Calls \ {c} :
               \/ requests'[d] = requests[d]
               \/ IsRequest(d) /\ requests'[d] = [requests[d] EXCEPT !.status = "APPROVED"],
             Filed(c)', local[c].kind \in {"request", "purchase", "approve"}
      PROVE  Good(c)
  <2>1. Shape' /\ Moves(c)
    BY <1>0, <1>1, <1>2 DEF Shape, Moves, Now
  <2>2. Place(c)' /\ Drawn(c)' /\ Due(c)'
    BY <1>0, <1>1, <1>2 DEF Claims, Place, Drawn, Due, Priced, Now, Fee
  <2>3. Copied(c)'
    <3>1. \A d : IsRequest(d) => pc'[d] = "done"
      BY <1>1 DEF IsRequest
    <3> QED
      BY <1>0, <1>1, <1>2, <3>1 DEF Claims, Copied, IsRequest
  <2> QED
    BY <1>2, <2>1, <2>2, <2>3 DEF Good, Claims
<1>3. requests[c] = None /\ orders[c] = None
  BY <1>0 DEF Claims, Filed, IsRequest, IsOrder
<1>4. CASE StoreRequest(c)
  <2>1. PICK status \in {"PENDING", "APPROVED"} :
          requests' = [requests EXCEPT ![c] =
            [lines |-> local[c].lines, total |-> local[c].total, status |-> status]]
    BY <1>4 DEF StoreRequest
  <2>2. /\ local[c].kind = "request" /\ UNCHANGED orders
        /\ requests'[c] = [lines |-> local[c].lines, total |-> local[c].total,
                           status |-> status]
    BY <1>0, <1>4, <2>1 DEF StoreRequest, Shape
  <2>3. Filed(c)'
    BY <1>1, <1>3, <2>2 DEF Filed, IsRequest, IsOrder
  <2> QED
    BY <1>0, <1>2, <2>1, <2>2, <2>3 DEF Shape
<1>5. CASE StoreOrder(c)
  <2>1. /\ local[c].kind \in {"purchase", "approve"}
        /\ orders' = [orders EXCEPT ![c] = [lines |-> local[c].lines,
                                            total |-> local[c].total]]
    BY <1>5 DEF StoreOrder
  <2>2. \/ UNCHANGED requests
        \/ /\ IsRequest(local[c].of)
           /\ requests' = [requests EXCEPT ![local[c].of].status = "APPROVED"]
    BY <1>0, <1>5 DEF StoreOrder, Claims, Copied
  <2>3. /\ DOMAIN requests' = Calls
        /\ \A d \in Calls \ {c} :
             \/ requests'[d] = requests[d]
             \/ IsRequest(d) /\ requests'[d] = [requests[d] EXCEPT !.status = "APPROVED"]
        /\ requests'[c] = requests[c]
    <3>1. CASE UNCHANGED requests
      BY <1>0, <3>1 DEF Shape
    <3>2. CASE /\ IsRequest(local[c].of)
               /\ requests' = [requests EXCEPT ![local[c].of].status = "APPROVED"]
      BY <1>0, <3>2 DEF Shape, IsRequest
    <3> QED
      BY <2>2, <3>1, <3>2
  <2>4. DOMAIN orders' = Calls /\ \A d \in Calls \ {c} : orders'[d] = orders[d]
    BY <1>0, <2>1 DEF Shape
  <2>5. orders'[c] = [lines |-> local[c].lines, total |-> local[c].total]
    BY <1>0, <2>1 DEF Shape
  <2>6. Filed(c)'
    BY <1>1, <1>3, <2>1, <2>3, <2>5 DEF Filed, IsRequest, IsOrder
  <2> QED
    BY <1>2, <2>1, <2>3, <2>4, <2>6
<1> QED
  BY <1>4, <1>5

-----------------------------------------------------------------------------
(* The inductive invariant                                                  *)

LEMMA InitPricing == Init => PricingInv
<1> SUFFICES ASSUME Init PROVE PricingInv
  OBVIOUS
<1>1. Shape
  <2>1. PICK t \in Tables : history = <<t>>
    BY DEF Init, Tables
  <2>2. history \in Seq(Tables) /\ Now = 1
    BY <2>1 DEF Now
  <2>3. DOMAIN NoCall = Fields
    BY DEF NoCall, Fields
  <2> QED
    BY <2>2, <2>3 DEF Init, Shape, Steps
<1>2. ASSUME NEW c \in Calls PROVE Claims(c)
  <2>1. /\ pc[c] = "idle" /\ local[c].kind = "none"
        /\ requests[c] = None /\ orders[c] = None
    BY <1>2 DEF Init, NoCall
  <2> QED
    BY <2>1 DEF Claims, Place, Drawn, Due, Filed, Copied, IsRequest, IsOrder, Reading
<1> QED
  BY <1>1, <1>2 DEF PricingInv

LEMMA NextPricing == PricingInv /\ [Next]_vars => PricingInv'
<1> SUFFICES ASSUME PricingInv, [Next]_vars PROVE PricingInv'
  OBVIOUS
<1>1. CASE UNCHANGED vars
  <2>1. Shape'
    BY <1>1 DEF vars, PricingInv, Shape, Now
  <2>2. ASSUME NEW c \in Calls PROVE Claims(c)'
    <3>1. UNCHANGED <<history, zone, requests, orders, pc, local>> /\ Claims(c)
      BY <1>1 DEF vars, PricingInv
    <3>2. Place(c)' /\ Drawn(c)'
      BY <3>1 DEF Claims, Place, Drawn, Priced, Now
    <3>3. Due(c)'
      BY <3>1 DEF Claims, Due, Fee
    <3>4. Filed(c)'
      BY <3>1 DEF Claims, Filed, IsRequest, IsOrder
    <3>5. Copied(c)'
      BY <3>1 DEF Claims, Copied, IsRequest, IsOrder, Priced, Now
    <3> QED
      BY <3>2, <3>3, <3>4, <3>5 DEF Claims
  <2> QED
    BY <2>1, <2>2 DEF PricingInv
<1>2. ASSUME NEW c \in Calls, Good(c) PROVE PricingInv'
  <2>1. \A d \in Calls \ {c} : Claims(d)'
    BY <1>2, OthersKept DEF Good
  <2> QED
    BY <1>2, <2>1 DEF Good, PricingInv
<1>3. ASSUME NEW c \in Calls, GiveUp(c) PROVE Good(c)
  BY <1>3, Refused DEF GiveUp
<1> QED
  BY <1>1, <1>2, <1>3, ProductStep, FirstReads, CopyGood, FeeGood, StoreGood DEF Next

\* What every call holds, and what every stored row says, however prices change.
THEOREM Invariant == Spec => []PricingInv
  BY InitPricing, NextPricing, PTL DEF Spec

-----------------------------------------------------------------------------
(* Types                                                                    *)

\* What c holds and what its request says is of its type.
Typed(c) ==
  /\ local[c].lines \in Seq(Line) /\ local[c].total \in Int /\ local[c].at \in 0 .. Now
  /\ requests[c] # None => requests[c].status \in {"PENDING", "APPROVED"}

TypedInv == PricingInv /\ \A c \in Calls : Typed(c)

\* Any number of lines comes to a number.
LEMMA NetType ==
  ASSUME NEW lines \in Seq(Line)
  PROVE  Net(lines) \in Int
<1> DEFINE f == [i \in DOMAIN lines |-> lines[i].quantity * lines[i].price]
<1>1. IsFiniteSet(DOMAIN lines)
  <2>1. DOMAIN lines = 1 .. Len(lines) /\ Len(lines) \in Nat
    OBVIOUS
  <2> QED
    BY <2>1, FS_Interval
<1>2. ASSUME NEW i \in DOMAIN lines PROVE f[i] \in Int
  <2>1. lines[i].quantity \in Int /\ lines[i].price \in Int
    <3>1. lines[i] \in Line
      OBVIOUS
    <3>2. lines[i].quantity \in Int /\ lines[i].price \in Prices
      BY <3>1 DEF Line
    <3>3. lines[i].price \in Nat
      BY <3>2, AmountsAssumption
    <3> QED
      BY <3>2, <3>3
  <2>2. \A a, b \in Int : a * b \in Int
    OBVIOUS
  <2> QED
    BY <2>1, <2>2
<1>3. Net(lines) = SumFunctionOnSet(f, DOMAIN lines)
  BY DEF Net, SumFunction
<1> HIDE DEF f
<1> QED
  BY <1>1, <1>2, <1>3, SumType

LEMMA FeeType ==
  ASSUME NEW net \in Int
  PROVE  Fee(net) \in Int
  BY AmountsAssumption DEF Fee

\* Pricing a list of products and quantities makes lines of it.
LEMMA PricedType ==
  ASSUME Shape, NEW S, S \in {Line, [product : Products, quantity : Int]},
         NEW items \in Seq(S), NEW t \in 1 .. Now
  PROVE  Priced(items, t) \in Seq(Line)
<1>1. DOMAIN items = 1 .. Len(items) /\ Len(items) \in Nat
  OBVIOUS
<1>2. history[t] \in Tables
  BY DEF Shape, Now
<1>3. ASSUME NEW i \in DOMAIN items
      PROVE  [product |-> items[i].product, quantity |-> items[i].quantity,
              price |-> history[t][items[i].product].price] \in Line
  <2>1. items[i].product \in Products /\ items[i].quantity \in Int
    <3>1. items[i] \in S
      OBVIOUS
    <3>2. CASE S = Line
      BY <3>1, <3>2 DEF Line
    <3>3. CASE S = [product : Products, quantity : Int]
      BY <3>1, <3>3
    <3> QED
      BY <3>2, <3>3
  <2>2. history[t][items[i].product].price \in Prices
    BY <1>2, <2>1 DEF Tables
  <2> QED
    BY <2>1, <2>2 DEF Line
<1> QED
  BY <1>1, <1>3 DEF Priced

\* A stored request, and a stored order, hold what their call holds.
LEMMA StoredTyped ==
  ASSUME TypedInv, NEW r \in Calls
  PROVE  /\ requests[r] # None =>
              requests[r].lines \in Seq(Line) /\ requests[r].total \in Int /\ pc[r] = "done"
         /\ orders[r] # None =>
              orders[r].lines \in Seq(Line) /\ orders[r].total \in Int /\ pc[r] = "done"
<1>1. Typed(r) /\ Filed(r)
  BY DEF TypedInv, PricingInv, Claims
<1>2. ASSUME requests[r] # None
      PROVE  requests[r].lines \in Seq(Line) /\ requests[r].total \in Int /\ pc[r] = "done"
  <2>1. IsRequest(r)
    BY <1>1, <1>2 DEF Filed
  <2>2. requests[r] = [lines |-> local[r].lines, total |-> local[r].total,
                       status |-> requests[r].status]
    BY <1>1, <2>1 DEF Filed
  <2> QED
    BY <1>1, <2>1, <2>2 DEF Typed, IsRequest
<1>3. ASSUME orders[r] # None
      PROVE  orders[r].lines \in Seq(Line) /\ orders[r].total \in Int /\ pc[r] = "done"
  <2>1. IsOrder(r)
    BY <1>1, <1>3 DEF Filed
  <2>2. orders[r] = [lines |-> local[r].lines, total |-> local[r].total]
    BY <1>1, <2>1 DEF Filed
  <2> QED
    BY <1>1, <2>1, <2>2 DEF Typed, IsOrder
<1> QED
  BY <1>2, <1>3

\* What a handler comes to hold is of its type, whichever step it takes.
HoldsTyped(c) ==
  local'[c].lines \in Seq(Line) /\ local'[c].total \in Int /\ local'[c].at \in 0 .. Now

LEMMA ReadsTyped ==
  ASSUME TypedInv, NEW c \in Calls,
         CreateOrderRequest(c) \/ CreateOrder(c) \/ GetSummary(c)
  PROVE  HoldsTyped(c)
<1>0. Shape /\ Typed(c) /\ Now \in 1 .. Now
  BY DEF TypedInv, PricingInv, Shape
<1>1. CASE UNCHANGED local
  BY <1>0, <1>1 DEF HoldsTyped, Typed
<1>2. ASSUME NEW items \in Carts, NEW kind, Reads(c, kind, items)
      PROVE  HoldsTyped(c)
  <2> DEFINE lines == Priced(items, Now)
             l == [NoCall EXCEPT !.kind = kind, !.at = Now, !.lines = lines]
  <2>1. lines \in Seq(Line)
    BY <1>0, CartsAssumption, PricedType
  <2>2. l.lines = lines /\ l.at = Now /\ l.total = 0
    BY DEF NoCall
  <2>3. local'[c] = l
    BY <1>0, <1>2 DEF Reads, Hold, Shape
  <2> HIDE DEF l, lines
  <2> QED
    BY <1>0, <2>1, <2>2, <2>3 DEF HoldsTyped
<1> QED
  BY <1>1, <1>2 DEF CreateOrderRequest, CreateOrder, GetSummary, Refuse

LEMMA CopyTyped ==
  ASSUME TypedInv, NEW c \in Calls,
         ApproveOrderRequest(c) \/ GetOrderRequestDetail(c) \/ GetOrderDetail(c)
  PROVE  HoldsTyped(c)
<1>0. Shape /\ Now \in 1 .. Now
  BY DEF TypedInv, PricingInv, Shape
<1>1. ASSUME NEW kind, NEW of, NEW lines \in Seq(Line), NEW total \in Int,
             Hold(c, [NoCall EXCEPT !.kind = kind, !.at = Now, !.of = of, !.lines = lines,
                                    !.total = total])
      PROVE  HoldsTyped(c)
  <2> DEFINE l == [NoCall EXCEPT !.kind = kind, !.at = Now, !.of = of, !.lines = lines,
                                 !.total = total]
  <2>1. l.lines = lines /\ l.at = Now /\ l.total = total
    BY DEF NoCall
  <2>2. local'[c] = l
    BY <1>0, <1>1 DEF Hold, Shape
  <2> HIDE DEF l
  <2> QED
    BY <1>0, <2>1, <2>2 DEF HoldsTyped
<1>2. CASE ApproveOrderRequest(c)
  BY <1>1, <1>2, StoredTyped DEF ApproveOrderRequest
<1>3. CASE GetOrderRequestDetail(c)
  BY <1>0, <1>1, <1>3, StoredTyped, PricedType DEF GetOrderRequestDetail
<1>4. CASE GetOrderDetail(c)
  BY <1>1, <1>4, StoredTyped DEF GetOrderDetail
<1> QED
  BY <1>2, <1>3, <1>4

LEMMA FeeTyped ==
  ASSUME TypedInv, NEW c \in Calls,
         RequestFee(c) \/ PurchaseFee(c) \/ SummaryFee(c)
  PROVE  HoldsTyped(c)
<1>0. Shape /\ Typed(c) /\ DOMAIN local[c] = Fields
  BY DEF TypedInv, PricingInv, Shape
<1>1. CASE UNCHANGED local
  BY <1>0, <1>1 DEF HoldsTyped, Typed
<1>2. ItemTotal(c) \in Int /\ Fee(ItemTotal(c)) \in Int
  BY <1>0, NetType, FeeType DEF Typed, ItemTotal
<1>3. CASE FeeRead(c) \/ FeeLost(c)
  <2>1. PICK total, lost :
          /\ total \in Int
          /\ local' = [local EXCEPT ![c] = [local[c] EXCEPT !.total = total, !.lost = lost]]
    <3>1. CASE FeeRead(c)
      <4>1. local' = [local EXCEPT ![c] =
               [local[c] EXCEPT !.total = ItemTotal(c) + Fee(ItemTotal(c))]]
        BY <3>1 DEF FeeRead
      <4>2. [local[c] EXCEPT !.total = ItemTotal(c) + Fee(ItemTotal(c))]
              = [local[c] EXCEPT !.total = ItemTotal(c) + Fee(ItemTotal(c)),
                                 !.lost = local[c].lost]
        BY <1>0 DEF Fields
      <4>3. ItemTotal(c) + Fee(ItemTotal(c)) \in Int
        BY <1>2
      <4>4. local' = [local EXCEPT ![c] =
               [local[c] EXCEPT !.total = ItemTotal(c) + Fee(ItemTotal(c)),
                                !.lost = local[c].lost]]
        BY <4>1, <4>2
      <4> QED
        BY <4>3, <4>4
    <3>2. CASE FeeLost(c)
      <4>1. local' = [local EXCEPT ![c] =
               [local[c] EXCEPT !.total = ItemTotal(c), !.lost = TRUE]]
        BY <1>0, <3>2 DEF FeeLost, Shape
      <4> QED
        BY <1>2, <4>1
    <3> QED
      BY <1>3, <3>1, <3>2
  <2>2. local'[c] = [local[c] EXCEPT !.total = total, !.lost = lost]
    BY <1>0, <2>1 DEF Shape
  <2>3. /\ local'[c].total = total /\ local'[c].lines = local[c].lines
        /\ local'[c].at = local[c].at
    BY <1>0, <2>2 DEF Fields
  <2> QED
    BY <1>0, <2>1, <2>3 DEF HoldsTyped, Typed
<1> QED
  BY <1>1, <1>3 DEF RequestFee, PurchaseFee, SummaryFee, Refuse

\* A request is stored as pending or approved, and an approval makes it approved.
LEMMA StatusTyped ==
  ASSUME TypedInv, NEW c \in Calls, Good(c), NEW d \in Calls, requests'[d] # None,
         \/ UNCHANGED requests
         \/ StoreRequest(c) \/ StoreOrder(c)
  PROVE  requests'[d].status \in {"PENDING", "APPROVED"}
<1>0. Shape /\ Typed(d) /\ Filed(d)
  BY DEF TypedInv, PricingInv, Claims
<1>1. CASE requests'[d] = requests[d]
  BY <1>0, <1>1 DEF Typed
<1>2. ASSUME IsRequest(d), requests'[d] = [requests[d] EXCEPT !.status = "APPROVED"]
      PROVE  requests'[d].status \in {"PENDING", "APPROVED"}
  <2>1. requests[d] = [lines |-> local[d].lines, total |-> local[d].total,
                       status |-> requests[d].status]
    BY <1>0, <1>2 DEF Filed
  <2>2. requests'[d].status = "APPROVED"
    BY <1>2, <2>1
  <2> QED
    BY <2>2
<1>3. CASE d # c
  BY <1>1, <1>2, <1>3 DEF Good, Moves
<1>4. CASE d = c /\ StoreRequest(c)
  BY <1>0, <1>4 DEF StoreRequest, Shape
<1>5. CASE d = c /\ StoreOrder(c)
  <2>1. pc[c] = "store" /\ (local[c].kind = "approve" => IsRequest(local[c].of))
    BY <1>5 DEF StoreOrder, TypedInv, PricingInv, Claims, Copied
  <2>2. local[c].kind = "approve" => local[c].of # c
    BY <2>1 DEF IsRequest
  <2>3. requests'[c] = requests[c]
    BY <1>0, <1>5, <2>2 DEF StoreOrder, Shape
  <2> QED
    BY <1>1, <1>5, <2>3
<1> QED
  BY <1>1, <1>3, <1>4, <1>5

LEMMA NextTyped == TypedInv /\ [Next]_vars => TypedInv'
<1> SUFFICES ASSUME TypedInv, [Next]_vars PROVE TypedInv'
  OBVIOUS
<1>0. PricingInv /\ PricingInv' /\ Shape /\ \A c \in Calls : Typed(c)
  BY NextPricing DEF TypedInv, PricingInv
<1>1. CASE UNCHANGED vars
  BY <1>0, <1>1 DEF vars, TypedInv, Typed, Now
<1>2. ASSUME NEW p \in Products, UpdateProduct(p) \/ DeleteProduct(p) PROVE TypedInv'
  <2>1. UNCHANGED <<requests, local>> /\ \E x : history' = Append(history, x)
    BY <1>2 DEF UpdateProduct, DeleteProduct, Change
  <2>2. Now \in Nat /\ Now' = Now + 1
    BY <1>0, <2>1 DEF Shape, Now
  <2> QED
    BY <1>0, <2>1, <2>2 DEF TypedInv, Typed
<1>3. ASSUME NEW c \in Calls, Good(c), HoldsTyped(c),
             UNCHANGED requests \/ StoreRequest(c) \/ StoreOrder(c)
      PROVE  TypedInv'
  <2>1. UNCHANGED history /\ \A d \in Calls \ {c} : local'[d] = local[d]
    BY <1>3 DEF Good, Moves
  <2>2. ASSUME NEW d \in Calls
        PROVE  local'[d].lines \in Seq(Line) /\ local'[d].total \in Int
               /\ local'[d].at \in 0 .. Now'
    BY <1>0, <1>3, <2>1 DEF Typed, HoldsTyped, Now
  <2> QED
    BY <1>0, <1>3, <2>2, StatusTyped DEF TypedInv, Typed
<1>4. ASSUME NEW c \in Calls,
             CreateOrderRequest(c) \/ CreateOrder(c) \/ GetSummary(c)
      PROVE  TypedInv'
  BY <1>0, <1>3, <1>4, FirstReads, ReadsTyped DEF CreateOrderRequest, CreateOrder, GetSummary
<1>5. ASSUME NEW c \in Calls,
             ApproveOrderRequest(c) \/ GetOrderRequestDetail(c) \/ GetOrderDetail(c)
      PROVE  TypedInv'
  BY <1>0, <1>3, <1>5, CopyGood, CopyTyped
     DEF ApproveOrderRequest, GetOrderRequestDetail, GetOrderDetail
<1>6. ASSUME NEW c \in Calls, RequestFee(c) \/ PurchaseFee(c) \/ SummaryFee(c)
      PROVE  TypedInv'
  BY <1>0, <1>3, <1>6, FeeGood, FeeTyped DEF RequestFee, PurchaseFee, SummaryFee
<1>7. ASSUME NEW c \in Calls, StoreRequest(c) \/ StoreOrder(c) PROVE TypedInv'
  <2>1. HoldsTyped(c)
    BY <1>0, <1>7 DEF StoreRequest, StoreOrder, HoldsTyped, Typed
  <2> QED
    BY <1>0, <1>3, <1>7, <2>1, StoreGood
<1>8. ASSUME NEW c \in Calls, GiveUp(c) PROVE TypedInv'
  <2>1. HoldsTyped(c) /\ Good(c)
    BY <1>0, <1>8, Refused DEF GiveUp, Refuse, HoldsTyped, Typed
  <2> QED
    BY <1>3, <1>8, <2>1 DEF GiveUp
<1> QED
  BY <1>1, <1>2, <1>4, <1>5, <1>6, <1>7, <1>8 DEF Next

LEMMA InitTyped == Init => TypedInv
<1> SUFFICES ASSUME Init PROVE TypedInv
  OBVIOUS
<1>1. PricingInv
  BY InitPricing
<1>2. ASSUME NEW c \in Calls PROVE Typed(c)
  <2>1. <<>> \in Seq(Line) /\ Now \in Nat
    BY <1>1 DEF PricingInv, Shape
  <2>2. requests[c] = None /\ local[c] = NoCall
    BY DEF Init
  <2> QED
    BY <2>1, <2>2 DEF Typed, NoCall
<1> QED
  BY <1>1, <1>2 DEF TypedInv

\* Every row and everything a handler holds is of its type; in particular the prices
\* of all lines are prices a product was given, whatever quantities were sent.
THEOREM TypeCorrect == Spec => []TypeOK
<1>1. TypedInv => TypeOK
  <2> SUFFICES ASSUME TypedInv PROVE TypeOK
    OBVIOUS
  <2>1. Shape /\ \A c \in Calls : Typed(c)
    BY DEF TypedInv, PricingInv
  <2>2. \A t \in 1 .. Now : history[t] \in [Products -> [price : Prices, live : BOOLEAN]]
    BY <2>1 DEF Shape, Now, Tables
  <2> QED
    BY <2>1, <2>2, StoredTyped DEF TypeOK, Typed, Shape, Steps, Lines
<1> QED
  BY <1>1, InitTyped, NextTyped, PTL DEF Spec

-----------------------------------------------------------------------------
(* The properties                                                           *)

\* Every order is billed at the prices of the moment its buyer asked for it,
\* and nobody buys what was not on sale, for every history of the products.
THEOREM OrdersAtAskedPrices == Spec => []PricesInForce
<1>1. ASSUME PricingInv, NEW c \in Calls, orders[c] # None,
             NEW i \in DOMAIN orders[c].lines
      PROVE  LET t == local[Asked(c)].at
                 l == orders[c].lines[i]
             IN /\ l.price = history[t][l.product].price
                /\ local[c].kind = "purchase" => history[t][l.product].live
  <2> DEFINE a == Asked(c)
  <2>1. Claims(c) /\ IsOrder(c) /\ orders[c].lines = local[c].lines
    <3>1. Filed(c) /\ Claims(c) /\ IsOrder(c)
      BY <1>1 DEF PricingInv, Claims, Filed
    <3>2. orders[c] = [lines |-> local[c].lines, total |-> local[c].total]
      BY <3>1 DEF Filed
    <3> QED
      BY <3>1, <3>2
  <2>2. /\ a \in Calls /\ local[a].kind \in Reading /\ local[a].lines = local[c].lines
        /\ local[c].kind = "purchase" => a = c
    BY <2>1 DEF Claims, Copied, IsOrder, IsRequest, Asked, Reading
  <2>3. Drawn(a)
    BY <1>1, <2>2 DEF PricingInv, Claims
  <2> DEFINE lines == local[a].lines  t == local[a].at
  <2>4. lines = Priced(lines, t) /\ i \in DOMAIN lines
    BY <1>1, <2>1, <2>2, <2>3 DEF Drawn
  <2>5. lines[i].price = history[t][lines[i].product].price
    BY <2>4, PricedProducts
  <2>6. local[c].kind = "purchase" => history[t][lines[i].product].live
    BY <2>2, <2>3, <2>4 DEF Drawn
  <2> QED
    BY <2>1, <2>2, <2>5, <2>6
<1>2. PricingInv => PricesInForce
  BY <1>1 DEF PricesInForce
<1> QED
  BY <1>2, Invariant, PTL

\* The total a summary quoted is charged, when the same lines are ordered and
\* no fee lookup failed: whatever the fees, the threshold and the prices are.
THEOREM QuotesHonoured == Spec => []QuoteHonoured
<1>1. PricingInv => QuoteHonoured
  BY DEF PricingInv, Claims, Due, QuoteHonoured, Reading
<1> QED
  BY <1>1, Invariant, PTL

\* Every order page adds up, and every request page whose products kept their
\* prices does.
THEOREM DetailsAddUp == Spec => []DetailAddsUp
<1>1. ASSUME PricingInv, NEW c \in Calls, pc[c] = "done", local[c].kind = "orderDetail",
             ~local[local[c].of].lost
      PROVE  local[c].total = Net(local[c].lines) + Fee(Net(local[c].lines))
  <2> DEFINE o == local[c].of
  <2>1. IsOrder(o) /\ local[c].lines = local[o].lines /\ local[c].total = local[o].total
    BY <1>1 DEF PricingInv, Claims, Copied
  <2>2. Due(o) /\ ~local[o].lost
    BY <1>1, <2>1 DEF PricingInv, Claims, IsOrder
  <2> QED
    BY <2>1, <2>2 DEF Due, IsOrder, Reading
<1>2. ASSUME PricingInv, NEW c \in Calls, pc[c] = "done", local[c].kind = "requestDetail",
             ~Repriced(local[c].lines, local[local[c].of].at, local[c].at)
      PROVE  local[c].total = Net(local[c].lines) + Fee(Net(local[c].lines))
  <2> DEFINE r == local[c].of  from == local[r].at  to == local[c].at
             old == local[r].lines  new == local[c].lines
  <2>1. /\ IsRequest(r) /\ new = Priced(old, to) /\ local[c].total = local[r].total
        /\ from <= to /\ to \in 1 .. Now
    BY <1>2 DEF PricingInv, Claims, Copied
  <2>2. Drawn(r) /\ Due(r)
    BY <1>2, <2>1 DEF PricingInv, Claims, IsRequest
  <2>3. old = Priced(old, from) /\ from \in 1 .. Now
    BY <2>1, <2>2 DEF Drawn, IsRequest, Reading
  <2>4. ASSUME NEW i \in DOMAIN old
        PROVE  history[to][old[i].product].price = history[from][old[i].product].price
    <3>1. i \in DOMAIN new /\ new[i].product = old[i].product
      BY <2>1, <2>4, PricedProducts
    <3>2. to \in from .. to
      BY <2>1, <2>3 DEF Shape, PricingInv
    <3> QED
      BY <1>2, <3>1, <3>2 DEF Repriced
  <2>5. Priced(old, to) = Priced(old, from)
    BY <2>4 DEF Priced
  <2>6. new = old
    BY <2>1, <2>3, <2>5
  <2> QED
    BY <2>1, <2>2, <2>6 DEF Due, IsRequest, Reading
<1>3. PricingInv => DetailAddsUp
  BY <1>1, <1>2 DEF DetailAddsUp
<1> QED
  BY <1>3, Invariant, PTL
=============================================================================
