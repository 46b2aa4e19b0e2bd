-------------------------- MODULE PricingProperties --------------------------
(* What the amounts that are quoted, stored and shown have to do with each   *)
(* other.                                                                    *)
EXTENDS Pricing

Line == [product : Products, quantity : Int, price : Prices]
Lines(l) == l \in Seq(Line)

\* Every row and every local variable has its type: a price that is stored or
\* shown is one a product has been given, and no call that gave up has a row.
TypeOK ==
  /\ \A t \in 1 .. Now :
       history[t] \in [Products -> [price : Prices, live : BOOLEAN]]
  /\ \A c \in Calls : requests[c] # None =>
       /\ Lines(requests[c].lines) /\ requests[c].total \in Int
       /\ requests[c].status \in {"PENDING", "APPROVED"}
       /\ pc[c] = "done"
  /\ \A c \in Calls : orders[c] # None =>
       Lines(orders[c].lines) /\ orders[c].total \in Int /\ pc[c] = "done"
  /\ pc \in [Calls -> {"idle", "fee", "store", "done", "failed"}]
  /\ \A c \in Calls : /\ Lines(local[c].lines) /\ local[c].total \in Int
                      /\ local[c].at \in 0 .. Now

\* The order of c, or the request it was approved from.
Asked(c) == IF local[c].kind = "approve" THEN local[c].of ELSE c

\* All prices of an order were in force at one moment: the one at which its
\* buyer asked for it, however long the approval took.  What an administrator
\* buys was on sale at that moment (createOrder, approveOrderRequest).
PricesInForce ==
  \A c \in Calls : orders[c] # None =>
    LET t == local[Asked(c)].at
    IN \A i \in DOMAIN orders[c].lines :
         LET l == orders[c].lines[i]
         IN /\ l.price = history[t][l.product].price
            /\ local[c].kind = "purchase" => history[t][l.product].live

\* What a summary quoted is what a request or a purchase of the same items at
\* the same prices comes to, unless a fee lookup failed
\* (getSummaryBySelectedItems, createOrderRequest, createOrder).
QuoteHonoured ==
  \A s, c \in Calls :
    /\ local[s].kind = "summary" /\ pc[s] = "done" /\ ~local[s].lost
    /\ local[c].kind \in {"request", "purchase"}
    /\ pc[c] \in {"store", "done"} /\ ~local[c].lost
    /\ local[s].lines = local[c].lines
    => local[s].total = local[c].total

\* A product of these lines has had another price between two moments.
Repriced(lines, from, to) ==
  \E t \in from .. to : \E i \in DOMAIN lines :
    history[t][lines[i].product].price # history[from][lines[i].product].price

\* A detail page adds up: the prices it shows and the fee make the total it
\* shows.  An order's does whatever has become of the products; a request's
\* does as long as none of its products was repriced since it was made.
DetailAddsUp ==
  \A c \in Calls :
    /\ pc[c] = "done"
    /\ \/ local[c].kind = "orderDetail" /\ ~local[local[c].of].lost
       \/ /\ local[c].kind = "requestDetail"
          /\ ~Repriced(local[c].lines, local[local[c].of].at, local[c].at)
    => local[c].total = Net(local[c].lines) + Fee(Net(local[c].lines))
=============================================================================
