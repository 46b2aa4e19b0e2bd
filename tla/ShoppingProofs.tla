--------------------------- MODULE ShoppingProofs ---------------------------
(***************************************************************************)
(* Proofs about Shopping, for every set of calls, users and quantities.    *)
(***************************************************************************)
EXTENDS ShoppingProperties, Sums, TLAPS

USE CallsAssumption, UsersAssumption, ScopeAssumption

LEMMA AnyAdminIsUser == AnyAdmin \in Users
  BY DEF AnyAdmin

-----------------------------------------------------------------------------
(* What holds of each call *)

Aimed == {"insertItem", "updateItem", "setItem", "wish", "unwish", "update", "delete"}

\* Which handler stands at which label, and at what it aims.
Place(c) ==
    /\ pc[c] = "idle" => local[c].kind = "none"
    /\ Active(c) => (local[c].kind = "toggle" <=> pc[c] \in {"wish", "unwish"})
    /\ Active(c) => (local[c].kind = "move" <=> pc[c] \in {"insertMoved", "deleteMoved"})
    /\ pc[c] \in Aimed => \E p \in Calls : local[c].about = {p}

\* A product is inserted by the last step of its call; an image in the bucket belongs to a
\* product, to a handler that still has to insert or to remove, or to one that could not.
Stored(c) ==
    /\ Exists(c) => pc[c] = "done"
    /\ c \in bucket =>
          Exists(c) \/ pc[c] \in {"insertProduct", "unlink", "leaked", "crashed"}
    /\ Exists(c) /\ products[c].image => c \in bucket

\* Somebody has taken something out of u's cart.
Emptier(u) ==
    \E d \in Calls : local[d].kind \in {"remove", "clear"} /\ local[d].user = u /\ pc[d] = "done"

\* A move that is about to delete its wishes has put them into the cart.
Delivered(c) ==
    pc[c] = "deleteMoved" =>
        \A p \in local[c].about : InCart(local[c].user, p) \/ Emptier(local[c].user)

\* The wishlist shows the parity of the toggles, of which there are finitely many.
Counted(u, p) ==
    /\ IsFiniteSet(TogglesOf(u, p))
    /\ MovesOf(u, p) = {} => (<<u, p>> \in wishes <=> Cardinality(TogglesOf(u, p)) % 2 = 1)

\* The properties are not inductive: they follow from what each handler has done when it
\* reaches its label.
ShoppingInv ==
    /\ TypeOK
    /\ \A c \in Calls : Place(c) /\ Stored(c) /\ Delivered(c)
    /\ \A u \in Users, p \in Calls : Counted(u, p)

-----------------------------------------------------------------------------
(* The two kinds of steps, without their details *)

\* A call that arrives: what it reads, its label, and the little it may write.
Arrival(c, u, l, label) ==
    /\ Arrive(c, l, label)
    /\ l.user = u
    /\ UNCHANGED <<products, wishes>>
    /\ \/ UNCHANGED bucket
       \/ bucket' = bucket \cup {c} /\ label = "insertProduct"
    /\ \/ UNCHANGED items
       \/ /\ l.kind \in {"remove", "clear"} /\ label = "done"
          /\ \E S \in SUBSET Calls : items' = Emptied(u, S)
    /\ label \notin {"idle", "deleteMoved"}
    /\ label \in Aimed => \E p \in Calls : l.about = {p}
    /\ label \notin Finished =>
          /\ l.kind = "toggle" <=> label \in {"wish", "unwish"}
          /\ l.kind = "move" <=> label = "insertMoved"
    /\ l.kind = "toggle" => label # "done"
    /\ l.kind = "move" => l.quantity = 1
    /\ label = "updateItem" => l.kind = "add"
    /\ label = "setItem" => l.kind = "set"
    /\ label \in {"updateItem", "setItem"} =>
          \A p \in l.about : /\ InCart(u, p) /\ l.row = items[<<u, p>>].id
                             /\ l.before = items[<<u, p>>].quantity

\* The rows of a cart and the locals a handler starts with have their types.
LEMMA LocalsType ==
    ASSUME TypeOK, NEW kind \in Kinds, NEW u \in Users, NEW S \in SUBSET Calls,
           NEW item \in Item, NEW q \in Int
    PROVE  Locals(kind, u, S, item, q) \in Local
  BY DEF Locals, Local, Item

LEMMA NoItemType == NoItem \in Item
  BY DEF NoItem, Item

\* Every first step is an arrival.
LEMMA ReadArrives ==
    ASSUME TypeOK, NEW c \in Calls, NEW u \in Users, Read(c, u)
    PROVE  \E l \in Local, label \in Labels : Arrival(c, u, l, label)
<1> USE NoItemType
<1>0. (\A p \in Calls : items[<<u, p>>] \in Item) /\ Quantities \subseteq Int
  BY ScopeAssumption DEF TypeOK
<1>1. ASSUME NEW p \in Calls, NEW q \in Quantities, AddRead(c, u, p, q)
      PROVE  \E l \in Local, label \in Labels : Arrival(c, u, l, label)
  <2> DEFINE l == Locals("add", u, {p}, items[<<u, p>>], q)
             label == IF InCart(u, p) THEN "updateItem" ELSE "insertItem"
  <2>1. l \in Local
    BY <1>0, LocalsType DEF Kinds
  <2>2. Arrival(c, u, l, label)
    BY <1>1 DEF AddRead, Arrival, Locals, catalogue, Finished, Aimed
  <2> QED
    BY <2>1, <2>2 DEF Labels
<1>2. ASSUME NEW p \in Calls, NEW q \in Quantities, SetRead(c, u, p, q)
      PROVE  \E l \in Local, label \in Labels : Arrival(c, u, l, label)
  <2> DEFINE l == Locals("set", u, {p}, items[<<u, p>>], q)
  <2>1. l \in Local
    BY <1>0, LocalsType DEF Kinds
  <2>2. Arrival(c, u, l, "setItem")
    BY <1>2 DEF SetRead, Arrival, Locals, catalogue, Finished, Aimed
  <2> QED
    BY <2>1, <2>2 DEF Labels
<1>3. ASSUME NEW p \in Calls, ToggleRead(c, u, p)
      PROVE  \E l \in Local, label \in Labels : Arrival(c, u, l, label)
  <2> DEFINE l == Locals("toggle", u, {p}, NoItem, 0)
             label == IF <<u, p>> \in wishes THEN "unwish" ELSE "wish"
  <2>1. l \in Local
    BY LocalsType DEF Kinds
  <2>2. Arrival(c, u, l, label)
    BY <1>3 DEF ToggleRead, Arrival, Locals, catalogue, Finished, Aimed
  <2> QED
    BY <2>1, <2>2 DEF Labels
<1>4. ASSUME NEW p \in Calls, NEW kind \in {"update", "delete"}, ChangeRead(c, u, p, kind)
      PROVE  \E l \in Local, label \in Labels : Arrival(c, u, l, label)
  <2> DEFINE l == Locals(kind, u, {p}, NoItem, 0)
  <2>1. l \in Local
    BY LocalsType DEF Kinds
  <2>2. Arrival(c, u, l, kind)
    BY <1>4 DEF ChangeRead, Arrival, Locals, catalogue, Finished, Aimed
  <2> QED
    BY <2>1, <2>2 DEF Labels
<1>5. ASSUME NEW S \in SUBSET Calls, RemoveItems(c, u, S)
      PROVE  \E l \in Local, label \in Labels : Arrival(c, u, l, label)
  <2> DEFINE l == Locals("remove", u, S, NoItem, 0)
  <2>1. l \in Local
    BY LocalsType DEF Kinds
  <2>2. Arrival(c, u, l, "done")
    BY <1>5 DEF RemoveItems, Arrival, Locals, catalogue, Finished, Aimed
  <2> QED
    BY <2>1, <2>2 DEF Labels, Finished
<1>6. ASSUME ClearCart(c, u)
      PROVE  \E l \in Local, label \in Labels : Arrival(c, u, l, label)
  <2> DEFINE l == Locals("clear", u, Calls, NoItem, 0)
  <2>1. l \in Local
    BY LocalsType DEF Kinds
  <2>2. Arrival(c, u, l, "done")
    BY <1>6 DEF ClearCart, Arrival, Locals, catalogue, Finished, Aimed
  <2> QED
    BY <2>1, <2>2 DEF Labels, Finished
<1>7. ASSUME NEW S \in SUBSET Calls, MoveRead(c, u, S)
      PROVE  \E l \in Local, label \in Labels : Arrival(c, u, l, label)
  <2> DEFINE moving == {p \in S : ~InCart(u, p)}
             l == Locals("move", u, moving, NoItem, 1)
             label == IF moving = {} THEN "done" ELSE "insertMoved"
  <2>1. l \in Local
    BY LocalsType DEF Kinds
  <2>2. Arrival(c, u, l, label)
    BY <1>7 DEF MoveRead, Arrival, Locals, catalogue, Finished, Aimed
  <2> QED
    BY <2>1, <2>2 DEF Labels, Finished
<1>8. ASSUME (\E image \in BOOLEAN : Upload(c, u, image)) \/ UploadFailed(c, u)
      PROVE  \E l \in Local, label \in Labels : Arrival(c, u, l, label)
  <2> DEFINE l == Locals("create", u, {c}, NoItem, 0)
  <2>1. l \in Local
    BY LocalsType DEF Kinds
  <2>2. Arrival(c, u, l, "insertProduct") \/ Arrival(c, u, l, "failed")
    BY <1>8 DEF Upload, UploadFailed, Arrival, Locals, catalogue, Finished, Aimed
  <2> QED
    BY <2>1, <2>2 DEF Labels, Finished
<1> QED
  BY <1>1, <1>2, <1>3, <1>4, <1>5, <1>6, <1>7, <1>8 DEF Read

\* What an arrival does to the calls.
LEMMA ArrivalCalls ==
    ASSUME TypeOK, NEW c \in Calls, NEW u \in Users, NEW l \in Local, NEW label \in Labels,
           Arrival(c, u, l, label)
    PROVE  /\ pc[c] = "idle" /\ pc'[c] = label /\ local'[c] = l
           /\ \A d \in Calls \ {c} : pc'[d] = pc[d] /\ local'[d] = local[d]
           /\ pc' \in [Calls -> Labels] /\ local' \in [Calls -> Local]
  BY DEF Arrival, Arrive, TypeOK

\* How a handler goes on: the labels between which it may step.
Onward(from, to) ==
    \/ to = from
    \/ to \in {"done", "failed", "leaked"}
    \/ from = "insertMoved" /\ to = "deleteMoved"
    \/ from = "insertProduct" /\ to = "unlink"

LEMMA StepCalls ==
    ASSUME TypeOK, NEW c \in Calls, NEW from, NEW to \in Labels, Step(c, from, to)
    PROVE  /\ pc[c] = from /\ pc'[c] = to /\ UNCHANGED local
           /\ \A d \in Calls \ {c} : pc'[d] = pc[d]
           /\ pc' \in [Calls -> Labels]
  BY DEF Step, TypeOK

\* What every further step does to the calls.
LEMMA ContinueCalls ==
    ASSUME TypeOK, NEW c \in Calls, Continue(c)
    PROVE  /\ Onward(pc[c], pc'[c]) /\ UNCHANGED local
           /\ pc[c] \in Finished => pc'[c] = pc[c]
           /\ \A d \in Calls \ {c} : pc'[d] = pc[d]
           /\ pc' \in [Calls -> Labels]
<1>1. ASSUME NEW from \in Labels, NEW to \in Labels, Step(c, from, to),
             from \notin Finished, Onward(from, to)
      PROVE  /\ Onward(pc[c], pc'[c]) /\ UNCHANGED local
             /\ pc[c] \in Finished => pc'[c] = pc[c]
             /\ \A d \in Calls \ {c} : pc'[d] = pc[d]
             /\ pc' \in [Calls -> Labels]
  BY <1>1, StepCalls DEF Finished
<1>2. CASE TransactionLost(c)
  BY <1>2 DEF TransactionLost, Onward, TypeOK
<1>3. CASE InsertItem(c) \/ ItemClash(c) \/ UpdateItem(c) \/ ItemGone(c) \/ SetItem(c)
  BY <1>1, <1>3 DEF InsertItem, ItemClash, UpdateItem, ItemGone, SetItem, Onward, Labels, Finished
<1>4. CASE AddWish(c) \/ RemoveWish(c) \/ WishClash(c)
  BY <1>1, <1>4 DEF AddWish, RemoveWish, WishClash, Onward, Labels, Finished
<1>5. CASE InsertMoved(c) \/ MoveRefused(c) \/ DeleteMoved(c)
  BY <1>1, <1>5 DEF InsertMoved, MoveRefused, DeleteMoved, Onward, Labels, Finished
<1>6. CASE InsertProduct(c) \/ InsertFailed(c) \/ Unlink(c) \/ UnlinkFailed(c)
  BY <1>1, <1>6 DEF InsertProduct, InsertFailed, Unlink, UnlinkFailed, Onward, Labels, Finished
<1>7. CASE UpdateProduct(c) \/ DeleteProduct(c) \/ ProductGone(c) \/ Abandon(c)
  BY <1>1, <1>7 DEF UpdateProduct, DeleteProduct, ProductGone, Abandon, Onward, Labels, Finished
<1> QED
  BY <1>2, <1>3, <1>4, <1>5, <1>6, <1>7 DEF Continue

LEMMA CrashCalls ==
    ASSUME TypeOK, Crash
    PROVE  /\ UNCHANGED <<catalogue, items, wishes, local>>
           /\ \A d \in Calls : pc'[d] = IF Active(d) THEN "crashed" ELSE pc[d]
           /\ pc' \in [Calls -> Labels]
  BY DEF Crash, TypeOK, Labels, Finished

-----------------------------------------------------------------------------
(* Types *)

\* A call that aims at a product has it for ProductOf.
LEMMA AimType ==
    ASSUME TypeOK, NEW c \in Calls, Place(c), pc[c] \in Aimed
    PROVE  ProductOf(c) \in Calls /\ local[c].about = {ProductOf(c)}
  BY DEF Place, ProductOf

LEMMA InitType == Init => TypeOK
<1> SUFFICES ASSUME Init PROVE TypeOK
  OBVIOUS
<1> USE AnyAdminIsUser
<1>1. NoProduct \in Product /\ Seeded \in Product
  BY DEF NoProduct, Seeded, Product
<1>2. NoItem \in Item
  BY NoItemType
<1>3. \A c \in Calls : Locals("none", AnyAdmin, {c}, NoItem, 0) \in Local
  BY DEF Locals, Local, NoItem
<1>4. products \in [Calls -> Product]
  BY <1>1 DEF Init
<1>5. items \in [Users \X Calls -> Item]
  BY <1>2 DEF Init
<1>6. local \in [Calls -> Local]
  BY <1>3 DEF Init
<1> QED
  BY <1>4, <1>5, <1>6 DEF Init, TypeOK, Labels, Finished

\* A write puts an item into one row of a cart.
LEMMA WriteType ==
    ASSUME TypeOK, NEW u \in Users, NEW p \in Calls, NEW id \in Calls \cup {None},
           NEW q \in Int, Write(u, p, id, q)
    PROVE  items' \in [Users \X Calls -> Item]
<1>1. [id |-> id, quantity |-> q] \in Item
  BY DEF Write, Item
<1> QED
  BY <1>1 DEF Write, TypeOK

LEMMA EmptiedType ==
    ASSUME TypeOK, NEW u \in Users, NEW S \in SUBSET Calls
    PROVE  /\ Emptied(u, S) \in [Users \X Calls -> Item]
           /\ \A v \in Users, p \in Calls :
                 Emptied(u, S)[<<v, p>>] = IF v = u /\ p \in S THEN NoItem ELSE items[<<v, p>>]
<1>1. \A w \in Users \X Calls : items[w] \in Item
  BY DEF TypeOK
<1>2. Emptied(u, S) \in [Users \X Calls -> Item]
  BY <1>1, NoItemType DEF Emptied
<1>3. ASSUME NEW v \in Users, NEW p \in Calls
      PROVE  Emptied(u, S)[<<v, p>>] = IF v = u /\ p \in S THEN NoItem ELSE items[<<v, p>>]
  <2>1. <<v, p>> \in Users \X Calls /\ <<v, p>>[1] = v /\ <<v, p>>[2] = p
    OBVIOUS
  <2> QED
    BY <2>1 DEF Emptied
<1> QED
  BY <1>2, <1>3

LEMMA ArrivalType ==
    ASSUME TypeOK, NEW c \in Calls, NEW u \in Users, NEW l \in Local, NEW label \in Labels,
           Arrival(c, u, l, label)
    PROVE  TypeOK'
<1>1. items' \in [Users \X Calls -> Item]
  BY EmptiedType DEF Arrival, TypeOK
<1>2. open' \subseteq Calls
  BY DEF Arrival, Arrive, TypeOK
<1>3. bucket' \subseteq Calls
  BY DEF Arrival, TypeOK
<1> QED
  BY <1>1, <1>2, <1>3, ArrivalCalls DEF Arrival, TypeOK

LEMMA ContinueType ==
    ASSUME TypeOK, NEW c \in Calls, Continue(c), Place(c)
    PROVE  TypeOK'
<1> DEFINE u == local[c].user
           p == ProductOf(c)
<1>0. /\ local[c] \in Local /\ u \in Users /\ local[c].quantity \in Int
      /\ local[c].before \in Int /\ local[c].row \in Calls \cup {None}
      /\ local[c].about \subseteq Calls
  <2>1. local[c] \in Local
    BY DEF TypeOK
  <2> QED
    BY <2>1 DEF Local
<1>1. pc' \in [Calls -> Labels] /\ local' \in [Calls -> Local]
  BY ContinueCalls DEF TypeOK
<1>2. open' \subseteq Calls
  BY DEF TypeOK, Continue, InsertItem, ItemClash, UpdateItem, ItemGone, SetItem, AddWish,
         RemoveWish, WishClash, InsertMoved, MoveRefused, DeleteMoved, InsertProduct,
         InsertFailed, Unlink, UnlinkFailed, UpdateProduct, DeleteProduct, ProductGone,
         TransactionLost, Abandon, Step
<1>3. CASE UNCHANGED <<catalogue, items, wishes>>
  BY <1>1, <1>2, <1>3 DEF catalogue, TypeOK
<1>4. CASE InsertItem(c) \/ UpdateItem(c) \/ SetItem(c)
  <2>1. pc[c] \in Aimed
    BY <1>4 DEF InsertItem, UpdateItem, SetItem, Step, Aimed
  <2>2. p \in Calls
    BY <2>1, AimType
  <2> HIDE DEF u, p
  <2>3. \E id \in Calls \cup {None}, q \in Int : Write(u, p, id, q)
    BY <1>0, <1>4 DEF InsertItem, UpdateItem, SetItem, u, p
  <2>4. items' \in [Users \X Calls -> Item]
    BY <1>0, <2>2, <2>3, WriteType
  <2> QED
    BY <1>1, <1>2, <1>4, <2>4 DEF InsertItem, UpdateItem, SetItem, catalogue, TypeOK
<1>5. CASE AddWish(c) \/ RemoveWish(c) \/ DeleteMoved(c)
  <2>1. pc[c] \in {"wish", "unwish"} => p \in Calls
    BY AimType DEF Aimed
  <2>2. wishes' \subseteq Users \X Calls
    BY <1>0, <1>5, <2>1 DEF AddWish, RemoveWish, DeleteMoved, Wish, Step, TypeOK
  <2> QED
    BY <1>1, <1>2, <1>5, <2>2 DEF AddWish, RemoveWish, DeleteMoved, catalogue, TypeOK
<1>6. CASE InsertMoved(c)
  <2>1. [id |-> c, quantity |-> 1] \in Item
    BY DEF Item
  <2>2. \A v \in Users, q \in Calls : items[<<v, q>>] \in Item
    BY DEF TypeOK
  <2>3. items' \in [Users \X Calls -> Item]
    BY <1>6, <2>1, <2>2 DEF InsertMoved
  <2> QED
    BY <1>1, <1>2, <1>6, <2>3 DEF InsertMoved, catalogue, TypeOK
<1>7. CASE InsertProduct(c) \/ UpdateProduct(c) \/ DeleteProduct(c)
  <2>1. \A q \in Calls : products[q] \in Product
    BY DEF TypeOK
  <2>2. CASE InsertProduct(c)
    <3>1. [state |-> "LIVE", owner |-> u, image |-> c \in bucket, editor |-> None] \in Product
      BY <1>0 DEF Product
    <3>2. products' \in [Calls -> Product]
      BY <2>1, <2>2, <3>1 DEF InsertProduct, TypeOK
    <3> QED
      BY <1>1, <1>2, <2>2, <3>2 DEF InsertProduct, TypeOK
  <2>3. CASE UpdateProduct(c) \/ DeleteProduct(c)
    <3>1. p \in Calls
      BY <2>3, AimType DEF UpdateProduct, DeleteProduct, Step, Aimed
    <3>2. \A state \in {products[p].state, "DELETED"} :
             [products[p] EXCEPT !.state = state, !.editor = u] \in Product
      BY <1>0, <2>1, <3>1 DEF Product
    <3>3. [products[p] EXCEPT !.editor = u] \in Product
      BY <1>0, <2>1, <3>1 DEF Product
    <3> HIDE DEF u, p
    <3>4. CASE UpdateProduct(c)
      <4>1. products' = [products EXCEPT ![p] = [products[p] EXCEPT !.editor = u]]
        BY <3>4 DEF UpdateProduct, u, p
      <4>2. products' \in [Calls -> Product]
        BY <3>1, <3>3, <4>1 DEF TypeOK
      <4> QED
        BY <1>1, <1>2, <3>4, <4>2 DEF UpdateProduct, TypeOK
    <3>5. CASE DeleteProduct(c)
      <4>1. products' = [products EXCEPT ![p] =
                            [products[p] EXCEPT !.state = "DELETED", !.editor = u]]
        BY <3>1, <3>5 DEF DeleteProduct, TypeOK, u, p
      <4>2. products' \in [Calls -> Product]
        BY <3>1, <3>2, <4>1 DEF TypeOK
      <4> QED
        BY <1>1, <1>2, <3>5, <4>2 DEF DeleteProduct, TypeOK
    <3> QED
      BY <2>3, <3>4, <3>5
  <2> QED
    BY <1>7, <2>2, <2>3
<1>8. CASE Unlink(c)
  BY <1>1, <1>2, <1>8 DEF Unlink, TypeOK
<1> QED
  BY <1>3, <1>4, <1>5, <1>6, <1>7, <1>8
     DEF Continue, ItemClash, ItemGone, WishClash, MoveRefused, InsertFailed, UnlinkFailed,
         ProductGone, TransactionLost, Abandon

LEMMA NextType ==
    ASSUME ShoppingInv, [Next]_vars
    PROVE  TypeOK'
<1>1. ASSUME NEW c \in Calls, Continue(c) PROVE TypeOK'
  BY <1>1, ContinueType DEF ShoppingInv
<1>2. ASSUME NEW c \in Calls, NEW u \in Users, Read(c, u) PROVE TypeOK'
  BY <1>2, ReadArrives, ArrivalType DEF ShoppingInv
<1>3. CASE Crash
  BY <1>3, CrashCalls DEF ShoppingInv, TypeOK, Crash, catalogue
<1>4. CASE UNCHANGED vars
  BY <1>4 DEF ShoppingInv, TypeOK, vars
<1> QED
  BY <1>1, <1>2, <1>3, <1>4 DEF Next

-----------------------------------------------------------------------------
(* Labels and images *)

LEMMA NextPlace ==
    ASSUME ShoppingInv, [Next]_vars, NEW d \in Calls
    PROVE  Place(d)'
<1>0. TypeOK /\ Place(d)
  BY DEF ShoppingInv
<1>1. CASE pc'[d] = pc[d] /\ local'[d] = local[d]
  BY <1>0, <1>1 DEF Place, Active
<1>2. ASSUME NEW c \in Calls, Continue(c) PROVE Place(d)'
  <2>1. CASE d # c
    BY <1>0, <1>1, <1>2, <2>1, ContinueCalls
  <2>2. CASE d = c
    <3>1. Onward(pc[c], pc'[c]) /\ local'[c] = local[c]
      BY <1>0, <1>2, ContinueCalls
    <3>2. CASE pc'[c] \in {"done", "failed", "leaked"}
      BY <2>2, <3>2 DEF Place, Active, Finished, Aimed
    <3>3. CASE pc'[c] = pc[c]
      BY <1>1, <2>2, <3>1, <3>3
    <3>4. CASE \/ pc[c] = "insertMoved" /\ pc'[c] = "deleteMoved"
               \/ pc[c] = "insertProduct" /\ pc'[c] = "unlink"
      BY <1>0, <2>2, <3>1, <3>4 DEF Place, Active, Finished, Aimed
    <3> QED
      BY <3>1, <3>2, <3>3, <3>4 DEF Onward
  <2> QED
    BY <2>1, <2>2
<1>3. ASSUME NEW c \in Calls, NEW u \in Users, Read(c, u) PROVE Place(d)'
  <2> PICK l \in Local, label \in Labels : Arrival(c, u, l, label)
    BY <1>0, <1>3, ReadArrives
  <2>1. CASE d # c
    BY <1>0, <1>1, <2>1, ArrivalCalls
  <2>2. CASE d = c
    <3>1. pc'[d] = label /\ local'[d] = l
      BY <1>0, <2>2, ArrivalCalls
    <3> QED
      BY <3>1 DEF Arrival, Place, Active
  <2> QED
    BY <2>1, <2>2
<1>4. CASE Crash
  <2>1. CASE Active(d)
    BY <1>0, <1>4, <2>1, CrashCalls DEF Place, Active, Finished, Aimed
  <2>2. CASE ~Active(d)
    BY <1>0, <1>1, <1>4, <2>2, CrashCalls
  <2> QED
    BY <2>1, <2>2
<1>5. CASE UNCHANGED vars
  BY <1>1, <1>5 DEF vars
<1> QED
  BY <1>2, <1>3, <1>4, <1>5 DEF Next

\* Products come from the last step of their call and never disappear; only deleteProduct
\* and updateProduct write a row that is there, and neither writes its image.
LEMMA ProductsChange ==
    ASSUME ShoppingInv, NEW c \in Calls, Continue(c), NEW d \in Calls
    PROVE  \/ UNCHANGED products
           \/ InsertProduct(c) /\ (d # c => products'[d] = products[d])
           \/ /\ UNCHANGED bucket
              /\ products'[d].image = products[d].image
              /\ Exists(d) <=> Exists(d)'
<1>0. TypeOK /\ Place(c) /\ \A q \in Calls : products[q] \in Product
  BY DEF ShoppingInv, TypeOK
<1>1. CASE InsertProduct(c)
  BY <1>0, <1>1 DEF InsertProduct, TypeOK
<1>2. CASE UpdateProduct(c) \/ DeleteProduct(c)
  <2>1. ProductOf(c) \in Calls
    BY <1>0, <1>2, AimType DEF UpdateProduct, DeleteProduct, Step, Aimed
  <2> QED
    BY <1>0, <1>2, <2>1 DEF UpdateProduct, DeleteProduct, TypeOK, Product, Exists, Live
<1>3. CASE ~(InsertProduct(c) \/ UpdateProduct(c) \/ DeleteProduct(c))
  BY <1>3 DEF Continue, InsertItem, ItemClash, UpdateItem, ItemGone, SetItem, AddWish,
              RemoveWish, WishClash, InsertMoved, MoveRefused, DeleteMoved, InsertFailed,
              Unlink, UnlinkFailed, ProductGone, TransactionLost, Abandon, catalogue
<1> QED
  BY <1>1, <1>2, <1>3

LEMMA NextStored ==
    ASSUME ShoppingInv, [Next]_vars, NEW d \in Calls
    PROVE  Stored(d)'
<1>0. TypeOK /\ Place(d) /\ Stored(d)
  BY DEF ShoppingInv
<1>1. CASE UNCHANGED <<products, bucket>> /\ pc'[d] = pc[d]
  BY <1>0, <1>1 DEF Stored, Exists
<1>2. ASSUME NEW c \in Calls, Continue(c) PROVE Stored(d)'
  <2>0. /\ Onward(pc[c], pc'[c]) /\ (pc[c] \in Finished => pc'[c] = pc[c])
        /\ d # c => pc'[d] = pc[d]
    BY <1>0, <1>2, ContinueCalls
  <2>1. CASE InsertProduct(c)
    <3>1. CASE d = c
      BY <1>0, <2>1, <3>1 DEF InsertProduct, Step, Stored, Exists, TypeOK
    <3>2. CASE d # c
      <4>1. products'[d] = products[d] /\ UNCHANGED bucket
        BY <1>0, <2>1, <3>2 DEF InsertProduct, TypeOK
      <4> QED
        BY <1>0, <2>0, <3>2, <4>1 DEF Stored, Exists
    <3> QED
      BY <3>1, <3>2
  <2>2. CASE Unlink(c)
    BY <1>0, <2>0, <2>2 DEF Unlink, Step, Stored, Exists, TypeOK
  <2>3. CASE InsertFailed(c) \/ UnlinkFailed(c)
    BY <1>0, <2>0, <2>3 DEF InsertFailed, UnlinkFailed, Step, Stored, Exists, TypeOK, catalogue
  <2>4. CASE ~(InsertProduct(c) \/ InsertFailed(c) \/ Unlink(c) \/ UnlinkFailed(c))
    <3>1. UNCHANGED bucket /\ (Exists(d) <=> Exists(d)')
          /\ products'[d].image = products[d].image
      <4>1. UNCHANGED bucket
        BY <1>2, <2>4
           DEF Continue, InsertItem, ItemClash, UpdateItem, ItemGone, SetItem, AddWish,
               RemoveWish, WishClash, InsertMoved, MoveRefused, DeleteMoved, UpdateProduct,
               DeleteProduct, ProductGone, TransactionLost, Abandon, catalogue
      <4> QED
        BY <1>2, <2>4, <4>1, ProductsChange DEF Exists
    <3>2. pc[c] = pc'[c] \/ pc[c] \notin {"insertProduct", "unlink", "done", "leaked", "crashed"}
      <4>1. CASE InsertItem(c) \/ ItemClash(c) \/ UpdateItem(c) \/ ItemGone(c) \/ SetItem(c)
        BY <4>1 DEF InsertItem, ItemClash, UpdateItem, ItemGone, SetItem, Step
      <4>2. CASE AddWish(c) \/ RemoveWish(c) \/ WishClash(c) \/ Abandon(c)
        BY <4>2 DEF AddWish, RemoveWish, WishClash, Abandon, Step
      <4>3. CASE InsertMoved(c) \/ MoveRefused(c) \/ DeleteMoved(c)
        BY <4>3 DEF InsertMoved, MoveRefused, DeleteMoved, Step
      <4>4. CASE UpdateProduct(c) \/ DeleteProduct(c) \/ ProductGone(c) \/ TransactionLost(c)
        BY <4>4 DEF UpdateProduct, DeleteProduct, ProductGone, TransactionLost, Step
      <4> QED
        BY <1>2, <2>4, <4>1, <4>2, <4>3, <4>4 DEF Continue
    <3> QED
      BY <1>0, <2>0, <3>1, <3>2 DEF Stored
  <2> QED
    BY <2>1, <2>2, <2>3, <2>4
<1>3. ASSUME NEW c \in Calls, NEW u \in Users, Read(c, u) PROVE Stored(d)'
  <2> PICK l \in Local, label \in Labels : Arrival(c, u, l, label)
    BY <1>0, <1>3, ReadArrives
  <2>1. CASE d # c
    <3>1. pc'[d] = pc[d] /\ UNCHANGED products /\ (d \in bucket <=> d \in bucket')
      BY <1>0, <2>1, ArrivalCalls DEF Arrival
    <3> QED
      BY <1>0, <3>1 DEF Stored, Exists
  <2>2. CASE d = c
    <3>1. pc[d] = "idle" /\ pc'[d] = label /\ UNCHANGED products
      BY <1>0, <2>2, ArrivalCalls DEF Arrival
    <3>2. ~Exists(d) /\ d \notin bucket
      BY <1>0, <3>1 DEF Stored
    <3> QED
      BY <2>2, <3>1, <3>2 DEF Arrival, Stored, Exists
  <2> QED
    BY <2>1, <2>2
<1>4. CASE Crash
  BY <1>0, <1>4, CrashCalls DEF Stored, Exists, catalogue, Active, Finished
<1>5. CASE UNCHANGED vars
  BY <1>1, <1>5 DEF vars
<1> QED
  BY <1>2, <1>3, <1>4, <1>5 DEF Next

-----------------------------------------------------------------------------
(* Moves *)

\* Who has emptied a cart has emptied it.
LEMMA EmptierStays ==
    ASSUME ShoppingInv, [Next]_vars, NEW u \in Users, Emptier(u)
    PROVE  Emptier(u)'
<1> PICK d \in Calls : local[d].kind \in {"remove", "clear"} /\ local[d].user = u /\ pc[d] = "done"
  BY DEF Emptier
<1>0. TypeOK
  BY DEF ShoppingInv
<1>1. local'[d] = local[d] /\ pc'[d] = pc[d]
  <2>1. ASSUME NEW c \in Calls, Continue(c) PROVE local'[d] = local[d] /\ pc'[d] = pc[d]
    BY <1>0, <2>1, ContinueCalls DEF Finished
  <2>2. ASSUME NEW c \in Calls, NEW v \in Users, Read(c, v)
        PROVE  local'[d] = local[d] /\ pc'[d] = pc[d]
    BY <1>0, <2>2, ReadArrives, ArrivalCalls
  <2>3. CASE Crash
    BY <1>0, <2>3, CrashCalls DEF Active, Finished
  <2> QED
    BY <2>1, <2>2, <2>3 DEF Next, vars
<1> QED
  BY <1>1 DEF Emptier

\* Only an emptier takes a row out of a cart.
LEMMA RowsStay ==
    ASSUME ShoppingInv, [Next]_vars, NEW u \in Users, NEW p \in Calls, InCart(u, p)
    PROVE  InCart(u, p)' \/ Emptier(u)'
<1>0. TypeOK /\ items[<<u, p>>] \in Item /\ items[<<u, p>>].id # None
  BY DEF ShoppingInv, TypeOK, InCart
<1>1. CASE UNCHANGED items
  BY <1>0, <1>1 DEF InCart
<1>2. ASSUME NEW c \in Calls, Continue(c) PROVE InCart(u, p)'
  <2>1. CASE InsertItem(c) \/ UpdateItem(c) \/ SetItem(c)
    <3>0. Place(c) /\ pc[c] \in Aimed /\ local[c].user \in Users
      BY <2>1 DEF ShoppingInv, TypeOK, Local, InsertItem, UpdateItem, SetItem, Step, Aimed
    <3>1. ProductOf(c) \in Calls
      BY <1>0, <3>0, AimType
    <3>2. PICK id, q : /\ Write(local[c].user, ProductOf(c), id, q)
                       /\ id = c \/ id = items[<<local[c].user, ProductOf(c)>>].id
      BY <2>1 DEF InsertItem, UpdateItem, SetItem, RowThere
    <3>3. items'[<<u, p>>].id # None
      BY <1>0, <3>0, <3>1, <3>2 DEF Write, TypeOK
    <3> QED
      BY <3>3 DEF InCart
  <2>2. CASE InsertMoved(c)
    BY <1>0, <2>2 DEF InsertMoved, InCart
  <2>3. CASE UNCHANGED items
    BY <1>1, <2>3, <1>0 DEF InCart
  <2> QED
    BY <1>2, <2>1, <2>2, <2>3
       DEF Continue, ItemClash, ItemGone, AddWish, RemoveWish, WishClash, MoveRefused,
           DeleteMoved, InsertProduct, InsertFailed, Unlink, UnlinkFailed, UpdateProduct,
           DeleteProduct, ProductGone, TransactionLost, Abandon
<1>3. ASSUME NEW c \in Calls, NEW v \in Users, Read(c, v)
      PROVE  InCart(u, p)' \/ Emptier(u)'
  <2> PICK l \in Local, label \in Labels : Arrival(c, v, l, label)
    BY <1>0, <1>3, ReadArrives
  <2>1. pc'[c] = label /\ local'[c] = l
    BY <1>0, ArrivalCalls
  <2>2. CASE ~UNCHANGED items /\ v = u
    BY <2>1, <2>2 DEF Arrival, Emptier
  <2>3. CASE ~UNCHANGED items /\ v # u
    <3>1. items'[<<u, p>>] = items[<<u, p>>]
      BY <1>0, <2>3, EmptiedType DEF Arrival
    <3> QED
      BY <1>0, <3>1 DEF InCart
  <2> QED
    BY <1>1, <2>2, <2>3
<1>4. CASE Crash \/ UNCHANGED vars
  BY <1>1, <1>4 DEF Crash, vars
<1> QED
  BY <1>2, <1>3, <1>4 DEF Next

LEMMA NextDelivered ==
    ASSUME ShoppingInv, [Next]_vars, NEW d \in Calls
    PROVE  Delivered(d)'
<1>0. /\ TypeOK /\ Place(d) /\ Delivered(d)
      /\ local[d].user \in Users /\ local[d].about \subseteq Calls
  BY DEF ShoppingInv, TypeOK, Local
<1>1. CASE pc'[d] = pc[d] /\ local'[d] = local[d]
  <2>1. ASSUME NEW u \in Users, NEW p \in Calls, InCart(u, p) \/ Emptier(u)
        PROVE  InCart(u, p)' \/ Emptier(u)'
    BY <2>1, RowsStay, EmptierStays
  <2>2. SUFFICES ASSUME pc[d] = "deleteMoved", NEW p \in local[d].about,
                        NEW u \in Users, u = local[d].user
                 PROVE  InCart(u, p)' \/ Emptier(u)'
    BY <1>0, <1>1 DEF Delivered, InCart, Emptier
  <2> QED
    BY <1>0, <2>1, <2>2 DEF Delivered
<1>2. ASSUME NEW c \in Calls, Continue(c) PROVE Delivered(d)'
  <2>1. CASE d # c
    BY <1>0, <1>1, <1>2, <2>1, ContinueCalls
  <2>2. CASE d = c /\ InsertMoved(c)
    <3>1. \A p \in local[d].about : items'[<<local[d].user, p>>].id = c
      BY <1>0, <2>2 DEF InsertMoved
    <3>2. local'[d] = local[d]
      BY <2>2 DEF InsertMoved, Step
    <3> QED
      BY <3>1, <3>2 DEF Delivered, InCart
  <2>3. CASE d = c /\ ~InsertMoved(c)
    <3>1. pc'[c] # "deleteMoved"  \/ pc'[c] = pc[c]
      BY <1>0, <1>2, <2>3
         DEF Continue, InsertItem, ItemClash, UpdateItem, ItemGone, SetItem, AddWish,
             RemoveWish, WishClash, MoveRefused, DeleteMoved, InsertProduct, InsertFailed,
             Unlink, UnlinkFailed, UpdateProduct, DeleteProduct, ProductGone,
             TransactionLost, Abandon, Step, TypeOK
    <3>2. local'[c] = local[c]
      BY <1>0, <1>2, ContinueCalls
    <3> QED
      BY <1>1, <2>3, <3>1, <3>2 DEF Delivered
  <2> QED
    BY <2>1, <2>2, <2>3
<1>3. ASSUME NEW c \in Calls, NEW u \in Users, Read(c, u) PROVE Delivered(d)'
  <2> PICK l \in Local, label \in Labels : Arrival(c, u, l, label)
    BY <1>0, <1>3, ReadArrives
  <2>1. CASE d # c
    BY <1>0, <1>1, <2>1, ArrivalCalls
  <2>2. CASE d = c
    BY <1>0, <2>2, ArrivalCalls DEF Arrival, Delivered
  <2> QED
    BY <2>1, <2>2
<1>4. CASE Crash
  <2>1. CASE Active(d)
    BY <1>0, <1>4, <2>1, CrashCalls DEF Delivered
  <2>2. CASE ~Active(d)
    BY <1>0, <1>1, <1>4, <2>2, CrashCalls
  <2> QED
    BY <2>1, <2>2
<1>5. CASE UNCHANGED vars
  BY <1>1, <1>5 DEF vars
<1> QED
  BY <1>2, <1>3, <1>4, <1>5 DEF Next

-----------------------------------------------------------------------------
(* Toggles *)

\* Nothing is counted in a step that leaves the wish and the finished toggles as they are.
LEMMA SameCount ==
    ASSUME NEW u \in Users, NEW p \in Calls, Counted(u, p),
           TogglesOf(u, p)' = TogglesOf(u, p),
           MovesOf(u, p)' = {} => /\ MovesOf(u, p) = {}
                                  /\ <<u, p>> \in wishes' <=> <<u, p>> \in wishes
    PROVE  Counted(u, p)'
  BY DEF Counted

\* A finished toggle makes an even count odd and an odd one even.
LEMMA OneMore ==
    ASSUME NEW S, IsFiniteSet(S), NEW c, c \notin S
    PROVE  /\ IsFiniteSet(S \cup {c})
           /\ Cardinality(S \cup {c}) % 2 = 1 <=> Cardinality(S) % 2 # 1
<1>1. Cardinality(S) \in Nat
  BY FS_CardinalityType
<1>2. IsFiniteSet(S \cup {c}) /\ Cardinality(S \cup {c}) = Cardinality(S) + 1
  BY FS_AddElement
<1>3. \A n \in Nat : (n + 1) % 2 = 1 <=> n % 2 # 1
  OBVIOUS
<1> QED
  BY <1>1, <1>2, <1>3

\* AddWish and RemoveWish turn over the wish of their call and no other.
LEMMA ToggleCounts ==
    ASSUME ShoppingInv, NEW c \in Calls, AddWish(c) \/ RemoveWish(c),
           NEW u \in Users, NEW p \in Calls
    PROVE  Counted(u, p)'
<1> DEFINE q == ProductOf(c)
<1>0. TypeOK /\ Place(c) /\ Counted(u, p) /\ local[c].user \in Users
  BY DEF ShoppingInv, TypeOK, Local
<1>1. /\ pc[c] \in {"wish", "unwish"} /\ pc'[c] = "done" /\ UNCHANGED local
      /\ \A d \in Calls \ {c} : pc'[d] = pc[d]
  BY <1>0 DEF AddWish, RemoveWish, Step, TypeOK
<1>2. local[c].kind = "toggle" /\ q \in Calls /\ local[c].about = {q}
  BY <1>0, <1>1, AimType DEF Place, Aimed, Active, Finished
<1> HIDE DEF q
<1>3. MovesOf(u, p)' = MovesOf(u, p)
  BY <1>1 DEF MovesOf
<1>4. CASE local[c].user = u /\ q = p
  <2>1. TogglesOf(u, p)' = TogglesOf(u, p) \cup {c} /\ c \notin TogglesOf(u, p)
    BY <1>1, <1>2, <1>4 DEF TogglesOf
  <2>2. <<u, p>> \in wishes' <=> <<u, p>> \notin wishes
    BY <1>4 DEF AddWish, RemoveWish, Wish, q
  <2>3. IsFiniteSet(TogglesOf(u, p))
    BY <1>0 DEF Counted
  <2>4. /\ IsFiniteSet(TogglesOf(u, p)')
        /\ Cardinality(TogglesOf(u, p)') % 2 = 1 <=> Cardinality(TogglesOf(u, p)) % 2 # 1
    BY <2>1, <2>3, OneMore
  <2> QED
    BY <1>0, <1>3, <2>2, <2>4 DEF Counted
<1>5. CASE ~(local[c].user = u /\ q = p)
  <2>1. TogglesOf(u, p)' = TogglesOf(u, p)
    BY <1>1, <1>2, <1>5 DEF TogglesOf
  <2>2. <<u, p>> \in wishes' <=> <<u, p>> \in wishes
    BY <1>5 DEF AddWish, RemoveWish, Wish, q
  <2> QED
    BY <1>0, <1>3, <2>1, <2>2, SameCount
<1> QED
  BY <1>4, <1>5

LEMMA NextCounted ==
    ASSUME ShoppingInv, [Next]_vars, NEW u \in Users, NEW p \in Calls
    PROVE  Counted(u, p)'
<1>0. TypeOK /\ Counted(u, p) /\ \A c \in Calls : Place(c)
  BY DEF ShoppingInv
<1>1. ASSUME NEW c \in Calls, Continue(c) PROVE Counted(u, p)'
  <2>0. /\ Onward(pc[c], pc'[c]) /\ UNCHANGED local
        /\ pc[c] \in Finished => pc'[c] = pc[c]
        /\ \A d \in Calls \ {c} : pc'[d] = pc[d]
    BY <1>0, <1>1, ContinueCalls
  <2>1. CASE AddWish(c) \/ RemoveWish(c)
    BY <2>1, ToggleCounts
  <2>2. CASE ~(AddWish(c) \/ RemoveWish(c))
    <3>1. pc'[c] = "done" => pc[c] \notin {"wish", "unwish"}
      BY <1>0, <1>1, <2>2
         DEF Continue, InsertItem, ItemClash, UpdateItem, ItemGone, SetItem, WishClash,
             InsertMoved, MoveRefused, DeleteMoved, InsertProduct, InsertFailed, Unlink,
             UnlinkFailed, UpdateProduct, DeleteProduct, ProductGone, TransactionLost,
             Abandon, Step, TypeOK
    <3>2. local[c].kind = "toggle" => (pc'[c] = "done" <=> pc[c] = "done")
      BY <1>0, <2>0, <3>1 DEF Place, Active, Finished
    <3>3. TogglesOf(u, p)' = TogglesOf(u, p)
      BY <2>0, <3>2 DEF TogglesOf
    <3>4. MovesOf(u, p)' = MovesOf(u, p)
      BY <2>0 DEF MovesOf
    <3>5. CASE DeleteMoved(c)
      <4>1. local[c].kind = "move"
        BY <1>0, <3>5 DEF DeleteMoved, Step, Place, Active, Finished
      <4>2. local[c].user = u /\ p \in local[c].about => MovesOf(u, p) # {}
        BY <4>1 DEF MovesOf
      <4>3. MovesOf(u, p) = {} => (<<u, p>> \in wishes' <=> <<u, p>> \in wishes)
        BY <3>5, <4>2 DEF DeleteMoved
      <4> QED
        BY <1>0, <3>3, <3>4, <4>3, SameCount
    <3>6. CASE ~DeleteMoved(c)
      <4>1. UNCHANGED wishes
        BY <1>1, <2>2, <3>6
           DEF Continue, InsertItem, ItemClash, UpdateItem, ItemGone, SetItem, WishClash,
               InsertMoved, MoveRefused, InsertProduct, InsertFailed, Unlink, UnlinkFailed,
               UpdateProduct, DeleteProduct, ProductGone, TransactionLost, Abandon
      <4> QED
        BY <1>0, <3>3, <3>4, <4>1, SameCount
    <3> QED
      BY <3>5, <3>6
  <2> QED
    BY <2>1, <2>2
<1>2. ASSUME NEW c \in Calls, NEW v \in Users, Read(c, v) PROVE Counted(u, p)'
  <2> PICK l \in Local, label \in Labels : Arrival(c, v, l, label)
    BY <1>0, <1>2, ReadArrives
  <2>0. /\ pc[c] = "idle" /\ pc'[c] = label /\ local'[c] = l
        /\ \A d \in Calls \ {c} : pc'[d] = pc[d] /\ local'[d] = local[d]
    BY <1>0, ArrivalCalls
  <2>1. local[c].kind = "none"
    BY <1>0, <2>0 DEF Place
  <2>2. l.kind = "toggle" => label # "done"
    BY DEF Arrival
  <2>3. TogglesOf(u, p)' = TogglesOf(u, p)
    BY <2>0, <2>2 DEF TogglesOf
  <2>4. MovesOf(u, p) \subseteq MovesOf(u, p)'
    BY <2>0, <2>1 DEF MovesOf
  <2>5. UNCHANGED wishes
    BY DEF Arrival
  <2> QED
    BY <1>0, <2>3, <2>4, <2>5, SameCount
<1>3. CASE Crash
  <2>1. UNCHANGED <<wishes, local>> /\ \A d \in Calls : pc'[d] = "done" <=> pc[d] = "done"
    BY <1>0, <1>3, CrashCalls DEF Active, Finished
  <2>2. TogglesOf(u, p)' = TogglesOf(u, p) /\ MovesOf(u, p)' = MovesOf(u, p)
    BY <2>1 DEF TogglesOf, MovesOf
  <2> QED
    BY <1>0, <2>1, <2>2, SameCount
<1>4. CASE UNCHANGED vars
  BY <1>0, <1>4 DEF vars, Counted, TogglesOf, MovesOf
<1> QED
  BY <1>1, <1>2, <1>3, <1>4 DEF Next

-----------------------------------------------------------------------------
(* Carts *)

\* A call that may have inserted rows for p into u's cart.
Inserted(r, u, p) ==
    /\ pc[r] \in (Finished \ {"idle"}) \cup {"deleteMoved"}
    /\ local[r].user = u /\ p \in local[r].about

\* A row in a cart is that of a call, and holds no more than was asked for.
Held(u, p) ==
    \A r \in Calls : items[<<u, p>>].id = r =>
        Inserted(r, u, p) /\ items[<<u, p>>].quantity <= Supply(u, p, r)

\* A handler has read row r of u's cart for p; what it has read was asked for.
HasRead(c, u, p, r) ==
    /\ local[c].user = u /\ local[c].about = {p} /\ local[c].row = r
    /\ Inserted(r, u, p)
    /\ pc[c] = "updateItem" => local[c].kind = "add" /\ local[c].before <= Supply(u, p, r)
    /\ pc[c] = "setItem" => local[c].kind = "set"

Prepared(c) ==
    /\ pc[c] = "insertMoved" => local[c].quantity = 1
    /\ pc[c] \in {"updateItem", "setItem"} =>
          \E u \in Users, p \in Calls, r \in Calls : HasRead(c, u, p, r)

\* Supply only grows, also while a handler holds a quantity that has left the cart; and the
\* handler that then writes the row counts as one more of its writers.
CartInv ==
    /\ ShoppingInv
    /\ \A c \in Calls : Prepared(c)
    /\ \A u \in Users, p \in Calls : Held(u, p)
    /\ \A u \in Users, p \in Calls, r \in Calls : IsFiniteSet(WritersOf(u, p, r))

\* A call that has begun keeps its locals, and one that has ended stays ended.
LEMMA CallsGoOn ==
    ASSUME TypeOK, [Next]_vars, NEW d \in Calls, pc[d] # "idle"
    PROVE  /\ local'[d] = local[d]
           /\ pc[d] \in Finished => pc'[d] = pc[d]
           /\ pc[d] = "deleteMoved" =>
                 pc'[d] \in {"deleteMoved", "done", "failed", "leaked", "crashed"}
<1>1. ASSUME NEW c \in Calls, Continue(c), d = c
      PROVE  /\ local'[d] = local[d]
             /\ pc[d] \in Finished => pc'[d] = pc[d]
             /\ pc[d] = "deleteMoved" =>
                   pc'[d] \in {"deleteMoved", "done", "failed", "leaked", "crashed"}
  BY <1>1, ContinueCalls DEF Onward
<1>2. ASSUME NEW c \in Calls, Continue(c), d # c
      PROVE  local'[d] = local[d] /\ pc'[d] = pc[d]
  BY <1>2, ContinueCalls
<1>3. ASSUME NEW c \in Calls, NEW v \in Users, Read(c, v)
      PROVE  local'[d] = local[d] /\ pc'[d] = pc[d]
  BY <1>3, ReadArrives, ArrivalCalls
<1>4. CASE Crash
  BY <1>4, CrashCalls DEF Active, Finished
<1>5. CASE UNCHANGED vars
  BY <1>5 DEF vars
<1> QED
  BY <1>1, <1>2, <1>3, <1>4, <1>5 DEF Next

LEMMA InsertedStays ==
    ASSUME TypeOK, [Next]_vars, NEW u, NEW p, NEW r \in Calls, Inserted(r, u, p)
    PROVE  Inserted(r, u, p)'
  BY CallsGoOn DEF Inserted, Finished

\* A writer of a row that a call has begun to write remains one.
LEMMA WritersStay ==
    ASSUME TypeOK, [Next]_vars, NEW u, NEW p, NEW r \in Calls, pc[r] # "idle"
    PROVE  /\ WritersOf(u, p, r) \subseteq WritersOf(u, p, r)'
           /\ \A c \in WritersOf(u, p, r) : Asked'[c] = Asked[c]
  BY CallsGoOn DEF WritersOf, Asked, Finished

\* One step makes at most one more writer.
LEMMA WritersFinite ==
    ASSUME TypeOK, [Next]_vars, NEW u, NEW p, NEW r, IsFiniteSet(WritersOf(u, p, r))
    PROVE  IsFiniteSet(WritersOf(u, p, r)')
<1>1. ASSUME NEW c, WritersOf(u, p, r)' \subseteq WritersOf(u, p, r) \cup {c}
      PROVE  IsFiniteSet(WritersOf(u, p, r)')
  <2>1. IsFiniteSet(WritersOf(u, p, r) \cup {c})
    BY FS_AddElement
  <2> QED
    BY <1>1, <2>1, FS_Subset
<1>2. ASSUME NEW c \in Calls, Continue(c)
      PROVE  WritersOf(u, p, r)' \subseteq WritersOf(u, p, r) \cup {c}
  BY <1>2, ContinueCalls DEF WritersOf
<1>3. ASSUME NEW c \in Calls, NEW v \in Users, Read(c, v)
      PROVE  WritersOf(u, p, r)' \subseteq WritersOf(u, p, r) \cup {c}
  <2> PICK l \in Local, label \in Labels : Arrival(c, v, l, label)
    BY <1>3, ReadArrives
  <2> QED
    BY ArrivalCalls DEF WritersOf
<1>4. CASE Crash \/ UNCHANGED vars
  <2>1. UNCHANGED local /\ \A d \in Calls : pc'[d] = "done" <=> pc[d] = "done"
    BY <1>4, CrashCalls DEF Active, Finished, vars
  <2> QED
    BY <1>1, <2>1 DEF WritersOf
<1> QED
  BY <1>1, <1>2, <1>3, <1>4 DEF Next

LEMMA QuantityType ==
    ASSUME NEW l \in Local
    PROVE  l.quantity \in Int /\ l.before \in Int
  BY DEF Local

\* What a call can have added is a natural number and covers the quantity it sent.
LEMMA AskedType ==
    ASSUME TypeOK'
    PROVE  \A c \in Calls : Asked'[c] \in Nat /\ local'[c].quantity <= Asked'[c]
<1>1. \A c \in Calls : local'[c].quantity \in Int
  BY QuantityType DEF TypeOK
<1> QED
  BY <1>1 DEF Asked

\* Each writer has added no more than all of them together.
LEMMA WriterSupplies ==
    ASSUME TypeOK', NEW u, NEW p, NEW r, IsFiniteSet(WritersOf(u, p, r)'),
           NEW c \in WritersOf(u, p, r)'
    PROVE  local'[c].quantity <= Supply(u, p, r)'
<1>1. /\ \A d \in WritersOf(u, p, r)' : Asked'[d] \in Nat
      /\ local'[c].quantity <= Asked'[c] /\ local'[c].quantity \in Int
      /\ Supply(u, p, r)' \in Int
  <2>1. WritersOf(u, p, r)' \subseteq Calls
    BY DEF WritersOf
  <2>2. \A d \in Calls : Asked'[d] \in Nat /\ local'[d].quantity <= Asked'[d]
    BY AskedType
  <2>3. local'[c].quantity \in Int
    BY <2>1, QuantityType DEF TypeOK
  <2>4. Supply(u, p, r)' \in Nat
    <3>1. PICK T, g : T = WritersOf(u, p, r)' /\ g = Asked'
      OBVIOUS
    <3>2. SumFunctionOnSet(g, T) \in Nat
      BY <2>1, <2>2, <3>1, SumNat
    <3> QED
      BY <3>1, <3>2 DEF Supply
  <2> QED
    BY <2>1, <2>2, <2>3, <2>4
<1>2. PICK T, g : T = WritersOf(u, p, r)' /\ g = Asked'
  OBVIOUS
<1>3. Supply(u, p, r)' = SumFunctionOnSet(g, T)
  BY <1>2 DEF Supply
<1>4. g[c] <= SumFunctionOnSet(g, T)
  BY <1>1, <1>2, SumMember
<1> QED
  BY <1>1, <1>2, <1>3, <1>4

LEMMA SupplyGrows ==
    ASSUME ShoppingInv, [Next]_vars, NEW u, NEW p, NEW r \in Calls, pc[r] # "idle",
           IsFiniteSet(WritersOf(u, p, r))
    PROVE  /\ Supply(u, p, r) \in Nat /\ Supply(u, p, r)' \in Nat
           /\ Supply(u, p, r) <= Supply(u, p, r)'
<1>0. TypeOK /\ TypeOK' /\ IsFiniteSet(WritersOf(u, p, r)')
  BY NextType, WritersFinite DEF ShoppingInv
<1>1. PICK S, T, f, g : /\ S = WritersOf(u, p, r) /\ T = WritersOf(u, p, r)'
                        /\ f = Asked /\ g = Asked'
  OBVIOUS
<1>2. Supply(u, p, r) = SumFunctionOnSet(f, S) /\ Supply(u, p, r)' = SumFunctionOnSet(g, T)
  BY <1>1 DEF Supply
<1>3. S \in SUBSET T /\ \A c \in S : f[c] = g[c]
  BY <1>0, <1>1, WritersStay
<1>4. \A c \in T : g[c] \in Nat
  <2>1. \A c \in Calls : Asked'[c] \in Nat
    BY <1>0, AskedType
  <2> QED
    BY <1>1, <2>1 DEF WritersOf
<1>5. SumFunctionOnSet(f, S) = SumFunctionOnSet(g, S)
  BY <1>0, <1>1, <1>3, SumSame
<1>6. SumFunctionOnSet(g, S) <= SumFunctionOnSet(g, T)
  BY <1>0, <1>1, <1>3, <1>4, SumMono
<1>7. SumFunctionOnSet(g, S) \in Nat /\ SumFunctionOnSet(g, T) \in Nat
  BY <1>0, <1>1, <1>3, <1>4, SumNat
<1> QED
  BY <1>2, <1>5, <1>6, <1>7

\* A handler that writes the row it has read is a new writer of it.
LEMMA SupplyAdds ==
    ASSUME ShoppingInv, [Next]_vars, NEW u, NEW p, NEW r \in Calls, pc[r] # "idle",
           IsFiniteSet(WritersOf(u, p, r)), NEW c \in Calls,
           c \in WritersOf(u, p, r)', c \notin WritersOf(u, p, r)
    PROVE  Supply(u, p, r) + local'[c].quantity <= Supply(u, p, r)'
<1>0. TypeOK /\ TypeOK' /\ IsFiniteSet(WritersOf(u, p, r)')
  BY NextType, WritersFinite DEF ShoppingInv
<1>1. PICK S, T, f, g : /\ S = WritersOf(u, p, r) /\ T = WritersOf(u, p, r)'
                        /\ f = Asked /\ g = Asked'
  OBVIOUS
<1>2. Supply(u, p, r) = SumFunctionOnSet(f, S) /\ Supply(u, p, r)' = SumFunctionOnSet(g, T)
  BY <1>1 DEF Supply
<1>3. S \in SUBSET T /\ (\A d \in S : f[d] = g[d]) /\ c \in T /\ c \notin S
  BY <1>0, <1>1, WritersStay
<1>4. /\ \A d \in T : g[d] \in Nat
      /\ local'[c].quantity <= g[c] /\ local'[c].quantity \in Int
  <2>1. \A d \in Calls : Asked'[d] \in Nat /\ local'[d].quantity <= Asked'[d]
    BY <1>0, AskedType
  <2>2. local'[c].quantity \in Int
    BY <1>0, QuantityType DEF TypeOK
  <2> QED
    BY <1>1, <2>1, <2>2 DEF WritersOf
<1>5. SumFunctionOnSet(f, S) = SumFunctionOnSet(g, S)
  BY <1>0, <1>1, <1>3, SumSame
<1>6. SumFunctionOnSet(g, S \cup {c}) = SumFunctionOnSet(g, S) + g[c]
  <2>1. IsFiniteSet(S) /\ \A d \in S \cup {c} : g[d] \in Int
    BY <1>1, <1>3, <1>4
  <2> QED
    BY <1>3, <2>1, SumAdd
<1>7. SumFunctionOnSet(g, S \cup {c}) <= SumFunctionOnSet(g, T)
  BY <1>0, <1>1, <1>3, <1>4, SumMono
<1>8. SumFunctionOnSet(g, S) \in Nat /\ SumFunctionOnSet(g, T) \in Nat
  BY <1>0, <1>1, <1>3, <1>4, SumNat
<1>9. g[c] \in Nat
  BY <1>3, <1>4
<1> QED
  BY <1>2, <1>4, <1>5, <1>6, <1>7, <1>8, <1>9

\* What has been read stays covered.
LEMMA HasReadStays ==
    ASSUME CartInv, [Next]_vars, NEW d \in Calls, NEW u \in Users, NEW p \in Calls,
           NEW r \in Calls, HasRead(d, u, p, r), pc'[d] = pc[d], local'[d] = local[d]
    PROVE  HasRead(d, u, p, r)'
<1>0. TypeOK /\ ShoppingInv /\ IsFiniteSet(WritersOf(u, p, r)) /\ Inserted(r, u, p)
  BY DEF CartInv, ShoppingInv, HasRead
<1>1. Inserted(r, u, p)' /\ pc[r] # "idle"
  BY <1>0, InsertedStays DEF Inserted
<1>2. /\ Supply(u, p, r) \in Nat /\ Supply(u, p, r)' \in Nat
      /\ Supply(u, p, r) <= Supply(u, p, r)'
  BY <1>0, <1>1, SupplyGrows
<1>3. local[d].before \in Int
  BY <1>0, QuantityType DEF TypeOK
<1> QED
  BY <1>1, <1>2, <1>3 DEF HasRead

LEMMA NextPrepared ==
    ASSUME CartInv, [Next]_vars, NEW d \in Calls
    PROVE  Prepared(d)'
<1>0. TypeOK /\ ShoppingInv /\ Prepared(d)
  BY DEF CartInv, ShoppingInv
<1>1. CASE pc'[d] = pc[d] /\ local'[d] = local[d]
  BY <1>0, <1>1, HasReadStays DEF Prepared
<1>2. CASE pc'[d] \notin {"insertMoved", "updateItem", "setItem"}
  BY <1>2 DEF Prepared
<1>3. ASSUME NEW c \in Calls, Continue(c) PROVE Prepared(d)'
  <2>1. CASE d # c
    BY <1>0, <1>1, <1>3, <2>1, ContinueCalls
  <2>2. CASE d = c
    BY <1>0, <1>1, <1>2, <1>3, <2>2, ContinueCalls DEF Onward
  <2> QED
    BY <2>1, <2>2
<1>4. ASSUME NEW c \in Calls, NEW u \in Users, Read(c, u) PROVE Prepared(d)'
  <2> PICK l \in Local, label \in Labels : Arrival(c, u, l, label)
    BY <1>0, <1>4, ReadArrives
  <2>1. CASE d # c
    BY <1>0, <1>1, <2>1, ArrivalCalls
  <2>2. CASE d = c /\ label = "insertMoved"
    <3>1. pc'[d] = "insertMoved" /\ local'[d].quantity = 1
      BY <1>0, <2>2, ArrivalCalls DEF Arrival, Finished
    <3> QED
      BY <3>1 DEF Prepared
  <2>3. CASE d = c /\ label \in {"updateItem", "setItem"}
    <3>1. pc'[d] = label /\ local'[d] = l
      BY <1>0, <2>3, ArrivalCalls
    <3>2. PICK p \in Calls : /\ l.user = u /\ l.about = {p} /\ InCart(u, p)
                             /\ l.row = items[<<u, p>>].id
                             /\ l.before = items[<<u, p>>].quantity
                             /\ label = "updateItem" => l.kind = "add"
                             /\ label = "setItem" => l.kind = "set"
      BY <2>3 DEF Arrival, Aimed
    <3>3. PICK r \in Calls : r = l.row
      BY <1>0, <3>2 DEF TypeOK, Item, InCart
    <3>4. Inserted(r, u, p) /\ l.before <= Supply(u, p, r) /\ IsFiniteSet(WritersOf(u, p, r))
      BY <3>2, <3>3 DEF CartInv, Held
    <3>5. Inserted(r, u, p)' /\ pc[r] # "idle"
      BY <1>0, <3>4, InsertedStays DEF Inserted
    <3>6. /\ Supply(u, p, r) \in Nat /\ Supply(u, p, r)' \in Nat
          /\ Supply(u, p, r) <= Supply(u, p, r)'
      BY <1>0, <3>4, <3>5, SupplyGrows
    <3>7. l.before \in Int
      BY QuantityType
    <3>8. HasRead(d, u, p, r)'
      BY <3>1, <3>2, <3>3, <3>4, <3>5, <3>6, <3>7 DEF HasRead
    <3> QED
      BY <2>3, <3>1, <3>8 DEF Prepared
  <2>4. CASE d = c /\ label \notin {"insertMoved", "updateItem", "setItem"}
    BY <1>0, <1>2, <2>4, ArrivalCalls
  <2> QED
    BY <2>1, <2>2, <2>3, <2>4
<1>5. CASE Crash
  BY <1>0, <1>1, <1>2, <1>5, CrashCalls
<1>6. CASE UNCHANGED vars
  BY <1>1, <1>6 DEF vars
<1> QED
  BY <1>3, <1>4, <1>5, <1>6 DEF Next

\* A row that is not written stays covered.
LEMMA HeldStays ==
    ASSUME CartInv, [Next]_vars, NEW u \in Users, NEW p \in Calls,
           items'[<<u, p>>] = items[<<u, p>>]
    PROVE  Held(u, p)'
<1>0. TypeOK /\ ShoppingInv /\ items[<<u, p>>].quantity \in Int
  <2>1. TypeOK /\ ShoppingInv
    BY DEF CartInv, ShoppingInv
  <2> QED
    BY <2>1 DEF TypeOK, Item
<1>1. SUFFICES ASSUME NEW r \in Calls, items[<<u, p>>].id = r
               PROVE  Inserted(r, u, p)' /\ items[<<u, p>>].quantity <= Supply(u, p, r)'
  BY DEF Held
<1>2. /\ Inserted(r, u, p) /\ items[<<u, p>>].quantity <= Supply(u, p, r)
      /\ IsFiniteSet(WritersOf(u, p, r))
  BY <1>1 DEF CartInv, Held
<1>3. Inserted(r, u, p)' /\ pc[r] # "idle"
  BY <1>0, <1>2, InsertedStays DEF Inserted
<1>4. /\ Supply(u, p, r) \in Nat /\ Supply(u, p, r)' \in Nat
      /\ Supply(u, p, r) <= Supply(u, p, r)'
  BY <1>0, <1>2, <1>3, SupplyGrows
<1> QED
  BY <1>0, <1>2, <1>3, <1>4

\* A handler that writes a row: it inserts the row, replaces its quantity, or adds to what
\* it has read.
LEMMA HeldWritten ==
    ASSUME CartInv, [Next]_vars, NEW c \in Calls, NEW u \in Users, NEW p \in Calls,
           InsertItem(c) \/ UpdateItem(c) \/ SetItem(c), local[c].user = u,
           local[c].about = {p}
    PROVE  Held(u, p)'
<1>0. /\ TypeOK /\ TypeOK' /\ ShoppingInv /\ local[c].quantity \in Int
      /\ local[c].before \in Int /\ ProductOf(c) = p /\ Prepared(c)
      /\ pc'[c] = "done" /\ UNCHANGED local
  <2>1. ProductOf(c) = p
    BY DEF ProductOf
  <2>2. TypeOK /\ ShoppingInv /\ Prepared(c)
    BY DEF CartInv, ShoppingInv
  <2>3. pc'[c] = "done" /\ UNCHANGED local
    BY <2>2 DEF InsertItem, UpdateItem, SetItem, Step, TypeOK
  <2> QED
    BY <2>1, <2>2, <2>3, NextType, QuantityType DEF TypeOK
<1>1. CASE InsertItem(c)
  <2>1. items'[<<u, p>>] = [id |-> c, quantity |-> local[c].quantity]
    BY <1>0, <1>1 DEF InsertItem, Write, TypeOK
  <2>2. Inserted(c, u, p)' /\ c \in WritersOf(u, p, c)'
    BY <1>0 DEF Inserted, WritersOf, Finished
  <2>3. IsFiniteSet(WritersOf(u, p, c)')
    BY <1>0, WritersFinite DEF CartInv
  <2>4. local'[c].quantity <= Supply(u, p, c)'
    BY <1>0, <2>2, <2>3, WriterSupplies
  <2> QED
    BY <1>0, <2>1, <2>2, <2>4 DEF Held
<1>2. CASE UpdateItem(c) \/ SetItem(c)
  <2>1. pc[c] = IF UpdateItem(c) THEN "updateItem" ELSE "setItem"
    BY <1>2 DEF UpdateItem, SetItem, Step
  <2>2. PICK r \in Calls : HasRead(c, u, p, r)
    BY <1>0, <2>1 DEF Prepared, HasRead
  <2>3. /\ local[c].row = r /\ Inserted(r, u, p) /\ IsFiniteSet(WritersOf(u, p, r))
        /\ local[c].kind \in {"add", "set"}
    BY <2>1, <2>2 DEF HasRead, CartInv
  <2>4. Inserted(r, u, p)' /\ pc[r] # "idle" /\ r # c
    BY <1>0, <2>1, <2>3, InsertedStays DEF Inserted, Finished
  <2>5. c \in WritersOf(u, p, r)' /\ c \notin WritersOf(u, p, r)
    BY <1>0, <2>1, <2>3, <2>4 DEF WritersOf
  <2>6. IsFiniteSet(WritersOf(u, p, r)')
    BY <1>0, <2>3, WritersFinite
  <2>7. Supply(u, p, r) \in Nat /\ Supply(u, p, r)' \in Nat
    BY <1>0, <2>3, <2>4, SupplyGrows
  <2>8. CASE UpdateItem(c)
    <3>1. items'[<<u, p>>] = [id |-> r, quantity |-> local[c].before + local[c].quantity]
      BY <1>0, <2>3, <2>8 DEF UpdateItem, Write, TypeOK
    <3>2. local[c].before <= Supply(u, p, r)
      BY <2>1, <2>2, <2>8 DEF HasRead
    <3>3. Supply(u, p, r) + local[c].quantity <= Supply(u, p, r)'
      BY <1>0, <2>3, <2>4, <2>5, SupplyAdds
    <3> QED
      BY <1>0, <2>4, <2>7, <3>1, <3>2, <3>3 DEF Held
  <2>9. CASE SetItem(c)
    <3>1. items'[<<u, p>>] = [id |-> r, quantity |-> local[c].quantity]
      BY <1>0, <2>3, <2>9 DEF SetItem, Write, TypeOK
    <3>2. local'[c].quantity <= Supply(u, p, r)'
      BY <1>0, <2>5, <2>6, WriterSupplies
    <3> QED
      BY <1>0, <2>4, <3>1, <3>2 DEF Held
  <2> QED
    BY <1>2, <2>8, <2>9
<1> QED
  BY <1>1, <1>2

LEMMA NextHeld ==
    ASSUME CartInv, [Next]_vars, NEW u \in Users, NEW p \in Calls
    PROVE  Held(u, p)'
<1>0. TypeOK /\ TypeOK' /\ ShoppingInv /\ \A c \in Calls : Prepared(c) /\ Place(c)
  <2>1. TypeOK /\ ShoppingInv /\ \A c \in Calls : Prepared(c) /\ Place(c)
    BY DEF CartInv, ShoppingInv
  <2> QED
    BY <2>1, NextType
<1>1. CASE items'[<<u, p>>] = items[<<u, p>>]
  BY <1>1, HeldStays
<1>2. ASSUME NEW c \in Calls, Continue(c) PROVE Held(u, p)'
  <2>1. CASE InsertItem(c) \/ UpdateItem(c) \/ SetItem(c)
    <3>1. local[c].about = {ProductOf(c)} /\ ProductOf(c) \in Calls /\ local[c].user \in Users
      <4>1. pc[c] \in Aimed
        BY <2>1 DEF InsertItem, UpdateItem, SetItem, Step, Aimed
      <4> QED
        BY <1>0, <4>1, AimType DEF TypeOK, Local
    <3>2. CASE local[c].user = u /\ ProductOf(c) = p
      BY <2>1, <3>1, <3>2, HeldWritten
    <3>3. CASE ~(local[c].user = u /\ ProductOf(c) = p)
      <4>1. items'[<<u, p>>] = items[<<u, p>>]
        BY <1>0, <2>1, <3>1, <3>3 DEF InsertItem, UpdateItem, SetItem, Write, TypeOK
      <4> QED
        BY <1>1, <4>1
    <3> QED
      BY <3>2, <3>3
  <2>2. CASE InsertMoved(c)
    <3>1. CASE local[c].user = u /\ p \in local[c].about
      <4>1. items'[<<u, p>>] = [id |-> c, quantity |-> 1]
        BY <2>2, <3>1 DEF InsertMoved
      <4>2. pc'[c] = "deleteMoved" /\ UNCHANGED local /\ local[c].quantity = 1
        BY <1>0, <2>2 DEF InsertMoved, Step, TypeOK, Prepared
      <4>3. Inserted(c, u, p)' /\ c \in WritersOf(u, p, c)'
        BY <3>1, <4>2 DEF Inserted, WritersOf
      <4>4. IsFiniteSet(WritersOf(u, p, c)')
        BY <1>0, WritersFinite DEF CartInv
      <4>5. local'[c].quantity <= Supply(u, p, c)'
        BY <1>0, <4>3, <4>4, WriterSupplies
      <4> QED
        BY <4>1, <4>2, <4>3, <4>5 DEF Held
    <3>2. CASE ~(local[c].user = u /\ p \in local[c].about)
      <4>1. items'[<<u, p>>] = items[<<u, p>>]
        BY <2>2, <3>2 DEF InsertMoved
      <4> QED
        BY <1>1, <4>1
    <3> QED
      BY <3>1, <3>2
  <2>3. CASE UNCHANGED items
    BY <1>1, <2>3
  <2> QED
    BY <1>2, <2>1, <2>2, <2>3
       DEF Continue, ItemClash, ItemGone, AddWish, RemoveWish, WishClash, MoveRefused,
           DeleteMoved, InsertProduct, InsertFailed, Unlink, UnlinkFailed, UpdateProduct,
           DeleteProduct, ProductGone, TransactionLost, Abandon
<1>3. ASSUME NEW c \in Calls, NEW v \in Users, Read(c, v) PROVE Held(u, p)'
  <2> PICK l \in Local, label \in Labels : Arrival(c, v, l, label)
    BY <1>0, <1>3, ReadArrives
  <2>1. items'[<<u, p>>] \in {items[<<u, p>>], NoItem}
    BY <1>0, EmptiedType DEF Arrival
  <2>2. CASE items'[<<u, p>>] = NoItem
    BY <2>2 DEF Held, NoItem
  <2> QED
    BY <1>1, <2>1, <2>2
<1>4. CASE Crash \/ UNCHANGED vars
  BY <1>1, <1>4 DEF Crash, vars
<1> QED
  BY <1>2, <1>3, <1>4 DEF Next

-----------------------------------------------------------------------------
(* The theorems *)

LEMMA InitInv == Init => ShoppingInv
<1> SUFFICES ASSUME Init PROVE ShoppingInv
  OBVIOUS
<1>1. TypeOK
  BY InitType
<1>2. \A c \in Calls : /\ local[c].kind = "none" /\ pc[c] \in {"idle", "done"}
                       /\ Exists(c) => pc[c] = "done" /\ ~products[c].image
  BY DEF Init, Locals, Exists, Seeded, NoProduct
<1>3. \A c \in Calls : Place(c) /\ Stored(c) /\ Delivered(c)
  BY <1>2 DEF Init, Place, Stored, Delivered, Active, Finished, Aimed
<1>4. ASSUME NEW u \in Users, NEW p \in Calls PROVE Counted(u, p)
  <2>1. TogglesOf(u, p) = {}
    BY <1>2 DEF TogglesOf
  <2>2. IsFiniteSet({}) /\ Cardinality({}) = 0
    BY FS_EmptySet
  <2>3. <<u, p>> \notin wishes
    BY DEF Init
  <2> QED
    BY <2>1, <2>2, <2>3 DEF Counted
<1> QED
  BY <1>1, <1>3, <1>4 DEF ShoppingInv

\* The inductive invariant holds in every reachable state, whatever interleaves, fails or
\* crashes.
THEOREM Invariant == Spec => []ShoppingInv
<1>1. ShoppingInv /\ [Next]_vars => ShoppingInv'
  BY NextType, NextPlace, NextStored, NextDelivered, NextCounted DEF ShoppingInv
<1> QED
  BY InitInv, <1>1, PTL DEF Spec

\* Every reachable state is well typed, whatever quantities are sent.
THEOREM TypeCorrect == Spec => []TypeOK
<1>1. ShoppingInv => TypeOK
  BY DEF ShoppingInv
<1> QED
  BY Invariant, <1>1, PTL

\* Every product that shows an image has it in the bucket, deleted products included.
THEOREM ImagesAreThere == Spec => []ImagesShown
<1>1. ShoppingInv => ImagesShown
  BY DEF ShoppingInv, Stored, ImagesShown
<1> QED
  BY Invariant, <1>1, PTL

\* createProduct leaves an image without a product only when S3 or the server fails it.
THEOREM NoImageLeft == Spec => []NoOrphanImages
<1>1. ShoppingInv => NoOrphanImages
  <2> SUFFICES ASSUME ShoppingInv, NEW c \in bucket
               PROVE  Exists(c) \/ Active(c) \/ pc[c] \in {"leaked", "crashed"}
    BY DEF NoOrphanImages
  <2>1. c \in Calls /\ Stored(c)
    BY DEF ShoppingInv, TypeOK
  <2> QED
    BY <2>1 DEF Stored, Active, Finished
<1> QED
  BY Invariant, <1>1, PTL

\* However many toggles of one wish overlap, those that succeed are all counted.
THEOREM EveryToggleCounts == Spec => []TogglesCount
<1>1. ShoppingInv => TogglesCount
  BY DEF ShoppingInv, Counted, TogglesCount
<1> QED
  BY Invariant, <1>1, PTL

\* updateProduct and deleteProduct never touch a product that was deleted after they had
\* read it.
THEOREM DeletedForever == Spec => DeletedStays
<1>1. ASSUME ShoppingInv, [Next]_vars
      PROVE  \A p \in Calls : products[p].state = "DELETED" => products'[p] = products[p]
  <2> SUFFICES ASSUME NEW p \in Calls, products[p].state = "DELETED"
               PROVE  products'[p] = products[p]
    OBVIOUS
  <2>0. TypeOK /\ Exists(p) /\ ~Live(p) /\ Stored(p)
    BY <1>1 DEF ShoppingInv, Exists, Live
  <2>1. ASSUME NEW c \in Calls, Continue(c) PROVE products'[p] = products[p]
    <3>1. CASE InsertProduct(c)
      BY <2>0, <3>1 DEF InsertProduct, Step, Stored, TypeOK
    <3>2. CASE UpdateProduct(c) \/ DeleteProduct(c)
      <4>1. Live(ProductOf(c))
        BY <3>2 DEF UpdateProduct, DeleteProduct
      <4> QED
        BY <2>0, <3>2, <4>1 DEF UpdateProduct, DeleteProduct, TypeOK
    <3>3. CASE UNCHANGED products
      BY <3>3
    <3> QED
      BY <2>1, <3>1, <3>2, <3>3
         DEF Continue, InsertItem, ItemClash, UpdateItem, ItemGone, SetItem, AddWish,
             RemoveWish, WishClash, InsertMoved, MoveRefused, DeleteMoved, InsertFailed,
             Unlink, UnlinkFailed, ProductGone, TransactionLost, Abandon, catalogue
  <2>2. ASSUME NEW c \in Calls, NEW u \in Users, Read(c, u) PROVE products'[p] = products[p]
    BY <2>0, <2>2, ReadArrives DEF Arrival
  <2>3. CASE Crash \/ UNCHANGED vars
    BY <2>3 DEF Crash, catalogue, vars
  <2> QED
    BY <1>1, <2>1, <2>2, <2>3 DEF Next
<1>2. ShoppingInv /\ [Next]_vars =>
          [\A p \in Calls : products[p].state = "DELETED" => products'[p] = products[p]]_vars
  BY <1>1
<1> QED
  BY Invariant, <1>2, PTL DEF Spec, DeletedStays

\* moveWishlistToCart takes no wish away whose product it has not put into the cart.
THEOREM MovesDeliver == Spec => MovedIsInCart
<1> DEFINE Delivers ==
      \A c \in Calls : \A p \in local'[c].about :
          LET u == local'[c].user
          IN  /\ local'[c].kind = "move" /\ pc'[c] # pc[c]
              /\ <<u, p>> \in wishes \ wishes'
              => \/ items'[<<u, p>>].id # None
                 \/ \E d \in Calls : /\ local[d].kind \in {"remove", "clear"}
                                     /\ local[d].user = u /\ pc[d] = "done"
<1>1. ASSUME ShoppingInv, [Next]_vars PROVE Delivers
  <2> SUFFICES ASSUME NEW c \in Calls, NEW p \in local'[c].about,
                      local'[c].kind = "move", pc'[c] # pc[c],
                      <<local'[c].user, p>> \in wishes \ wishes'
               PROVE  items'[<<local'[c].user, p>>].id # None \/ Emptier(local'[c].user)
    BY DEF Emptier
  <2>0. TypeOK /\ \A d \in Calls : Place(d) /\ Delivered(d)
    BY <1>1 DEF ShoppingInv
  <2>1. PICK d \in Calls : AddWish(d) \/ RemoveWish(d) \/ DeleteMoved(d)
    <3>1. ~UNCHANGED wishes
      OBVIOUS
    <3>2. ~\E d \in Calls, u \in Users : Read(d, u)
      BY <2>0, <3>1, ReadArrives DEF Arrival
    <3>3. ~Crash /\ ~UNCHANGED vars
      BY <3>1 DEF Crash, vars
    <3>4. PICK d \in Calls : Continue(d)
      BY <1>1, <3>2, <3>3 DEF Next
    <3> QED
      BY <3>1, <3>4
         DEF Continue, InsertItem, ItemClash, UpdateItem, ItemGone, SetItem, WishClash,
             InsertMoved, MoveRefused, InsertProduct, InsertFailed, Unlink, UnlinkFailed,
             UpdateProduct, DeleteProduct, ProductGone, TransactionLost, Abandon
  <2>2. d = c /\ UNCHANGED local
    BY <2>0, <2>1 DEF AddWish, RemoveWish, DeleteMoved, Step, TypeOK
  <2>3. DeleteMoved(c) /\ pc[c] = "deleteMoved"
    BY <2>0, <2>1, <2>2 DEF AddWish, RemoveWish, DeleteMoved, Step, Place, Active, Finished
  <2>4. InCart(local[c].user, p) \/ Emptier(local[c].user)
    BY <2>0, <2>2, <2>3 DEF Delivered
  <2> QED
    BY <2>2, <2>3, <2>4 DEF DeleteMoved, InCart
<1>2. ShoppingInv /\ [Next]_vars => [Delivers]_vars
  BY <1>1
<1> QED
  BY Invariant, <1>2, PTL DEF Spec, MovedIsInCart
LEMMA InitCart == Init => CartInv
<1> SUFFICES ASSUME Init PROVE CartInv
  OBVIOUS
<1>1. \A c \in Calls : pc[c] \in {"idle", "done"} /\ local[c].kind = "none"
  BY DEF Init, Locals
<1>2. \A c \in Calls : Prepared(c)
  BY <1>1 DEF Prepared
<1>3. \A u \in Users, p \in Calls : Held(u, p)
  BY DEF Init, Held, NoItem
<1>4. ASSUME NEW u \in Users, NEW p \in Calls, NEW r \in Calls
      PROVE  IsFiniteSet(WritersOf(u, p, r))
  <2>1. WritersOf(u, p, r) \subseteq {r}
    BY <1>1 DEF WritersOf
  <2> QED
    BY <2>1, FS_Singleton, FS_Subset
<1> QED
  BY <1>2, <1>3, <1>4, InitInv DEF CartInv

\* Whatever interleaves, a row of a cart holds no more than the calls that wrote it have put
\* into it, negative quantities counting for nothing: what an order has taken out of the cart
\* does not come back.
THEOREM NothingReturns == Spec => []NothingComesBack
<1>1. ASSUME CartInv, [Next]_vars PROVE CartInv'
  <2>1. ShoppingInv'
    BY <1>1, NextType, NextPlace, NextStored, NextDelivered, NextCounted DEF CartInv, ShoppingInv
  <2>2. \A u \in Users, p \in Calls, r \in Calls : IsFiniteSet(WritersOf(u, p, r)')
    BY <1>1, WritersFinite DEF CartInv, ShoppingInv
  <2> QED
    BY <1>1, <2>1, <2>2, NextPrepared, NextHeld DEF CartInv
<1>2. CartInv => NothingComesBack
  <2> SUFFICES ASSUME CartInv, NEW u \in Users, NEW p \in Calls, InCart(u, p)
               PROVE  items[<<u, p>>].quantity <= Supply(u, p, items[<<u, p>>].id)
    BY DEF NothingComesBack
  <2>1. items[<<u, p>>].id \in Calls
    BY DEF CartInv, ShoppingInv, TypeOK, Item, InCart
  <2> QED
    BY <2>1 DEF CartInv, Held
<1> QED
  BY InitCart, <1>1, <1>2, PTL DEF Spec
=============================================================================
