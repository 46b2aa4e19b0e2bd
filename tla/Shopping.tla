------------------------------ MODULE Shopping ------------------------------
(***************************************************************************)
(* Products with their images, carts and wishlists: CartsService,          *)
(* WishlistsService and the writing half of ProductsService.               *)
(*                                                                         *)
(* The handlers of the carts use no transaction.  Those of the wishlists   *)
(* do, but moveWishlistToCart reaches the cart through CartsService, on a  *)
(* connection of its own, so what it puts into the cart is committed       *)
(* before, and whether or not, the wishes are deleted.  An image lives in  *)
(* an S3 bucket outside of any transaction: createProduct uploads it       *)
(* first and deletes it again when the insert of the product fails.        *)
(*                                                                         *)
(* A call is one HTTP request.  A product and its image, and a row of a    *)
(* cart, bear the name of the call that inserted them.  A user and the     *)
(* user's cart are one: every handler refuses somebody else's cart.        *)
(***************************************************************************)
EXTENDS Integers

CONSTANTS
    Calls,          \* the HTTP calls, past and future
    Earlier,        \* the calls that created the seeded products
    Users,
    Admins,         \* the users whose role is ADMIN or SUPERADMIN
    Superadmins,
    Quantities,     \* quantities a client asks for: nothing refuses a negative one
    Operations,     \* the operations clients call in this instance
    Faults,         \* the faults that happen in this instance
    None            \* the id of no row, NULL

Kinds == {"add", "set", "remove", "clear", "toggle", "move", "create", "update", "delete"}

ASSUME CallsAssumption == Earlier \subseteq Calls /\ None \notin Calls \cup Users
ASSUME UsersAssumption == /\ Superadmins \subseteq Admins /\ Admins \subseteq Users
                          /\ Admins # {}
ASSUME ScopeAssumption == /\ Quantities \subseteq Int
                          /\ Operations \subseteq Kinds
                          /\ Faults \subseteq {"put", "insert", "unlink", "timeout", "crash"}

VARIABLES
    products,   \* table products: a row for each call, "ABSENT" when there is none
    bucket,     \* the images in the S3 bucket
    items,      \* table cart_items: a row for each user and product
    wishes,     \* table wishlists
    pc,         \* where each call's handler stands
    open,       \* the calls whose interactive transaction is still open
    local       \* what each call's handler holds in local variables

vars == <<products, bucket, items, wishes, pc, open, local>>
catalogue == <<products, bucket>>

-----------------------------------------------------------------------------
(* Rows *)

\* image: whether imageUrl names an object of the bucket; editor is updatedById.
Product == [state : {"ABSENT", "LIVE", "DELETED"}, owner : Users, image : BOOLEAN,
            editor : Users \cup {None}]
Item == [id : Calls \cup {None}, quantity : Int]
Local == [kind : Kinds \cup {"none"}, user : Users, about : SUBSET Calls,
          row : Calls \cup {None}, before : Int, quantity : Int]

AnyAdmin == CHOOSE u \in Admins : TRUE
NoProduct == [state |-> "ABSENT", owner |-> AnyAdmin, image |-> FALSE, editor |-> None]
Seeded == [state |-> "LIVE", owner |-> AnyAdmin, image |-> FALSE, editor |-> None]
NoItem == [id |-> None, quantity |-> 0]

\* What a handler holds: its user, the products it is about, the row it has read.
Locals(kind, user, about, item, quantity) ==
    [kind |-> kind, user |-> user, about |-> about, row |-> item.id,
     before |-> item.quantity, quantity |-> quantity]

Exists(p) == products[p].state # "ABSENT"
Live(p) == products[p].state = "LIVE"
InCart(u, p) == items[<<u, p>>].id # None
ProductOf(c) == CHOOSE p \in local[c].about : TRUE
Finished == {"idle", "done", "failed", "leaked", "crashed"}
Active(c) == pc[c] \notin Finished

Init ==
    /\ products = [c \in Calls |-> IF c \in Earlier THEN Seeded ELSE NoProduct]
    /\ bucket = {}
    /\ items = [w \in Users \X Calls |-> NoItem]
    /\ wishes = {}
    /\ pc = [c \in Calls |-> IF c \in Earlier THEN "done" ELSE "idle"]
    /\ open = {}
    /\ local = [c \in Calls |-> Locals("none", AnyAdmin, {c}, NoItem, 0)]

\* The first step of a call.
Arrive(c, l, label) ==
    /\ l.kind \in Operations
    /\ pc[c] = "idle"
    /\ pc' = [pc EXCEPT ![c] = label]
    /\ local' = [local EXCEPT ![c] = l]
    /\ open' = IF l.kind \in {"toggle", "move"} /\ label # "done" THEN open \cup {c} ELSE open

Step(c, from, to) ==
    /\ pc[c] = from
    /\ pc' = [pc EXCEPT ![c] = to]
    /\ open' = IF Active(c)' THEN open ELSE open \ {c}
    /\ UNCHANGED local

\* One row of a cart, whatever the quantity comes to.
Write(u, p, id, quantity) ==
    items' = [items EXCEPT ![<<u, p>>] = [id |-> id, quantity |-> quantity]]

-----------------------------------------------------------------------------
(* POST /carts/:cartId/items *)

\* A soft-deleted product is found, too.
AddRead(c, u, p, quantity) ==
    /\ Exists(p)
    /\ Arrive(c, Locals("add", u, {p}, items[<<u, p>>], quantity),
              IF InCart(u, p) THEN "updateItem" ELSE "insertItem")
    /\ UNCHANGED <<catalogue, items, wishes>>

InsertItem(c) ==
    LET u == local[c].user  p == ProductOf(c)
    IN  /\ Step(c, "insertItem", "done")
        /\ ~InCart(u, p)
        /\ Write(u, p, c, local[c].quantity)
        /\ UNCHANGED <<catalogue, wishes>>

\* The product has come into the cart since: (cartId, productId) is unique.
ItemClash(c) ==
    /\ Step(c, "insertItem", "failed")
    /\ InCart(local[c].user, ProductOf(c))
    /\ UNCHANGED <<catalogue, items, wishes>>

\* The row that the handler has read is still there.
RowThere(c) == items[<<local[c].user, ProductOf(c)>>].id = local[c].row

\* Slip: an upsert, which makes the row again when it is gone.
UpdateItemUpserts(c) ==
    LET u == local[c].user  p == ProductOf(c)
    IN  /\ Step(c, "updateItem", "done")
        /\ RowThere(c) \/ ~InCart(u, p)
        /\ Write(u, p, IF RowThere(c) THEN local[c].row ELSE c,
                 local[c].before + local[c].quantity)
        /\ UNCHANGED <<catalogue, wishes>>

\* The new quantity is computed from the row as it was read, and written by the row's id.
UpdateItem(c) ==
    LET u == local[c].user  p == ProductOf(c)
    IN  /\ Step(c, "updateItem", "done")
        /\ RowThere(c)
        /\ Write(u, p, local[c].row, local[c].before + local[c].quantity)
        /\ UNCHANGED <<catalogue, wishes>>

\* An update by id fails when the row is gone (also that of setItem).
ItemGone(c) ==
    /\ \E label \in {"updateItem", "setItem"} : Step(c, label, "failed")
    /\ ~RowThere(c)
    /\ UNCHANGED <<catalogue, items, wishes>>

-----------------------------------------------------------------------------
(* PATCH /carts/:cartId/items/:itemId, DELETE /carts/:cartId/items, and the end of every  *)
(* order and order request: clearCartItemsByUserId                                        *)

SetRead(c, u, p, quantity) ==
    /\ InCart(u, p)
    /\ Arrive(c, Locals("set", u, {p}, items[<<u, p>>], quantity), "setItem")
    /\ UNCHANGED <<catalogue, items, wishes>>

SetItem(c) ==
    /\ Step(c, "setItem", "done")
    /\ RowThere(c)
    /\ Write(local[c].user, ProductOf(c), local[c].row, local[c].quantity)
    /\ UNCHANGED <<catalogue, wishes>>

Emptied(u, S) ==
    [w \in Users \X Calls |-> IF w[1] = u /\ w[2] \in S THEN NoItem ELSE items[w]]

\* deleteMany: rows that are gone already are passed over.
RemoveItems(c, u, S) ==
    /\ Arrive(c, Locals("remove", u, S, NoItem, 0), "done")
    /\ items' = Emptied(u, S)
    /\ UNCHANGED <<catalogue, wishes>>

\* Everything in the cart, whatever was ordered.
ClearCart(c, u) ==
    /\ Arrive(c, Locals("clear", u, Calls, NoItem, 0), "done")
    /\ items' = Emptied(u, Calls)
    /\ UNCHANGED <<catalogue, wishes>>

-----------------------------------------------------------------------------
(* POST /wishlists *)

ToggleRead(c, u, p) ==
    /\ Exists(p)
    /\ Arrive(c, Locals("toggle", u, {p}, NoItem, 0),
              IF <<u, p>> \in wishes THEN "unwish" ELSE "wish")
    /\ UNCHANGED <<catalogue, items, wishes>>

Wish(c) == <<local[c].user, ProductOf(c)>>

AddWish(c) ==
    /\ Step(c, "wish", "done")
    /\ c \in open /\ Wish(c) \notin wishes
    /\ wishes' = wishes \cup {Wish(c)}
    /\ UNCHANGED <<catalogue, items>>

\* Slip: deleteMany, which is content when there is nothing to delete.
RemoveWishLeniently(c) ==
    /\ Step(c, "unwish", "done")
    /\ c \in open
    /\ wishes' = wishes \ {Wish(c)}
    /\ UNCHANGED <<catalogue, items>>

RemoveWish(c) ==
    /\ Step(c, "unwish", "done")
    /\ c \in open /\ Wish(c) \in wishes
    /\ wishes' = wishes \ {Wish(c)}
    /\ UNCHANGED <<catalogue, items>>

\* Another call has toggled or moved the wish since: the insert violates the unique
\* constraint, the delete finds no row.
WishClash(c) ==
    /\ c \in open
    /\ \/ Step(c, "wish", "failed") /\ Wish(c) \in wishes
       \/ Step(c, "unwish", "failed") /\ Wish(c) \notin wishes
    /\ UNCHANGED <<catalogue, items, wishes>>

-----------------------------------------------------------------------------
(* POST /wishlists/move-to-cart *)

\* Slip: the wishes are deleted first.
MoveReadUnwishesFirst(c, u, S) ==
    LET moving == {p \in S : ~InCart(u, p)}
    IN  /\ Arrive(c, Locals("move", u, moving, NoItem, 1),
                  IF moving = {} THEN "done" ELSE "insertMoved")
        /\ wishes' = wishes \ ({u} \X moving)
        /\ UNCHANGED <<catalogue, items>>

\* What is in the cart already is not moved.  Nobody looks whether the rest is on the
\* wishlist.
MoveRead(c, u, S) ==
    LET moving == {p \in S : ~InCart(u, p)}
    IN  /\ Arrive(c, Locals("move", u, moving, NoItem, 1),
                  IF moving = {} THEN "done" ELSE "insertMoved")
        /\ UNCHANGED <<catalogue, items, wishes>>

\* createMany inserts all of the rows or none: none of the products may be in the cart.
Insertable(c) == \A p \in local[c].about : ~InCart(local[c].user, p)

\* One statement on a connection of its own, committed at once.
InsertMoved(c) ==
    LET u == local[c].user
    IN  /\ Step(c, "insertMoved", "deleteMoved")
        /\ Insertable(c)
        /\ items' = [w \in Users \X Calls |->
                        IF w[1] = u /\ w[2] \in local[c].about
                        THEN [id |-> c, quantity |-> 1] ELSE items[w]]
        /\ UNCHANGED <<catalogue, wishes>>

MoveRefused(c) ==
    /\ Step(c, "insertMoved", "failed")
    /\ ~Insertable(c)
    /\ UNCHANGED <<catalogue, items, wishes>>

DeleteMoved(c) ==
    /\ Step(c, "deleteMoved", "done")
    /\ c \in open
    /\ wishes' = wishes \ ({local[c].user} \X local[c].about)
    /\ UNCHANGED <<catalogue, items>>

-----------------------------------------------------------------------------
(* POST /products *)

\* Without an image the product is inserted at once.
Upload(c, u, image) ==
    /\ u \in Admins
    /\ Arrive(c, Locals("create", u, {c}, NoItem, 0), "insertProduct")
    /\ bucket' = IF image THEN bucket \cup {c} ELSE bucket
    /\ UNCHANGED <<products, items, wishes>>

UploadFailed(c, u) ==
    /\ "put" \in Faults
    /\ u \in Admins
    /\ Arrive(c, Locals("create", u, {c}, NoItem, 0), "failed")
    /\ UNCHANGED <<catalogue, items, wishes>>

\* isImgUploaded is true exactly when the object is in the bucket.
InsertProduct(c) ==
    /\ Step(c, "insertProduct", "done")
    /\ products' = [products EXCEPT ![c] =
           [state |-> "LIVE", owner |-> local[c].user, image |-> c \in bucket,
            editor |-> None]]
    /\ UNCHANGED <<bucket, items, wishes>>

\* Slip: the image is left where it is.
InsertFailedKeepsImage(c) ==
    /\ Step(c, "insertProduct", "failed")
    /\ "insert" \in Faults
    /\ UNCHANGED <<catalogue, items, wishes>>

\* The category does not exist, or the database does not answer.
InsertFailed(c) ==
    /\ Step(c, "insertProduct", IF c \in bucket THEN "unlink" ELSE "failed")
    /\ "insert" \in Faults
    /\ UNCHANGED <<catalogue, items, wishes>>

Unlink(c) ==
    /\ Step(c, "unlink", "failed")
    /\ bucket' = bucket \ {c}
    /\ UNCHANGED <<products, items, wishes>>

\* The compensation fails, too, and S3's error becomes the answer.
UnlinkFailed(c) ==
    /\ Step(c, "unlink", "leaked")
    /\ "unlink" \in Faults
    /\ UNCHANGED <<catalogue, items, wishes>>

-----------------------------------------------------------------------------
(* PATCH /products/:id and DELETE /products/:id *)

MayChange(u, p) == u \in Admins /\ (u \in Superadmins \/ products[p].owner = u)

ChangeRead(c, u, p, kind) ==
    /\ Live(p) /\ MayChange(u, p)
    /\ Arrive(c, Locals(kind, u, {p}, NoItem, 0), kind)
    /\ UNCHANGED <<catalogue, items, wishes>>

\* Slip: the product is updated by its id alone.
UpdateProductById(c) ==
    /\ Step(c, "update", "done")
    /\ products' = [products EXCEPT ![ProductOf(c)].editor = local[c].user]
    /\ UNCHANGED <<bucket, items, wishes>>

UpdateProduct(c) ==
    /\ Step(c, "update", "done")
    /\ Live(ProductOf(c))
    /\ products' = [products EXCEPT ![ProductOf(c)].editor = local[c].user]
    /\ UNCHANGED <<bucket, items, wishes>>

\* Slip: the image goes with the product, as the code that is commented out would have it.
DeleteProductAndImage(c) ==
    /\ Step(c, "delete", "done")
    /\ Live(ProductOf(c))
    /\ products' = [products EXCEPT ![ProductOf(c)].state = "DELETED",
                                    ![ProductOf(c)].editor = local[c].user]
    /\ bucket' = bucket \ {ProductOf(c)}
    /\ UNCHANGED <<items, wishes>>

\* Slip: the arguments are swapped and updatedById gets the product's id.
DeleteProductSwapped(c) ==
    /\ Step(c, "delete", "done")
    /\ Live(ProductOf(c))
    /\ products' = [products EXCEPT ![ProductOf(c)].state = "DELETED",
                                    ![ProductOf(c)].editor = ProductOf(c)]
    /\ UNCHANGED <<bucket, items, wishes>>

\* The row stays, and so do its image and the cart items and wishes that point to it.
DeleteProduct(c) ==
    /\ Step(c, "delete", "done")
    /\ Live(ProductOf(c))
    /\ products' = [products EXCEPT ![ProductOf(c)].state = "DELETED",
                                    ![ProductOf(c)].editor = local[c].user]
    /\ UNCHANGED <<bucket, items, wishes>>

\* Deleted since it was read: the update, too, asks for isDeleted: false.
ProductGone(c) ==
    /\ \E label \in {"update", "delete"} : Step(c, label, "failed")
    /\ ~Live(ProductOf(c))
    /\ UNCHANGED <<catalogue, items, wishes>>

-----------------------------------------------------------------------------
(* Faults *)

\* The transaction of a toggle or a move passes its time limit.
TransactionLost(c) ==
    /\ "timeout" \in Faults
    /\ c \in open
    /\ open' = open \ {c}
    /\ UNCHANGED <<catalogue, items, wishes, pc, local>>

\* Its next statement fails.
Abandon(c) ==
    /\ \E label \in {"wish", "unwish", "deleteMoved"} : Step(c, label, "failed")
    /\ c \notin open
    /\ UNCHANGED <<catalogue, items, wishes>>

\* The server process dies.
Crash ==
    /\ "crash" \in Faults
    /\ \E c \in Calls : Active(c)
    /\ pc' = [c \in Calls |-> IF Active(c) THEN "crashed" ELSE pc[c]]
    /\ open' = {}
    /\ UNCHANGED <<catalogue, items, wishes, local>>

-----------------------------------------------------------------------------

Read(c, u) ==
    \/ \E p \in Calls :
          \/ \E q \in Quantities : AddRead(c, u, p, q) \/ SetRead(c, u, p, q)
          \/ ToggleRead(c, u, p)
          \/ \E kind \in {"update", "delete"} : ChangeRead(c, u, p, kind)
    \/ \E S \in SUBSET {p \in Calls : InCart(u, p)} : RemoveItems(c, u, S)
    \/ \E S \in SUBSET {p \in Calls : Exists(p)} : S # {} /\ MoveRead(c, u, S)
    \/ ClearCart(c, u)
    \/ \E image \in BOOLEAN : Upload(c, u, image)
    \/ UploadFailed(c, u)

Continue(c) ==
    \/ InsertItem(c) \/ ItemClash(c) \/ UpdateItem(c) \/ ItemGone(c) \/ SetItem(c)
    \/ AddWish(c) \/ RemoveWish(c) \/ WishClash(c)
    \/ InsertMoved(c) \/ MoveRefused(c) \/ DeleteMoved(c)
    \/ InsertProduct(c) \/ InsertFailed(c) \/ Unlink(c) \/ UnlinkFailed(c)
    \/ UpdateProduct(c) \/ DeleteProduct(c) \/ ProductGone(c)
    \/ TransactionLost(c) \/ Abandon(c)

Next ==
    \/ \E c \in Calls : Continue(c) \/ \E u \in Users : Read(c, u)
    \/ Crash

Spec == Init /\ [][Next]_vars
=============================================================================
