------------------------- MODULE ShoppingProperties -------------------------
(***************************************************************************)
(* What is claimed of Shopping, however its handlers interleave.           *)
(***************************************************************************)
EXTENDS Shopping, FiniteSets, Functions

Labels == Finished \cup {"insertItem", "updateItem", "setItem", "wish", "unwish",
                         "insertMoved", "deleteMoved", "insertProduct", "unlink",
                         "update", "delete"}

\* Every row and every local variable has its column's type.
TypeOK ==
    /\ products \in [Calls -> Product]
    /\ bucket \subseteq Calls
    /\ items \in [Users \X Calls -> Item]
    /\ wishes \subseteq Users \X Calls
    /\ pc \in [Calls -> Labels]
    /\ open \subseteq Calls
    /\ local \in [Calls -> Local]

-----------------------------------------------------------------------------
(* Carts *)

\* The calls that have written row r of u's cart for product p: the one that inserted it
\* and the ones that read it and then updated it.
WritersOf(u, p, r) ==
    {c \in Calls : /\ local[c].user = u /\ p \in local[c].about
                   /\ \/ c = r
                      \/ /\ pc[c] = "done" /\ local[c].row = r
                         /\ local[c].kind \in {"add", "set"}}

\* What a call can have added: a negative quantity adds nothing.
Asked == [c \in Calls |-> IF local[c].quantity > 0 THEN local[c].quantity ELSE 0]

\* All that was ever put into row r.
Supply(u, p, r) == SumFunctionOnSet(Asked, WritersOf(u, p, r))

\* Nothing comes back into a cart: a row holds at most what was put into it since it was
\* inserted, so an addToCart that read the row before an order emptied the cart does not
\* bring the ordered quantity back.  It may hold less: overlapping calls lose quantities,
\* and a negative quantity, which no handler refuses, takes from the row.
NothingComesBack ==
    \A u \in Users, p \in Calls : InCart(u, p) =>
        items[<<u, p>>].quantity <= Supply(u, p, items[<<u, p>>].id)

-----------------------------------------------------------------------------
(* Wishlists *)

TogglesOf(u, p) ==
    {c \in Calls : /\ local[c].kind = "toggle" /\ pc[c] = "done"
                   /\ local[c].user = u /\ local[c].about = {p}}
MovesOf(u, p) ==
    {c \in Calls : local[c].kind = "move" /\ local[c].user = u /\ p \in local[c].about}

\* Each toggle that answers with success has turned the wish over once: two that overlap
\* either count both or one of them fails, although both have read the same state.
TogglesCount ==
    \A u \in Users, p \in Calls : MovesOf(u, p) = {} =>
        (<<u, p>> \in wishes <=> Cardinality(TogglesOf(u, p)) % 2 = 1)

\* The products a move takes off the wishlist are in the cart, unless another call has
\* taken them out of the cart since; a move that times out or dies loses no wish.
MovedIsInCart ==
    [][\A c \in Calls : \A p \in local'[c].about :
          LET u == local'[c].user
          IN  /\ local'[c].kind = "move" /\ pc'[c] # pc[c]
              /\ <<u, p>> \in wishes \ wishes'
              => \/ items'[<<u, p>>].id # None
                 \/ \E d \in Calls : /\ local[d].kind \in {"remove", "clear"}
                                     /\ local[d].user = u /\ pc[d] = "done"]_vars

-----------------------------------------------------------------------------
(* Products *)

\* Whatever product a page shows, deleted ones in old orders included, its image is there.
ImagesShown == \A p \in Calls : Exists(p) /\ products[p].image => p \in bucket

\* The bucket keeps no image of a product that was never made, unless the server died or
\* S3 refused to delete it.
NoOrphanImages ==
    \A c \in bucket : Exists(c) \/ Active(c) \/ pc[c] \in {"leaked", "crashed"}

\* A deleted product is never changed again, although updateProduct and deleteProduct look
\* at it before they write: their update repeats the condition.
DeletedStays ==
    [][\A p \in Calls : products[p].state = "DELETED" => products'[p] = products[p]]_vars
=============================================================================
