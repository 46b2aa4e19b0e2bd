------------------------- MODULE ListingsProperties -------------------------
(* What a client that reads a list page by page can rely on.                *)
EXTENDS Listings

\* Every variable has its type; in particular no client is sent past the page
\* that follows the last full one.
TypeOK ==
  /\ list \in Lists
  /\ key \in [Rows -> Keys \cup {0}]
  /\ listed \subseteq Made
  /\ pc \in {"count", "find", "end"}
  /\ page \in 1 .. (Cardinality(Rows) \div Limit) + 1
  /\ total \in 0 .. Cardinality(Rows)
  /\ shown \subseteq Made
  /\ log \in [steady : SUBSET listed, gone : Nat, came : Nat, late : Nat,
             twice : SUBSET shown]

\* A client that has read to the end has seen every row that was in the list
\* all the time at a place of its own, except for at most as many as left (or
\* moved away) meanwhile, plus those that entered between the count and the
\* rows of its last answer: offset paging loses a row only to such a change
\* (the skip, take and total of findAllProducts, getUserOrders, getUserList and
\* the two request lists).
NothingMissed ==
  pc = "end" => Cardinality(log.steady \ shown) <= log.gone + log.late

\* Of the rows that stayed at a place of their own, no more are shown on two
\* pages than rows entered the list (or moved) while it was read.
NothingRepeated == Cardinality(log.twice \cap log.steady) <= log.came
=============================================================================
