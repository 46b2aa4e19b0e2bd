------------------------------ MODULE Listings ------------------------------
(***************************************************************************)
(* The paged lists of the service: products, orders, order requests and    *)
(* the members of a company.  Each is answered by reads that are separate  *)
(* statements (a count and the rows of one page; the requests have no      *)
(* count), and a client reads page after page while other requests add,    *)
(* hide, delete and reprice rows.  A row is known by its place in the      *)
(* chosen order, its key: two rows made in one millisecond, or two of one  *)
(* price, have the same key, and the database puts them in any order.      *)
(***************************************************************************)
EXTENDS Naturals, FiniteSets

CONSTANTS
  Rows,        \* rows that match the list's filter at some time
  Keys,        \* values of the column the list is sorted by
  Limit,       \* the client's page size
  MaxChanges   \* bound on the changes to the list while it is being read

ASSUME SizesAssumption ==
  /\ IsFiniteSet(Rows)
  /\ Keys \subseteq Nat \ {0}
  /\ Limit \in Nat \ {0}
  /\ MaxChanges \in Nat

-----------------------------------------------------------------------------
(* The five lists, as the handlers put them to the database: the column and *)
(* the direction they sort by, and whether they count the rows first.       *)

\* The order that a `sort` parameter asks for; 'oldest', which the orders'
\* page offers, is not one of the cases.
getOrderBy(sort) ==
  CASE sort = "lowPrice"  -> [by |-> "totalAmount", desc |-> FALSE]
    [] sort = "highPrice" -> [by |-> "totalAmount", desc |-> TRUE]
    [] OTHER              -> [by |-> "createdAt", desc |-> TRUE]

Sorts == {getOrderBy(s) : s \in {"latest", "oldest", "lowPrice", "highPrice"}}

findAllProducts ==
  {[of |-> "products", order |-> [by |-> f, desc |-> d], counted |-> TRUE] :
     f \in {"createdAt", "price"}, d \in BOOLEAN}

\* The orders of a company.  They are never deleted, nor is a company that has any: its
\* budget and its orders' creators are held by foreign keys.
getUserOrders == {[of |-> "orders", order |-> o, counted |-> TRUE] : o \in Sorts}

getUserOrderRequests ==
  {[of |-> "requests", order |-> o, counted |-> FALSE] : o \in Sorts}

getCompanyOrderRequests == getUserOrderRequests

getUserList ==
  {[of |-> "users", order |-> [by |-> "createdAt", desc |-> TRUE], counted |-> TRUE]}

Lists == findAllProducts \cup getUserOrders \cup getUserOrderRequests
           \cup getCompanyOrderRequests \cup getUserList

-----------------------------------------------------------------------------
VARIABLES
  list,     \* the list being read, one of Lists
  key,      \* the value each row is sorted by; 0 for a row not yet made
  listed,   \* the rows the list's filter lets through
  pc,       \* the next step of the page request: "count", "find", or "end"
  page,     \* the page being asked for
  total,    \* the count the request holds
  shown,    \* rows the client has been shown
  log       \* what happened to the list since the client began to read

vars == <<list, key, listed, pc, page, total, shown, log>>

Made == {r \in Rows : key[r] # 0}

\* The first page's first read: the count, where the list has one.
FirstRead(l) == IF l.counted THEN "count" ELSE "find"

\* No other listed row has this row's key.
Untied(r, K, L) == \A q \in L \ {r} : K[q] # K[r]

Init ==
  /\ list \in Lists
  /\ key \in [Rows -> Keys \cup {0}]
  /\ listed \in SUBSET Made
  /\ pc = FirstRead(list)
  /\ page = 1
  /\ total = 0
  /\ shown = {}
  /\ log = [steady |-> {r \in listed : Untied(r, key, listed)},
            gone |-> 0, came |-> 0, late |-> 0, twice |-> {}]

-----------------------------------------------------------------------------
(* What other requests do to the list.                                      *)

Counting == pc = "find" /\ list.counted

\* The list after a change: which rows have been in it from the start, alone
\* at their place, and how many have gone, come, and come after the count.
Change(L, K, gone, came) ==
  /\ pc # "end"
  /\ log.gone + log.came < MaxChanges
  /\ listed' = L
  /\ key' = K
  /\ log' = [log EXCEPT
       !.steady = {r \in @ \cap L : K[r] = key[r] /\ Untied(r, K, L)},
       !.gone = @ + gone,
       !.came = @ + came,
       !.late = @ + IF Counting THEN came ELSE 0]
  /\ UNCHANGED <<list, pc, page, total, shown>>

\* A product, an order, a request or a user is created.  Its createdAt is older than the
\* moment it comes into the list: a transaction's rows are seen when it commits, and of two
\* that overlap the one that began first may commit last.
Create(r) ==
  /\ r \notin Made
  /\ \E k \in Keys : Change(listed \cup {r}, [key EXCEPT ![r] = k], 0, 1)

Withdraw(r) ==
  /\ r \in listed
  /\ Change(listed \ {r}, key, 1, 0)

\* A product is marked as deleted; or updateProduct files it elsewhere.
DeleteProduct(r) == list.of = "products" /\ Withdraw(r)

\* A pending request is withdrawn.
DeleteRequest(r) == list.of = "requests" /\ Withdraw(r)

\* A member is deleted, and the member's requests with it: several rows that leave in one
\* statement leave here one after the other.
DeleteUser(r) == list.of \in {"users", "requests"} /\ Withdraw(r)

\* An edit files a product under the category that is being listed.
File(r) ==
  /\ list.of = "products" /\ r \in Made \ listed
  /\ Change(listed \cup {r}, key, 0, 1)

\* An edit changes the price of a product in a list sorted by price.
Reprice(r) ==
  /\ list.of = "products" /\ list.order.by = "price" /\ r \in listed
  /\ \E k \in Keys \ {key[r]} :
       Change(listed, [key EXCEPT ![r] = k], 1, 1)

-----------------------------------------------------------------------------
(* The page request and its client.                                         *)

\* r is ahead of q in the list's order.
Ahead(r, q) == IF list.order.desc THEN key[r] > key[q] ELSE key[r] < key[q]

\* The first n rows of the list, in every way the order leaves open.
Prefixes(n) ==
  {P \in SUBSET listed :
     /\ Cardinality(P) = IF n < Cardinality(listed)
                         THEN n ELSE Cardinality(listed)
     /\ \A r \in P, q \in listed \ P : ~Ahead(q, r)}

\* Slip: the pages are taken to be numbered from 0.
SkipFromZero(p) == p * Limit

Skip(p) == (p - 1) * Limit

\* Slip: one row more than the page is taken.
PageOverlapping(p) ==
  UNION {{Q \ P : P \in Prefixes(Skip(p)) \cap SUBSET Q} :
           Q \in Prefixes(Skip(p) + Limit + 1)}

\* What one findMany with `skip` and `take` can answer.
Page(p) ==
  UNION {{Q \ P : P \in Prefixes(Skip(p)) \cap SUBSET Q} :
           Q \in Prefixes(Skip(p) + Limit)}

TotalPages(n) == (n + Limit - 1) \div Limit

CountRows ==
  /\ pc = "count"
  /\ total' = Cardinality(listed)
  /\ pc' = "find"
  /\ log' = [log EXCEPT !.late = 0]
  /\ UNCHANGED <<list, key, listed, page, shown>>

\* Slip: the last page is taken for one that has a next.
HasNextPageInclusive(rows) ==
  IF list.counted THEN page <= TotalPages(total)
                  ELSE Cardinality(rows) = Limit

\* hasNextPage as the counted lists compute it, or let the client compute it;
\* the client of a list without a count goes on while its pages are full.
HasNextPage(rows) ==
  IF list.counted THEN page < TotalPages(total)
                  ELSE Cardinality(rows) = Limit

ReadPage ==
  /\ pc = "find"
  /\ \E rows \in Page(page) :
       /\ shown' = shown \cup rows
       /\ log' = [log EXCEPT !.twice = @ \cup (shown \cap rows)]
       /\ IF HasNextPage(rows)
          THEN page' = page + 1 /\ pc' = FirstRead(list)
          ELSE page' = page /\ pc' = "end"
  /\ UNCHANGED <<list, key, listed, total>>

-----------------------------------------------------------------------------
Next ==
  \/ \E r \in Rows :
       \/ Create(r) \/ File(r) \/ Reprice(r)
       \/ DeleteProduct(r) \/ DeleteRequest(r) \/ DeleteUser(r)
  \/ CountRows
  \/ ReadPage

Spec == Init /\ [][Next]_vars
=============================================================================
