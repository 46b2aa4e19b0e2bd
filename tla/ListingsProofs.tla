--------------------------- MODULE ListingsProofs ---------------------------
(***************************************************************************)
(* Proofs about Listings, for every set of rows, every page size and any   *)
(* number of changes while a client reads.  The argument is about the      *)
(* position of a row, the number of rows ahead of it: one change moves a   *)
(* row that stays by one position at most, so it carries at most one of    *)
(* them over the line up to which the client has read.                     *)
(***************************************************************************)
EXTENDS ListingsProperties, FiniteSetTheorems, TLAPS

USE SizesAssumption

AheadOf(r) == {q \in listed : Ahead(q, r)}
Pos(r) == Cardinality(AheadOf(r))

\* Steady rows the client has passed unseen, and those it has seen and that it has seen
\* twice or is to see again.
Missed == {r \in log.steady \ shown : Pos(r) < Skip(page)}
Again == {r \in log.steady \cap shown : Pos(r) >= Skip(page) \/ r \in log.twice}

\* What a request has counted is what there is, but for the rows that came since.
CountHolds ==
  /\ pc = "count" => list.counted
  /\ pc = "find" /\ list.counted => Cardinality(listed) <= total + log.late

ListInv ==
  /\ TypeOK /\ CountHolds
  /\ \A r \in log.steady : Untied(r, key, listed)
  /\ pc # "end" => Cardinality(Missed) <= log.gone /\ Cardinality(Again) <= log.came
  /\ NothingMissed /\ NothingRepeated

-----------------------------------------------------------------------------
(* Counting rows                                                            *)

LEMMA Subsets ==
  ASSUME NEW S \in SUBSET Rows, NEW T \in SUBSET S
  PROVE  /\ IsFiniteSet(S) /\ IsFiniteSet(T)
         /\ Cardinality(S) \in Nat /\ Cardinality(T) \in Nat
         /\ Cardinality(T) <= Cardinality(S)
         /\ Cardinality(T) = Cardinality(S) => T = S
         /\ Cardinality(S \ T) = Cardinality(S) - Cardinality(T)
<1>1. IsFiniteSet(S)
  BY FS_Subset
<1>2. IsFiniteSet(T) /\ S \cap T = T
  BY <1>1, FS_Subset
<1> QED
  BY <1>1, <1>2, FS_Subset, FS_CardinalityType, FS_Difference

\* A set that has at most one member besides those of another has at most one more.
LEMMA OneMore ==
  ASSUME NEW A \in SUBSET Rows, NEW B \in SUBSET Rows, NEW C, B \subseteq A \cup C,
         \A x, y \in C : x = y
  PROVE  Cardinality(B) <= Cardinality(A) + 1
<1>1. PICK z : B \subseteq A \cup {z}
  OBVIOUS
<1>2. IsFiniteSet(A) /\ Cardinality(A) \in Nat
  BY Subsets
<1>3. IsFiniteSet(A \cup {z}) /\ Cardinality(A \cup {z}) <= Cardinality(A) + 1
      /\ Cardinality(A \cup {z}) \in Nat
  <2>1. /\ IsFiniteSet(A \cup {z})
        /\ Cardinality(A \cup {z}) =
             IF z \in A THEN Cardinality(A) ELSE Cardinality(A) + 1
    BY <1>2, FS_AddElement
  <2> QED
    BY <1>2, <2>1
<1>4. Cardinality(B) <= Cardinality(A \cup {z}) /\ Cardinality(B) \in Nat
  BY <1>1, <1>3, FS_Subset, Subsets
<1> QED
  BY <1>2, <1>3, <1>4

LEMMA Rowsets ==
  ASSUME TypeOK
  PROVE  /\ listed \in SUBSET Rows /\ shown \in SUBSET Rows
         /\ log.steady \in SUBSET listed /\ log.twice \in SUBSET shown
         /\ \A r \in Rows : key[r] \in Nat
         /\ log.gone \in Nat /\ log.came \in Nat /\ log.late \in Nat
         /\ DOMAIN log = {"steady", "gone", "came", "late", "twice"}
         /\ page \in Nat \ {0}
         /\ Cardinality(listed) \in Nat
<1>1. listed \in SUBSET Rows /\ shown \in SUBSET Rows /\ \A r \in Rows : key[r] \in Nat
  <2>1. listed \subseteq Made /\ shown \subseteq Made /\ Made \subseteq Rows
    BY DEF TypeOK, Made
  <2>2. key \in [Rows -> Keys \cup {0}] /\ Keys \cup {0} \subseteq Nat
    BY DEF TypeOK
  <2> QED
    BY <2>1, <2>2
<1>2. /\ log.steady \in SUBSET listed /\ log.twice \in SUBSET shown
      /\ log.gone \in Nat /\ log.came \in Nat /\ log.late \in Nat
      /\ DOMAIN log = {"steady", "gone", "came", "late", "twice"}
  BY DEF TypeOK
<1>3. page \in Nat \ {0}
  BY DEF TypeOK
<1>4. Cardinality(listed) \in Nat
  BY <1>1, Subsets
<1> QED
  BY <1>1, <1>2, <1>3, <1>4

\* Pages follow one another without a gap.
LEMMA Skips ==
  ASSUME NEW p \in Nat \ {0}
  PROVE  /\ Skip(p) \in Nat /\ Skip(p + 1) = Skip(p) + Limit /\ Limit \in Nat \ {0}
         /\ Skip(p) + Limit = p * Limit
<1>1. PICK q \in Nat : p = q + 1
  <2>1. p - 1 \in Nat /\ p = (p - 1) + 1
    OBVIOUS
  <2> QED
    BY <2>1
<1>2. \A a \in Nat : a * Limit \in Nat /\ (a + 1) * Limit = a * Limit + Limit
  OBVIOUS
<1>3. Skip(p) = q * Limit /\ Skip(p + 1) = (q + 1) * Limit
  <2>1. p - 1 = q /\ (p + 1) - 1 = q + 1
    BY <1>1
  <2> QED
    BY <2>1 DEF Skip
<1> QED
  BY <1>1, <1>2, <1>3

-----------------------------------------------------------------------------
(* Positions                                                                *)

LEMMA PosType ==
  ASSUME TypeOK, NEW r
  PROVE  /\ AheadOf(r) \subseteq listed /\ IsFiniteSet(AheadOf(r)) /\ Pos(r) \in Nat
         /\ r \notin AheadOf(r)
<1>1. AheadOf(r) \in SUBSET listed /\ listed \in SUBSET Rows
  BY Rowsets DEF AheadOf
<1>2. IsFiniteSet(AheadOf(r)) /\ Pos(r) \in Nat
  BY <1>1, Subsets DEF Pos
<1>3. r \notin AheadOf(r)
  BY <1>1, Rowsets DEF AheadOf, Ahead
<1> QED
  BY <1>1, <1>2, <1>3

\* Of two rows, one of which is alone at its place, one is ahead of the other.
LEMMA OneAhead ==
  ASSUME TypeOK, NEW r \in listed, Untied(r, key, listed), NEW q \in listed, q # r
  PROVE  Ahead(q, r) <=> ~Ahead(r, q)
  BY Rowsets DEF Untied, Ahead

\* Rows that are alone at their places have positions of their own.
LEMMA PosDistinct ==
  ASSUME TypeOK, NEW r \in listed, NEW q \in listed, Untied(r, key, listed),
         Untied(q, key, listed), Pos(r) = Pos(q)
  PROVE  r = q
<1>1. ASSUME NEW a \in listed, NEW b \in listed, Ahead(a, b)
      PROVE  Pos(a) # Pos(b)
  <2>1. AheadOf(a) \subseteq AheadOf(b) /\ a \in AheadOf(b) /\ a \notin AheadOf(a)
    BY <1>1, Rowsets DEF AheadOf, Ahead
  <2>2. AheadOf(b) \in SUBSET Rows /\ AheadOf(a) # AheadOf(b)
    BY <2>1, Rowsets DEF AheadOf
  <2> QED
    BY <2>1, <2>2, Subsets DEF Pos
<1> QED
  BY <1>1, OneAhead

\* The first n rows hold a row that is alone at its place if and only if its position is
\* below n, whatever the order of the others.
LEMMA InPrefix ==
  ASSUME TypeOK, NEW n \in Nat, NEW P \in Prefixes(n), NEW r \in listed,
         Untied(r, key, listed)
  PROVE  r \in P <=> Pos(r) < n
<1>0. /\ listed \in SUBSET Rows /\ P \in SUBSET listed
      /\ Cardinality(P) = IF n < Cardinality(listed) THEN n ELSE Cardinality(listed)
      /\ \A x \in P, q \in listed \ P : ~Ahead(q, x)
  BY Rowsets DEF Prefixes
<1>1. /\ Cardinality(P) \in Nat /\ Cardinality(listed) \in Nat
      /\ Cardinality(P) = Cardinality(listed) => P = listed
  BY <1>0, Subsets
<1>2. ASSUME r \in P PROVE Pos(r) < n
  <2>1. AheadOf(r) \cup {r} \subseteq P
    BY <1>0, <1>2 DEF AheadOf
  <2>2. Cardinality(AheadOf(r) \cup {r}) = Pos(r) + 1 /\ Pos(r) \in Nat
    BY PosType, FS_AddElement DEF Pos
  <2>3. Cardinality(AheadOf(r) \cup {r}) <= Cardinality(P)
    BY <1>0, <2>1, Subsets
  <2> QED
    BY <1>0, <1>1, <2>2, <2>3
<1>3. ASSUME r \notin P PROVE ~(Pos(r) < n)
  <2>1. P \subseteq AheadOf(r)
    BY <1>0, <1>3, OneAhead DEF AheadOf
  <2>2. AheadOf(r) \in SUBSET Rows /\ Pos(r) \in Nat
    BY <1>0, PosType
  <2>3. Cardinality(P) <= Pos(r)
    BY <2>1, <2>2, Subsets DEF Pos
  <2>4. Cardinality(P) = n
    BY <1>0, <1>1, <1>3
  <2> QED
    BY <2>2, <2>3, <2>4
<1> QED
  BY <1>2, <1>3

\* What one page shows, and what lies behind it.
LEMMA PageShows ==
  ASSUME TypeOK, NEW rows \in Page(page)
  PROVE  LET M == Skip(page) + Limit
             n == Cardinality(listed)
             behind == {r \in listed : Untied(r, key, listed) /\ Pos(r) >= M}
         IN  /\ rows \subseteq listed
             /\ \A r \in listed : Untied(r, key, listed) =>
                  (r \in rows <=> Skip(page) <= Pos(r) /\ Pos(r) < M)
             /\ n \in Nat
             /\ Cardinality(rows) = Limit <=> M <= n
             /\ Cardinality(behind) <= IF M < n THEN n - M ELSE 0
<1> DEFINE M == Skip(page) + Limit
           n == Cardinality(listed)
           behind == {r \in listed : Untied(r, key, listed) /\ Pos(r) >= M}
<1>0. /\ listed \in SUBSET Rows /\ Skip(page) \in Nat /\ M \in Nat /\ n \in Nat
      /\ Limit \in Nat \ {0} /\ M = Skip(page) + Limit
  BY Rowsets, Skips
<1> HIDE DEF M
<1>1. PICK P \in Prefixes(Skip(page)), Q \in Prefixes(M) : P \subseteq Q /\ rows = Q \ P
  BY DEF Page, M
<1>2. P \in SUBSET listed /\ Q \in SUBSET listed
  BY DEF Prefixes
<1>3. /\ Cardinality(P) = IF Skip(page) < n THEN Skip(page) ELSE n
      /\ Cardinality(Q) = IF M < n THEN M ELSE n
  BY DEF Prefixes
<1>4. Cardinality(rows) = Cardinality(Q) - Cardinality(P)
  BY <1>0, <1>1, <1>2, Subsets
<1>5. Cardinality(rows) = Limit <=> M <= n
  BY <1>0, <1>3, <1>4
<1>6. ASSUME NEW r \in listed, Untied(r, key, listed)
      PROVE  /\ r \in rows <=> Skip(page) <= Pos(r) /\ Pos(r) < M
             /\ r \in Q <=> Pos(r) < M
  <2>1. r \in P <=> Pos(r) < Skip(page)
    BY <1>0, <1>6, InPrefix
  <2>2. r \in Q <=> Pos(r) < M
    BY <1>0, <1>6, InPrefix
  <2>3. Pos(r) \in Nat
    BY PosType
  <2> QED
    BY <1>0, <1>1, <2>1, <2>2, <2>3
<1>7. Cardinality(behind) <= IF M < n THEN n - M ELSE 0
  <2>1. behind \subseteq listed \ Q
    <3>1. \A r \in listed : Pos(r) \in Nat
      BY PosType
    <3> QED
      BY <1>0, <1>6, <3>1
  <2>2. Cardinality(listed \ Q) = n - Cardinality(Q) /\ listed \ Q \in SUBSET Rows
    BY <1>0, <1>2, Subsets
  <2>3. Cardinality(behind) <= Cardinality(listed \ Q)
    BY <2>1, <2>2, Subsets
  <2> HIDE DEF behind, n
  <2> QED
    BY <1>0, <1>3, <2>2, <2>3
<1> QED
  BY <1>0, <1>1, <1>2, <1>5, <1>6, <1>7 DEF M
-----------------------------------------------------------------------------
(* Changes of the list                                                      *)

\* A change of one row x: what it makes of the list and of the keys.
Touches(x, L, K, gone, came) ==
  /\ x \in Rows /\ L \in SUBSET Rows /\ K \in [Rows -> Keys \cup {0}]
  /\ gone \in {0, 1} /\ came \in {0, 1}
  /\ L \ {x} = listed \ {x}
  /\ \A q \in Rows \ {x} : K[q] = key[q]
  /\ gone = 0 => x \notin listed
  /\ came = 0 => x \notin L
  /\ x \in listed \cap L => K[x] # key[x]
  /\ \A q \in L : K[q] # 0
  /\ \A q \in Made : K[q] # 0

Edits(x) ==
  \/ Create(x) \/ File(x) \/ Reprice(x)
  \/ DeleteProduct(x) \/ DeleteRequest(x) \/ DeleteUser(x)

\* Every request of others changes one row.
LEMMA ChangeTouches ==
  ASSUME TypeOK, NEW x \in Rows, Edits(x)
  PROVE  \E L, K, gone, came : Touches(x, L, K, gone, came) /\ Change(L, K, gone, came)
<1>0. /\ listed \in SUBSET Rows /\ listed \subseteq Made /\ Made \subseteq Rows
      /\ key \in [Rows -> Keys \cup {0}] /\ Keys \subseteq Nat \ {0}
      /\ \A q \in Made : key[q] # 0
  BY DEF TypeOK, Made
<1>1. CASE Create(x)
  <2>1. PICK k \in Keys : Change(listed \cup {x}, [key EXCEPT ![x] = k], 0, 1)
    BY <1>1 DEF Create
  <2>2. x \notin listed
    BY <1>0, <1>1 DEF Create
  <2>3. Touches(x, listed \cup {x}, [key EXCEPT ![x] = k], 0, 1)
    BY <1>0, <2>2 DEF Touches
  <2> QED
    BY <2>1, <2>3
<1>2. CASE Withdraw(x)
  <2>1. Touches(x, listed \ {x}, key, 1, 0)
    BY <1>0 DEF Touches
  <2> QED
    BY <1>2, <2>1 DEF Withdraw
<1>3. CASE File(x)
  <2>1. x \in Made \ listed
    BY <1>3 DEF File
  <2>2. Touches(x, listed \cup {x}, key, 0, 1)
    BY <1>0, <2>1 DEF Touches
  <2> QED
    BY <1>3, <2>2 DEF File
<1>4. CASE Reprice(x)
  <2>1. PICK k \in Keys \ {key[x]} : Change(listed, [key EXCEPT ![x] = k], 1, 1)
    BY <1>4 DEF Reprice
  <2>2. Touches(x, listed, [key EXCEPT ![x] = k], 1, 1)
    BY <1>0 DEF Touches
  <2> QED
    BY <2>1, <2>2
<1> QED
  BY <1>1, <1>2, <1>3, <1>4 DEF Edits, DeleteProduct, DeleteRequest, DeleteUser

\* A change leaves these as they are, and counts what has gone and come.
LEMMA ChangeLog ==
  ASSUME TypeOK, NEW x, NEW L, NEW K, NEW gone, NEW came, Touches(x, L, K, gone, came),
         Change(L, K, gone, came)
  PROVE  /\ listed' = L /\ key' = K /\ pc # "end"
         /\ UNCHANGED <<list, pc, page, total, shown>>
         /\ DOMAIN log' = DOMAIN log
         /\ log'.steady = {r \in log.steady \cap L : K[r] = key[r] /\ Untied(r, K, L)}
         /\ log'.gone = log.gone + gone /\ log'.came = log.came + came
         /\ log'.late = log.late + IF Counting THEN came ELSE 0
         /\ log'.twice = log.twice
  BY Rowsets DEF Change

\* A row that stays moves by one position at most: down when something came, up when
\* something has gone.
LEMMA ChangeMoves ==
  ASSUME TypeOK, NEW x, NEW L, NEW K, NEW gone, NEW came, Touches(x, L, K, gone, came),
         Change(L, K, gone, came), NEW r \in log'.steady
  PROVE  /\ r \in log.steady /\ r # x
         /\ Pos(r) \in Nat /\ Pos(r)' \in Nat
         /\ Pos(r)' <= Pos(r) + came /\ Pos(r) <= Pos(r)' + gone
<1>0. /\ r \in log.steady /\ r \in L /\ K[r] = key[r] /\ r \in listed /\ r \in Rows
      /\ listed \in SUBSET Rows /\ L \in SUBSET Rows
      /\ gone \in {0, 1} /\ came \in {0, 1}
  BY ChangeLog, Rowsets DEF Touches
<1>1. r # x
  BY <1>0 DEF Touches
<1>2. PICK A, B : A = AheadOf(r) /\ B = AheadOf(r)'
  OBVIOUS
<1>3. /\ A \in SUBSET Rows /\ B \in SUBSET Rows
      /\ came = 0 => B \subseteq A
      /\ gone = 0 => A \subseteq B
      /\ B \subseteq A \cup {x} /\ A \subseteq B \cup {x}
  <2>1. listed' = L /\ key' = K /\ list' = list
    BY ChangeLog
  <2>2. B = {q \in L : IF list.order.desc THEN K[q] > K[r] ELSE K[q] < K[r]}
    BY <1>2, <2>1 DEF AheadOf, Ahead
  <2>3. A = {q \in listed : IF list.order.desc THEN key[q] > key[r] ELSE key[q] < key[r]}
    BY <1>2 DEF AheadOf, Ahead
  <2>4. \A q \in Rows \ {x} : q \in A <=> q \in B
    BY <1>0, <2>2, <2>3 DEF Touches
  <2>5. (came = 0 => x \notin B) /\ (gone = 0 => x \notin A)
    BY <2>2, <2>3 DEF Touches
  <2>6. A \in SUBSET Rows /\ B \in SUBSET Rows
    BY <1>0, <2>2, <2>3
  <2> QED
    BY <2>4, <2>5, <2>6
<1>4. Pos(r) = Cardinality(A) /\ Pos(r)' = Cardinality(B)
  BY <1>2 DEF Pos
<1>5. Cardinality(A) \in Nat /\ Cardinality(B) \in Nat
  BY <1>3, Subsets
<1>6. Cardinality(B) <= Cardinality(A) + came
  <2>1. CASE came = 0
    <3>1. B \in SUBSET A /\ A \in SUBSET Rows
      BY <1>3, <2>1
    <3>2. Cardinality(B) <= Cardinality(A)
      BY <3>1, Subsets
    <3> QED
      BY <1>5, <2>1, <3>2
  <2>2. CASE came = 1
    BY <1>3, <2>2, OneMore
  <2> QED
    BY <1>0, <2>1, <2>2
<1>7. Cardinality(A) <= Cardinality(B) + gone
  <2>1. CASE gone = 0
    <3>1. A \in SUBSET B /\ B \in SUBSET Rows
      BY <1>3, <2>1
    <3>2. Cardinality(A) <= Cardinality(B)
      BY <3>1, Subsets
    <3> QED
      BY <1>5, <2>1, <3>2
  <2>2. CASE gone = 1
    BY <1>3, <2>2, OneMore
  <2> QED
    BY <1>0, <2>1, <2>2
<1> QED
  BY <1>0, <1>1, <1>4, <1>5, <1>6, <1>7
LEMMA ChangeType ==
  ASSUME TypeOK, NEW x, NEW L, NEW K, NEW gone, NEW came, Touches(x, L, K, gone, came),
         Change(L, K, gone, came)
  PROVE  TypeOK'
<1>1. Made \subseteq Made' /\ L \subseteq Made'
  BY ChangeLog DEF Touches, Made
<1>2. log' \in [steady : SUBSET L, gone : Nat, came : Nat, late : Nat, twice : SUBSET shown]
  <2>1. log'.steady \in SUBSET L /\ log'.twice \in SUBSET shown
    BY ChangeLog, Rowsets
  <2>2. log'.gone \in Nat /\ log'.came \in Nat /\ log'.late \in Nat
    BY ChangeLog, Rowsets DEF Touches
  <2>3. log' = [steady |-> log'.steady, gone |-> log'.gone, came |-> log'.came,
                late |-> log'.late, twice |-> log'.twice]
    BY DEF Change, TypeOK
  <2> QED
    BY <2>1, <2>2, <2>3
<1>3. listed' = L /\ key' = K /\ UNCHANGED <<list, pc, page, total, shown>>
  BY ChangeLog
<1> QED
  BY <1>1, <1>2, <1>3 DEF TypeOK, Touches

\* Of the steady rows, at most one stands at a given place.
LEMMA OneAtPlace ==
  ASSUME TypeOK, \A r \in log.steady : Untied(r, key, listed), NEW n,
         NEW a \in log.steady, NEW b \in log.steady, Pos(a) = n, Pos(b) = n
  PROVE  a = b
  BY Rowsets, PosDistinct

\* A change lets the client pass one more row unseen only when something has gone.
LEMMA ChangeMissed ==
  ASSUME ListInv, NEW x, NEW L, NEW K, NEW gone, NEW came, Touches(x, L, K, gone, came),
         Change(L, K, gone, came)
  PROVE  Cardinality(Missed') <= log'.gone
<1> DEFINE edge == {r \in log.steady : Pos(r) = Skip(page)}
<1>0. /\ TypeOK /\ Missed \in SUBSET Rows /\ Cardinality(Missed) <= log.gone
      /\ Cardinality(Missed) \in Nat /\ log.gone \in Nat /\ gone \in {0, 1}
      /\ Skip(page) \in Nat
  <2>1. TypeOK /\ pc # "end"
    BY ChangeLog DEF ListInv
  <2>2. Missed \in SUBSET Rows
    BY <2>1, Rowsets DEF Missed
  <2> QED
    BY <2>1, <2>2, Rowsets, Subsets, Skips DEF ListInv, Touches
<1>1. ASSUME NEW r \in Missed'
      PROVE  r \in Missed \/ (gone = 1 /\ r \in edge)
  <2>1. r \in log'.steady /\ r \notin shown /\ Pos(r)' < Skip(page)
    BY <1>0, <1>1, ChangeLog DEF Missed, Skip
  <2>2. /\ r \in log.steady /\ Pos(r) \in Nat /\ Pos(r)' \in Nat
        /\ Pos(r) <= Pos(r)' + gone
    BY <1>0, <2>1, ChangeMoves
  <2> QED
    BY <1>0, <2>1, <2>2 DEF Missed
<1>2. PICK M : M = Missed'
  OBVIOUS
<1>3. M \in SUBSET Rows
  BY <1>0, <1>1, <1>2, Rowsets
<1>4. \A a, b \in edge : a = b
  BY <1>0, OneAtPlace DEF ListInv
<1>5. Cardinality(M) <= Cardinality(Missed) + gone
  <2>1. CASE gone = 0
    <3>1. M \in SUBSET Missed
      BY <1>1, <1>2, <2>1
    <3>2. Cardinality(M) <= Cardinality(Missed)
      BY <1>0, <3>1, Subsets
    <3> QED
      BY <1>0, <2>1, <3>2
  <2>2. CASE gone = 1
    <3>1. M \subseteq Missed \cup edge
      BY <1>1, <1>2
    <3> HIDE DEF edge
    <3>2. Cardinality(M) <= Cardinality(Missed) + 1
      BY <1>0, <1>3, <1>4, <3>1, OneMore
    <3> QED
      BY <2>2, <3>2
  <2> QED
    BY <1>0, <2>1, <2>2
<1>6. Cardinality(M) \in Nat
  BY <1>3, Subsets
<1>7. log'.gone = log.gone + gone
  BY <1>0, ChangeLog
<1> QED
  BY <1>0, <1>2, <1>5, <1>6, <1>7

\* And it puts one more seen row before the client only when something has come.
LEMMA ChangeAgain ==
  ASSUME ListInv, NEW x, NEW L, NEW K, NEW gone, NEW came, Touches(x, L, K, gone, came),
         Change(L, K, gone, came)
  PROVE  Cardinality(Again') <= log'.came
<1> DEFINE edge == {r \in log.steady : Pos(r) = Skip(page) - 1}
<1>0. /\ TypeOK /\ Again \in SUBSET Rows /\ Cardinality(Again) <= log.came
      /\ Cardinality(Again) \in Nat /\ log.came \in Nat /\ came \in {0, 1}
      /\ Skip(page) \in Nat
  <2>1. TypeOK /\ pc # "end"
    BY ChangeLog DEF ListInv
  <2>2. Again \in SUBSET Rows
    BY <2>1, Rowsets DEF Again
  <2> QED
    BY <2>1, <2>2, Rowsets, Subsets, Skips DEF ListInv, Touches
<1>1. ASSUME NEW r \in Again'
      PROVE  r \in Again \/ (came = 1 /\ r \in edge)
  <2>1. r \in log'.steady /\ r \in shown /\ (Pos(r)' >= Skip(page) \/ r \in log.twice)
    BY <1>0, <1>1, ChangeLog DEF Again, Skip
  <2>2. /\ r \in log.steady /\ Pos(r) \in Nat /\ Pos(r)' \in Nat
        /\ Pos(r)' <= Pos(r) + came
    BY <1>0, <2>1, ChangeMoves
  <2> QED
    BY <1>0, <2>1, <2>2 DEF Again
<1>2. PICK M : M = Again'
  OBVIOUS
<1>3. M \in SUBSET Rows
  BY <1>0, <1>1, <1>2, Rowsets
<1>4. \A a, b \in edge : a = b
  BY <1>0, OneAtPlace DEF ListInv
<1>5. Cardinality(M) <= Cardinality(Again) + came
  <2>1. CASE came = 0
    <3>1. M \in SUBSET Again
      BY <1>1, <1>2, <2>1
    <3>2. Cardinality(M) <= Cardinality(Again)
      BY <1>0, <3>1, Subsets
    <3> QED
      BY <1>0, <2>1, <3>2
  <2>2. CASE came = 1
    <3>1. M \subseteq Again \cup edge
      BY <1>1, <1>2
    <3> HIDE DEF edge
    <3>2. Cardinality(M) <= Cardinality(Again) + 1
      BY <1>0, <1>3, <1>4, <3>1, OneMore
    <3> QED
      BY <2>2, <3>2
  <2> QED
    BY <1>0, <2>1, <2>2
<1>6. Cardinality(M) \in Nat
  BY <1>3, Subsets
<1>7. log'.came = log.came + came
  BY <1>0, ChangeLog
<1> QED
  BY <1>0, <1>2, <1>5, <1>6, <1>7

LEMMA ChangeInv ==
  ASSUME ListInv, NEW x, NEW L, NEW K, NEW gone, NEW came, Touches(x, L, K, gone, came),
         Change(L, K, gone, came)
  PROVE  ListInv'
<1>0. /\ TypeOK /\ TypeOK' /\ CountHolds /\ NothingRepeated /\ pc # "end"
      /\ gone \in {0, 1} /\ came \in {0, 1}
  BY ChangeType, ChangeLog DEF ListInv, Touches
<1>1. CountHolds'
  <2>1. Cardinality(L) <= Cardinality(listed) + came /\ Cardinality(L) \in Nat
    <3>1. CASE came = 0
      <4>1. L \in SUBSET listed /\ listed \in SUBSET Rows
        BY <1>0, <3>1, Rowsets DEF Touches
      <4>2. Cardinality(L) <= Cardinality(listed) /\ Cardinality(L) \in Nat
        BY <4>1, Subsets
      <4> QED
        BY <1>0, <3>1, <4>2, Rowsets
    <3>2. CASE came = 1
      <4>1. L \subseteq listed \cup {x} /\ listed \in SUBSET Rows /\ L \in SUBSET Rows
        BY <1>0, Rowsets DEF Touches
      <4>2. Cardinality(L) <= Cardinality(listed) + 1
        BY <4>1, OneMore
      <4>3. Cardinality(L) \in Nat
        BY <4>1, Subsets
      <4> QED
        BY <3>2, <4>2, <4>3
    <3> QED
      BY <1>0, <3>1, <3>2
  <2>2. /\ listed' = L /\ UNCHANGED <<list, pc, total>>
        /\ pc = "find" /\ list.counted => log'.late = log.late + came
    BY <1>0, ChangeLog DEF Counting
  <2>3. Cardinality(listed) \in Nat /\ log.late \in Nat /\ total \in Nat
    BY <1>0, Rowsets DEF TypeOK
  <2> QED
    BY <1>0, <2>1, <2>2, <2>3 DEF CountHolds
<1>2. \A r \in log'.steady : Untied(r, key, listed)'
  BY <1>0, ChangeLog DEF Untied
<1>3. NothingRepeated'
  <2>1. PICK A, B : A = log.twice \cap log.steady /\ B = log'.twice \cap log'.steady
    OBVIOUS
  <2>2. A \in SUBSET Rows /\ B \in SUBSET A
    BY <1>0, <2>1, Rowsets, ChangeLog
  <2>3. Cardinality(B) <= Cardinality(A) /\ Cardinality(A) \in Nat /\ Cardinality(B) \in Nat
    BY <2>2, Subsets
  <2>4. Cardinality(A) <= log.came /\ log'.came = log.came + came /\ log.came \in Nat
    BY <1>0, <2>1, ChangeLog, Rowsets DEF NothingRepeated
  <2> QED
    BY <1>0, <2>1, <2>3, <2>4 DEF NothingRepeated
<1>4. NothingMissed'
  BY <1>0, ChangeLog DEF NothingMissed
<1> QED
  BY <1>0, <1>1, <1>2, <1>3, <1>4, ChangeMissed, ChangeAgain DEF ListInv
-----------------------------------------------------------------------------
(* Pages and counts                                                         *)

\* Division rounds down.
LEMMA Quotient ==
  ASSUME NEW a \in Nat, NEW t \in Nat, NEW d \in Nat \ {0}
  PROVE  a <= t \div d <=> a * d <= t
<1>1. PICK q \in Nat, m \in Nat : q = t \div d /\ t = q * d + m /\ m < d
  <2>1. t \div d \in Nat /\ t % d \in Nat /\ t % d < d /\ t = ((t \div d) * d) + (t % d)
    OBVIOUS
  <2> QED
    BY <2>1
<1>2. ASSUME a <= q PROVE a * d <= t
  <2>1. PICK k \in Nat : q = a + k
    <3>1. q - a \in Nat /\ q = a + (q - a)
      BY <1>2
    <3> QED
      BY <3>1
  <2>2. q * d = a * d + k * d /\ a * d \in Nat /\ k * d \in Nat
    BY <2>1
  <2> QED
    BY <1>1, <2>2
<1>3. ASSUME ~(a <= q) PROVE ~(a * d <= t)
  <2>1. PICK k \in Nat : a = q + 1 + k
    <3>1. a - (q + 1) \in Nat /\ a = q + 1 + (a - (q + 1))
      BY <1>3
    <3> QED
      BY <3>1
  <2>2. a * d = q * d + d + k * d /\ q * d \in Nat /\ k * d \in Nat
    BY <2>1
  <2> QED
    BY <1>1, <2>2
<1> QED
  BY <1>1, <1>2, <1>3

\* There is a next page exactly when not all counted rows are on the pages so far.
LEMMA MorePages ==
  ASSUME NEW p \in Nat \ {0}, NEW t \in Nat
  PROVE  p < TotalPages(t) <=> p * Limit < t
<1>1. /\ p + 1 \in Nat /\ t + Limit - 1 \in Nat /\ Limit \in Nat \ {0}
      /\ (p + 1) * Limit = p * Limit + Limit /\ p * Limit \in Nat
  OBVIOUS
<1>2. p + 1 <= TotalPages(t) <=> (p + 1) * Limit <= t + Limit - 1
  BY <1>1, Quotient DEF TotalPages
<1>3. TotalPages(t) \in Int
  <2>1. \A a \in Nat, d \in Nat \ {0} : a \div d \in Int
    OBVIOUS
  <2> QED
    BY <1>1, <2>1 DEF TotalPages
<1> QED
  BY <1>1, <1>2, <1>3

\* A step that leaves the list, the steady rows, the page and what was shown alone leaves
\* these sets alone.
LEMMA SameSets ==
  ASSUME UNCHANGED <<list, key, listed, page, shown>>, log'.steady = log.steady,
         log'.twice = log.twice
  PROVE  Missed' = Missed /\ Again' = Again
  BY DEF Missed, Again, Pos, AheadOf, Ahead, Skip

LEMMA CountInv ==
  ASSUME ListInv, CountRows
  PROVE  ListInv'
<1>0. /\ TypeOK /\ pc = "count" /\ pc' = "find" /\ total' = Cardinality(listed)
      /\ log' = [log EXCEPT !.late = 0] /\ UNCHANGED <<list, key, listed, page, shown>>
      /\ log'.steady = log.steady /\ log'.twice = log.twice /\ log'.late = 0
      /\ log'.gone = log.gone /\ log'.came = log.came
  BY Rowsets DEF ListInv, CountRows
<1>1. Cardinality(listed) \in 0 .. Cardinality(Rows)
  <2>1. listed \in SUBSET Rows /\ Rows \in SUBSET Rows
    BY <1>0, Rowsets
  <2>2. /\ Cardinality(listed) <= Cardinality(Rows)
        /\ Cardinality(listed) \in Nat /\ Cardinality(Rows) \in Nat
    BY <2>1, Subsets
  <2> QED
    BY <2>2
<1>2. TypeOK'
  BY <1>0, <1>1 DEF TypeOK, Made
<1>3. CountHolds'
  BY <1>0, <1>1 DEF CountHolds
<1>4. Missed' = Missed /\ Again' = Again
  BY <1>0, SameSets
<1> QED
  BY <1>0, <1>2, <1>3, <1>4 DEF ListInv, NothingMissed, NothingRepeated, Untied

LEMMA ReadInv ==
  ASSUME ListInv, ReadPage
  PROVE  ListInv'
<1> DEFINE n == Cardinality(listed)
           M == Skip(page) + Limit
           behind == {r \in listed : Untied(r, key, listed) /\ Pos(r) >= M}
<1>0. /\ TypeOK /\ CountHolds /\ NothingRepeated /\ pc = "find"
      /\ Cardinality(Missed) <= log.gone /\ Cardinality(Again) <= log.came
      /\ \A r \in log.steady : Untied(r, key, listed)
      /\ UNCHANGED <<list, key, listed, total>>
  BY DEF ListInv, ReadPage
<1>1. PICK rows \in Page(page) :
        /\ shown' = shown \cup rows
        /\ log' = [log EXCEPT !.twice = @ \cup (shown \cap rows)]
        /\ IF HasNextPage(rows)
           THEN page' = page + 1 /\ pc' = FirstRead(list)
           ELSE page' = page /\ pc' = "end"
  BY DEF ReadPage
<1>2. /\ rows \subseteq listed
      /\ \A r \in listed : Untied(r, key, listed) =>
           (r \in rows <=> Skip(page) <= Pos(r) /\ Pos(r) < M)
      /\ n \in Nat
      /\ Cardinality(rows) = Limit <=> M <= n
      /\ Cardinality(behind) <= IF M < n THEN n - M ELSE 0
  BY <1>0, PageShows
<1>3. /\ listed \in SUBSET Rows /\ shown \in SUBSET Rows /\ log.steady \in SUBSET listed
      /\ log.twice \in SUBSET shown /\ page \in Nat \ {0} /\ total \in Nat
      /\ log.gone \in Nat /\ log.came \in Nat /\ log.late \in Nat
      /\ total <= Cardinality(Rows)
  BY <1>0, Rowsets DEF TypeOK
<1>4. /\ log'.steady = log.steady /\ log'.gone = log.gone /\ log'.came = log.came
      /\ log'.late = log.late /\ log'.twice = log.twice \cup (shown \cap rows)
  BY <1>0, <1>1, Rowsets
<1>5. /\ Skip(page) \in Nat /\ Skip(page + 1) = M /\ M = page * Limit /\ M \in Nat
      /\ Skip(page) <= M
  <2>1. /\ Skip(page) \in Nat /\ Skip(page + 1) = M /\ M = page * Limit /\ M \in Nat
        /\ Limit \in Nat
    BY <1>3, Skips
  <2> QED
    BY <2>1
<1>6. n <= Cardinality(Rows) /\ Cardinality(Rows) \in Nat
  BY <1>3, Subsets
<1>7. \A r : Pos(r)' = Pos(r) /\ Pos(r) \in Nat
  BY <1>0, PosType DEF Pos, AheadOf, Ahead
<1> HIDE DEF M, n, behind
<1>8. HasNextPage(rows) => page \in 1 .. Cardinality(Rows) \div Limit
  <2>1. ASSUME HasNextPage(rows) PROVE page * Limit <= Cardinality(Rows)
    <3>1. CASE list.counted
      <4>1. page * Limit < total
        BY <1>3, <2>1, <3>1, MorePages DEF HasNextPage
      <4> QED
        BY <1>3, <1>5, <1>6, <4>1
    <3>2. CASE ~list.counted
      BY <1>2, <1>5, <1>6, <2>1, <3>2 DEF HasNextPage
    <3> QED
      BY <3>1, <3>2
  <2>2. HasNextPage(rows) => page <= Cardinality(Rows) \div Limit
    BY <1>3, <1>6, <2>1, Quotient
  <2>3. Cardinality(Rows) \div Limit \in Int
    BY <1>6
  <2> QED
    BY <1>3, <2>2, <2>3
<1>9. TypeOK'
  <2>1. rows \subseteq Made /\ shown \subseteq Made /\ Made' = Made
    BY <1>0, <1>2 DEF TypeOK, Made
  <2>2. page' \in 1 .. (Cardinality(Rows) \div Limit) + 1
    <3>1. Cardinality(Rows) \div Limit \in Int
      BY <1>6
    <3>2. CASE HasNextPage(rows)
      BY <1>1, <1>3, <1>8, <3>1, <3>2
    <3>3. CASE ~HasNextPage(rows)
      BY <1>0, <1>1, <3>3 DEF TypeOK
    <3> QED
      BY <3>2, <3>3
  <2>3. log' \in [steady : SUBSET listed, gone : Nat, came : Nat, late : Nat,
                  twice : SUBSET (shown \cup rows)]
    BY <1>0, <1>1 DEF TypeOK
  <2>4. pc' \in {"count", "find", "end"}
    BY <1>1 DEF FirstRead
  <2> QED
    BY <1>0, <1>1, <2>1, <2>2, <2>3, <2>4 DEF TypeOK
<1>10. CountHolds'
  BY <1>0, <1>1 DEF CountHolds, FirstRead
<1>11. \A r \in log'.steady : Untied(r, key, listed)'
  BY <1>0, <1>4 DEF Untied
<1>12. ASSUME HasNextPage(rows)
       PROVE  Cardinality(Missed') <= log'.gone /\ Cardinality(Again') <= log'.came
  <2>0. page' = page + 1 /\ Skip(page)' = M
    BY <1>1, <1>5, <1>12 DEF Skip
  <2>1. PICK A, B : A = Missed' /\ B = Again'
    OBVIOUS
  <2>2. ASSUME NEW r \in A PROVE r \in Missed
    <3>1. r \in log.steady /\ r \notin shown /\ r \notin rows /\ Pos(r) < M
      BY <1>1, <1>4, <1>7, <2>0, <2>1, <2>2 DEF Missed
    <3>2. Pos(r) < Skip(page)
      BY <1>0, <1>2, <1>3, <1>5, <1>7, <3>1
    <3> QED
      BY <3>1, <3>2 DEF Missed
  <2>3. ASSUME NEW r \in B PROVE r \in Again
    <3>1. /\ r \in log.steady /\ r \in shown \cup rows
          /\ Pos(r) >= M \/ r \in log.twice \cup (shown \cap rows)
      BY <1>1, <1>4, <1>7, <2>0, <2>1, <2>3 DEF Again
    <3>2. r \in rows <=> Skip(page) <= Pos(r) /\ Pos(r) < M
      BY <1>0, <1>2, <1>3, <3>1
    <3>3. Pos(r) \in Nat /\ Skip(page) \in Nat /\ M \in Nat /\ Skip(page) <= M
      BY <1>5, <1>7
    <3>4. CASE r \in log.twice
      BY <1>3, <3>1, <3>4 DEF Again
    <3>5. CASE r \in shown \cap rows
      BY <3>1, <3>2, <3>5 DEF Again
    <3>6. CASE Pos(r) >= M
      <4>1. r \notin rows /\ Pos(r) >= Skip(page)
        BY <3>2, <3>3, <3>6
      <4> QED
        BY <3>1, <4>1 DEF Again
    <3> QED
      BY <3>1, <3>4, <3>5, <3>6
  <2>4. Missed \in SUBSET Rows /\ Again \in SUBSET Rows
    BY <1>3 DEF Missed, Again
  <2>5. Cardinality(A) <= Cardinality(Missed) /\ Cardinality(A) \in Nat
        /\ Cardinality(Missed) \in Nat
    <3>1. A \in SUBSET Missed
      BY <2>2
    <3> QED
      BY <2>4, <3>1, Subsets
  <2>6. Cardinality(B) <= Cardinality(Again) /\ Cardinality(B) \in Nat
        /\ Cardinality(Again) \in Nat
    <3>1. B \in SUBSET Again
      BY <2>3
    <3> QED
      BY <2>4, <3>1, Subsets
  <2> QED
    BY <1>0, <1>3, <1>4, <2>1, <2>5, <2>6
<1>13. NothingRepeated'
  <2>1. PICK B : B = log'.twice \cap log'.steady
    OBVIOUS
  <2>2. ASSUME NEW r \in B PROVE r \in Again
    <3>1. r \in log.steady /\ r \in shown /\ (r \in log.twice \/ r \in rows)
      BY <1>3, <1>4, <2>1, <2>2
    <3>2. r \in rows => Pos(r) >= Skip(page)
      BY <1>0, <1>2, <1>3, <1>5, <1>7, <3>1
    <3> QED
      BY <3>1, <3>2 DEF Again
  <2>3. B \in SUBSET Again /\ Again \in SUBSET Rows
    BY <1>3, <2>2 DEF Again
  <2>4. Cardinality(B) <= Cardinality(Again) /\ Cardinality(B) \in Nat
        /\ Cardinality(Again) \in Nat
    BY <2>3, Subsets
  <2> QED
    BY <1>0, <1>3, <1>4, <2>1, <2>4 DEF NothingRepeated
<1>14. NothingMissed'
  <2> SUFFICES ASSUME ~HasNextPage(rows)
               PROVE  Cardinality(log.steady \ (shown \cup rows)) <= log.gone + log.late
    BY <1>1, <1>4 DEF NothingMissed, FirstRead
  <2>1. PICK B : B = log.steady \ (shown \cup rows)
    OBVIOUS
  <2>2. B \subseteq Missed \cup behind
    <3>1. ASSUME NEW r \in B PROVE r \in Missed \cup behind
      <4>1. r \in log.steady /\ r \in listed /\ r \notin shown /\ r \notin rows
        BY <1>3, <2>1, <3>1
      <4>2. Pos(r) < Skip(page) \/ Pos(r) >= M
        BY <1>0, <1>2, <1>5, <1>7, <4>1
      <4> QED
        BY <1>0, <4>1, <4>2 DEF Missed, behind
    <3> QED
      BY <3>1
  <2>3. Missed \in SUBSET Rows /\ behind \in SUBSET Rows
    BY <1>3 DEF Missed, behind
  <2>4. /\ IsFiniteSet(Missed) /\ IsFiniteSet(behind)
        /\ Cardinality(Missed) \in Nat /\ Cardinality(behind) \in Nat
    BY <2>3, Subsets
  <2>5. Cardinality(B) <= Cardinality(Missed) + Cardinality(behind)
    <3>1. /\ IsFiniteSet(Missed \cup behind)
          /\ Cardinality(Missed \cup behind) =
               Cardinality(Missed) + Cardinality(behind) - Cardinality(Missed \cap behind)
      BY <2>4, FS_Union
    <3>2. Missed \cap behind \in SUBSET Missed
      OBVIOUS
    <3>3. Cardinality(Missed \cap behind) \in Nat
      BY <2>3, <3>2, Subsets
    <3>4. Missed \cup behind \in SUBSET Rows /\ B \in SUBSET (Missed \cup behind)
      BY <2>2, <2>3
    <3>5. /\ Cardinality(B) <= Cardinality(Missed \cup behind)
          /\ Cardinality(B) \in Nat /\ Cardinality(Missed \cup behind) \in Nat
      BY <3>4, Subsets
    <3> QED
      BY <2>4, <3>1, <3>3, <3>5
  <2>6. Cardinality(behind) <= log.late
    <3>1. CASE list.counted
      <4>1. total <= M
        <5>1. ~(page * Limit < total)
          BY <1>3, <3>1, MorePages DEF HasNextPage
        <5> QED
          BY <1>3, <1>5, <5>1
      <4>2. n <= total + log.late
        BY <1>0, <3>1 DEF CountHolds, n
      <4> QED
        BY <1>2, <1>3, <1>5, <2>4, <4>1, <4>2
    <3>2. CASE ~list.counted
      <4>1. ~(M <= n)
        BY <1>2, <3>2 DEF HasNextPage
      <4> QED
        BY <1>2, <1>3, <1>5, <2>4, <4>1
    <3> QED
      BY <3>1, <3>2
  <2>7. Cardinality(B) \in Nat
    <3>1. B \in SUBSET Rows
      BY <1>3, <2>1
    <3> QED
      BY <3>1, Subsets
  <2> QED
    BY <1>0, <1>3, <2>1, <2>4, <2>5, <2>6, <2>7
<1>15. pc' # "end" => HasNextPage(rows)
  BY <1>1
<1> QED
  BY <1>9, <1>10, <1>11, <1>12, <1>13, <1>14, <1>15 DEF ListInv

-----------------------------------------------------------------------------
(* The theorems                                                             *)

LEMMA InitList == Init => ListInv
<1> SUFFICES ASSUME Init PROVE ListInv
  OBVIOUS
<1>1. Cardinality({}) = 0 /\ Cardinality(Rows) \in Nat
  <2>1. Rows \in SUBSET Rows
    OBVIOUS
  <2> QED
    BY <2>1, FS_EmptySet, Subsets
<1>2. TypeOK
  <2>1. 1 \in 1 .. (Cardinality(Rows) \div Limit) + 1
    <3>1. 0 <= Cardinality(Rows) \div Limit
      BY <1>1, Quotient
    <3>2. Cardinality(Rows) \div Limit \in Int
      BY <1>1
    <3> QED
      BY <3>1, <3>2
  <2>2. pc \in {"count", "find", "end"}
    BY DEF Init, FirstRead
  <2> QED
    BY <1>1, <2>1, <2>2 DEF Init, TypeOK
<1>3. Missed = {} /\ Again = {}
  <2>1. Skip(page) = 0 /\ \A r : Pos(r) \in Nat
    BY <1>2, PosType DEF Init, Skip
  <2> QED
    BY <2>1 DEF Init, Missed, Again
<1>4. CountHolds
  BY DEF Init, CountHolds, FirstRead
<1>5. NothingMissed /\ NothingRepeated
  <2>1. log.twice \cap log.steady = {} /\ log.came = 0 /\ pc # "end"
    BY DEF Init, FirstRead
  <2>2. Cardinality(log.twice \cap log.steady) = 0
    BY <1>1, <2>1
  <2> QED
    BY <2>1, <2>2 DEF NothingMissed, NothingRepeated
<1> QED
  <2>1. Cardinality(Missed) <= log.gone /\ Cardinality(Again) <= log.came
    BY <1>1, <1>3 DEF Init
  <2>2. \A r \in log.steady : Untied(r, key, listed)
    BY DEF Init
  <2> QED
    BY <1>2, <1>4, <1>5, <2>1, <2>2 DEF ListInv

LEMMA NextList == ListInv /\ [Next]_vars => ListInv'
<1> SUFFICES ASSUME ListInv, [Next]_vars PROVE ListInv'
  OBVIOUS
<1>1. ASSUME NEW x \in Rows, Edits(x)
      PROVE  ListInv'
  BY <1>1, ChangeTouches, ChangeInv DEF ListInv
<1>2. CASE UNCHANGED vars
  <2>1. UNCHANGED <<list, key, listed, pc, page, total, shown, log>>
    BY <1>2 DEF vars
  <2>2. Missed' = Missed /\ Again' = Again
    BY <2>1, SameSets
  <2> QED
    BY <2>1, <2>2 DEF ListInv, TypeOK, CountHolds, NothingMissed, NothingRepeated, Made,
                      Untied
<1> QED
  BY <1>1, <1>2, CountInv, ReadInv DEF Next, Edits

\* What holds while a client reads page after page of a list that others change.
THEOREM Invariant == Spec => []ListInv
  BY InitList, NextList, PTL DEF Spec

\* No client is sent past the page that follows the last full one, whatever the page size
\* and the number of rows.
THEOREM TypeCorrect == Spec => []TypeOK
<1>1. ListInv => TypeOK
  BY DEF ListInv
<1> QED
  BY <1>1, Invariant, PTL

\* A client that has read to the end has missed no more of the rows that stayed than have
\* gone meanwhile or came after the last count, however many requests interleave.
THEOREM ChangesMiss == Spec => []NothingMissed
<1>1. ListInv => NothingMissed
  BY DEF ListInv
<1> QED
  BY <1>1, Invariant, PTL

\* And it has been shown no more of them twice than have come.
THEOREM ChangesRepeat == Spec => []NothingRepeated
<1>1. ListInv => NothingRepeated
  BY DEF ListInv
<1> QED
  BY <1>1, Invariant, PTL
=============================================================================
