------------------------ MODULE ConnectionPoolProofs ------------------------
(***************************************************************************)
(* Proofs about ConnectionPool, for every number of calls, every mix of    *)
(* operations and every size of the pool.                                  *)
(***************************************************************************)
EXTENDS ConnectionPoolProperties, FiniteSetTheorems, TLAPS

USE PoolAssumption

\* Who holds what: the connection of a transaction belongs to a handler between its begin
\* and its end, a borrowed one to a handler whose statement is being served.
Holding ==
    /\ \A c \in tx : pc[c] \in {"run", "wait", "query"}
    /\ \A c \in lent : pc[c] = "query"

\* TypeOK is not inductive: that the pool is not exceeded needs finite sets, and that a
\* connection is counted once needs Holding.
PoolInv == TypeOK /\ IsFiniteSet(tx) /\ IsFiniteSet(lent) /\ Holding

-----------------------------------------------------------------------------
(* Connections *)

\* Begin and Borrow take a connection only from a pool that has one.
LEMMA Taking ==
    ASSUME NEW A, NEW B, NEW c, IsFiniteSet(A), IsFiniteSet(B),
           Cardinality(A) + Cardinality(B) < PoolSize
    PROVE  /\ IsFiniteSet(A \cup {c})
           /\ Cardinality(A \cup {c}) + Cardinality(B) <= PoolSize
<1>1. Cardinality(A) \in Nat /\ Cardinality(B) \in Nat
  BY FS_CardinalityType
<1>2. /\ IsFiniteSet(A \cup {c})
      /\ Cardinality(A \cup {c}) = IF c \in A THEN Cardinality(A) ELSE Cardinality(A) + 1
  BY FS_AddElement
<1> QED
  BY <1>1, <1>2

\* Giving back never makes the pool fuller.
LEMMA Returning ==
    ASSUME NEW A, NEW B, NEW c, IsFiniteSet(A), IsFiniteSet(B),
           Cardinality(A) + Cardinality(B) <= PoolSize
    PROVE  /\ IsFiniteSet(A \ {c})
           /\ Cardinality(A \ {c}) + Cardinality(B) <= PoolSize
<1>1. Cardinality(A) \in Nat /\ Cardinality(B) \in Nat
  BY FS_CardinalityType
<1>2. /\ IsFiniteSet(A \ {c})
      /\ Cardinality(A \ {c}) = IF c \in A THEN Cardinality(A) - 1 ELSE Cardinality(A)
  BY FS_RemoveElement
<1> QED
  BY <1>1, <1>2

\* The two kinds of connections, each by itself within the pool.
Within == /\ tx \subseteq Calls /\ lent \subseteq Calls
          /\ IsFiniteSet(tx) /\ IsFiniteSet(lent)
          /\ Cardinality(tx) + Cardinality(lent) <= PoolSize

\* Transactions that begin or end leave the pool within its limit.
LEMMA TxWithin ==
    ASSUME Within, NEW c \in Calls, UNCHANGED lent,
           \/ tx' = tx \ {c}
           \/ Free /\ tx' = tx \cup {c}
    PROVE  Within'
<1>1. CASE tx' = tx \ {c}
  BY <1>1, Returning DEF Within
<1>2. CASE Free /\ tx' = tx \cup {c}
  <2>1. IsFiniteSet(tx') /\ Cardinality(tx') + Cardinality(lent) <= PoolSize
    BY <1>2, Taking DEF Within, Free
  <2> QED
    BY <1>2, <2>1 DEF Within
<1> QED
  BY <1>1, <1>2

\* So do borrowed connections.
LEMMA LentWithin ==
    ASSUME Within, NEW c \in Calls, UNCHANGED tx,
           \/ lent' = lent \ {c}
           \/ Free /\ lent' = lent \cup {c}
    PROVE  Within'
<1>1. Cardinality(tx) \in Nat /\ Cardinality(lent) \in Nat
  BY FS_CardinalityType DEF Within
<1>2. Cardinality(lent) + Cardinality(tx) <= PoolSize
  BY <1>1 DEF Within
<1>3. CASE lent' = lent \ {c}
  <2>1. IsFiniteSet(lent') /\ Cardinality(lent') + Cardinality(tx) <= PoolSize
    BY <1>2, <1>3, Returning DEF Within
  <2>2. Cardinality(lent') \in Nat
    BY <2>1, FS_CardinalityType
  <2> QED
    BY <1>1, <1>3, <2>1, <2>2 DEF Within
<1>4. CASE Free /\ lent' = lent \cup {c}
  <2>1. Cardinality(lent) + Cardinality(tx) < PoolSize
    BY <1>1, <1>4 DEF Free
  <2>2. IsFiniteSet(lent') /\ Cardinality(lent') + Cardinality(tx) <= PoolSize
    BY <1>4, <2>1, Taking DEF Within
  <2>3. Cardinality(lent') \in Nat
    BY <2>2, FS_CardinalityType
  <2> QED
    BY <1>1, <1>4, <2>2, <2>3 DEF Within
<1> QED
  BY <1>3, <1>4

-----------------------------------------------------------------------------
(* The inductive invariant *)

LEMMA InitPool == Init => PoolInv
<1> SUFFICES ASSUME Init PROVE PoolInv
  OBVIOUS
<1>1. /\ IsFiniteSet(tx) /\ IsFiniteSet(lent)
      /\ Cardinality(tx) = 0 /\ Cardinality(lent) = 0
  BY FS_EmptySet DEF Init
<1> QED
  BY <1>1 DEF Init, PoolInv, TypeOK, Holding, Labels, Finished

\* The handler's own steps.
LEMMA ServePool ==
    ASSUME PoolInv, NEW c \in Calls, Serve(c) \/ Arrive(c) \/ Throw(c)
    PROVE  PoolInv'
<1> USE DEF Step, connections
<1>0. Within
  BY DEF PoolInv, TypeOK, Within
<1>1. ASSUME Within', Holding', UNCHANGED kind, NEW label \in Labels,
             pc' = [pc EXCEPT ![c] = label], next' = next \/ Proceed(c)
      PROVE  PoolInv'
  <2>1. next' \in [Calls -> Nat]
    BY <1>1 DEF PoolInv, TypeOK, Proceed
  <2> QED
    BY <1>1, <2>1 DEF PoolInv, TypeOK, Within
<1>2. CASE Arrive(c)
  <2>1. Within' /\ Holding'
    BY <1>0, <1>2 DEF Arrive, Within, Holding, PoolInv, TypeOK
  <2> QED
    BY <1>1, <1>2, <2>1 DEF Arrive, Labels
<1>3. CASE Begin(c)
  <2>1. Within'
    BY <1>0, <1>3, TxWithin DEF Begin
  <2>2. Holding'
    BY <1>3 DEF Begin, Holding, PoolInv, TypeOK
  <2> QED
    BY <1>1, <1>3, <2>1, <2>2 DEF Begin, Labels
<1>4. CASE OwnStatement(c)
  <2>1. Within' /\ Holding'
    BY <1>0, <1>4 DEF OwnStatement, Within, Holding, PoolInv, TypeOK
  <2> QED
    BY <1>1, <1>4, <2>1 DEF OwnStatement, Labels
<1>5. CASE OwnStatementFails(c)
  <2>1. Within' /\ Holding'
    BY <1>0, <1>5 DEF OwnStatementFails, Within, Holding, PoolInv, TypeOK
  <2> QED
    BY <1>1, <1>5, <2>1 DEF OwnStatementFails, Labels, Finished
<1>6. CASE Ask(c)
  <2>1. Within' /\ Holding'
    BY <1>0, <1>6 DEF Ask, Within, Holding, PoolInv, TypeOK
  <2> QED
    BY <1>1, <1>6, <2>1 DEF Ask, Labels
<1>7. CASE Borrow(c)
  <2>1. Within'
    BY <1>0, <1>7, LentWithin DEF Borrow
  <2>2. Holding'
    BY <1>7 DEF Borrow, Holding, PoolInv, TypeOK
  <2> QED
    BY <1>1, <1>7, <2>1, <2>2 DEF Borrow, Labels
<1>8. CASE GiveBack(c)
  <2>1. Within'
    BY <1>0, <1>8, LentWithin DEF GiveBack
  <2>2. Holding'
    BY <1>8 DEF GiveBack, Holding, PoolInv, TypeOK
  <2> QED
    BY <1>1, <1>8, <2>1, <2>2 DEF GiveBack, Labels
<1>9. CASE End(c)
  <2>1. Within'
    BY <1>0, <1>9, TxWithin DEF End
  <2>2. Holding'
    BY <1>9 DEF End, Holding, PoolInv, TypeOK
  <2> QED
    BY <1>1, <1>9, <2>1, <2>2 DEF End, Labels, Finished
<1>10. CASE Throw(c)
  <2>1. Within'
    BY <1>0, <1>10, TxWithin DEF Throw
  <2>2. Holding'
    BY <1>10 DEF Throw, Holding, PoolInv, TypeOK
  <2> QED
    BY <1>1, <1>10, <2>1, <2>2 DEF Throw, Labels, Finished
<1> QED
  BY <1>2, <1>3, <1>4, <1>5, <1>6, <1>7, <1>8, <1>9, <1>10 DEF Serve

\* The time limits.
LEMMA LimitPool ==
    ASSUME PoolInv, NEW c \in Calls, TimeLimit(c)
    PROVE  PoolInv'
<1> USE DEF Step, connections
<1>0. Within
  BY DEF PoolInv, TypeOK, Within
<1>1. CASE BeginExpires(c)
  BY <1>1 DEF BeginExpires, PoolInv, TypeOK, Holding, Labels, Finished
<1>2. CASE TxExpires(c)
  <2>1. Within'
    BY <1>0, <1>2, TxWithin DEF TxExpires
  <2> QED
    BY <1>2, <2>1 DEF TxExpires, PoolInv, TypeOK, Holding, Within
<1>3. CASE WaitExpires(c) /\ UNCHANGED connections
  <2>1. next' \in [Calls -> Nat]
    BY <1>3 DEF WaitExpires, Proceed, PoolInv, TypeOK
  <2>2. Holding'
    BY <1>3 DEF WaitExpires, PoolInv, TypeOK, Holding
  <2> QED
    BY <1>3, <2>1, <2>2 DEF WaitExpires, PoolInv, TypeOK, Labels, Finished
<1>4. CASE WaitExpires(c) /\ tx' = tx \ {c} /\ UNCHANGED <<next, lent>>
  <2>1. Within'
    BY <1>0, <1>4, TxWithin
  <2>2. Holding'
    BY <1>4 DEF WaitExpires, PoolInv, TypeOK, Holding
  <2> QED
    BY <1>4, <2>1, <2>2 DEF WaitExpires, PoolInv, TypeOK, Within, Labels, Finished
<1> QED
  BY <1>1, <1>2, <1>3, <1>4 DEF TimeLimit, WaitExpires

LEMMA NextPool == PoolInv /\ [Next]_vars => PoolInv'
<1> SUFFICES ASSUME PoolInv, [Next]_vars PROVE PoolInv'
  OBVIOUS
<1>1. CASE UNCHANGED vars
  BY <1>1 DEF vars, PoolInv, TypeOK, Holding
<1> QED
  BY <1>1, ServePool, LimitPool DEF Next

\* The invariant holds however calls, statements and time limits interleave.
THEOREM Invariant == Spec => []PoolInv
  BY InitPool, NextPool, PTL DEF Spec

\* Every variable is well typed and the pool never lends more than it has, whatever its size.
THEOREM WithinPool == Spec => []TypeOK
<1>1. PoolInv => TypeOK
  BY DEF PoolInv
<1> QED
  BY <1>1, Invariant, PTL

-----------------------------------------------------------------------------
(* Leaks and deadlock *)

\* A handler that has ended has given back the connection of its transaction and whatever
\* it borrowed, also when time limits struck it.
THEOREM NoConnectionLeaks == Spec => []NothingLeaks
<1>1. PoolInv => NothingLeaks
  BY DEF PoolInv, Holding, NothingLeaks, Active, Finished
<1> QED
  BY <1>1, Invariant, PTL

\* When everybody waits, every connection is held by a transaction that asks for another.
LEMMA DryIsNested == PoolInv => DryOnlyWhenNested
<1> SUFFICES ASSUME PoolInv, \E c \in Calls : Active(c),
                    \A c \in Calls : Active(c) => Blocked(c)
             PROVE  Cardinality({c \in tx : pc[c] = "wait"}) = PoolSize
  BY DEF DryOnlyWhenNested
<1>1. ~Free
  BY DEF Blocked
<1>2. lent = {}
  BY DEF PoolInv, TypeOK, Holding, Active, Finished, Blocked
<1>3. {c \in tx : pc[c] = "wait"} = tx
  BY DEF PoolInv, TypeOK, Holding, Active, Finished, Blocked
<1>4. Cardinality(lent) = 0 /\ Cardinality(tx) \in Nat
  BY <1>2, FS_EmptySet, FS_CardinalityType DEF PoolInv
<1>5. Cardinality(tx) = PoolSize
  BY <1>1, <1>4 DEF Free, PoolInv, TypeOK
<1> QED
  BY <1>3, <1>5

\* Handlers that use one connection each never block one another for good, whatever the
\* number of calls and the size of the pool: the pool runs dry only when as many handlers
\* as it has connections ask for a second one inside of their transactions.
THEOREM DeadlockNeedsNesting == Spec => []DryOnlyWhenNested
  BY DryIsNested, Invariant, PTL

-----------------------------------------------------------------------------
(* Steps that are still to come *)

\* No handler has more than six statements.
LEMMA ProgramLengths ==
    ASSUME NEW k \in Kinds
    PROVE  Len(Program[k].run) \in 1..6
<1>1. k \in {"createOrder", "approve", "createRequest", "move", "reject", "viewCart"}
  BY DEF Kinds, Program
<1> QED
  BY <1>1 DEF Program, CreateOrder, ApproveOrderRequest, CreateOrderRequest,
              MoveWishlistToCart, RejectOrderRequest, GetCartItems

\* Which statement a handler has come to: before its first one at "begin", and one that is on
\* the pool's connections where it waits for one.
Place ==
    \A c \in Calls :
        /\ next[c] \in 1..(Len(Statements(c)) + 1)
        /\ pc[c] \in {"wait", "query"} => More(c)
        /\ pc[c] = "wait" => Now(c) \in {"pool", "soft"}

PlaceInv == PoolInv /\ Place

LEMMA KindsOfCalls ==
    ASSUME TypeOK, NEW c \in Calls
    PROVE  Len(Statements(c)) \in 1..6
<1>1. kind[c] \in Kinds
  BY DEF TypeOK
<1> QED
  BY <1>1, ProgramLengths DEF Statements

\* A step is a step of one call.
LEMMA StepOfOne ==
    ASSUME PoolInv, NEW c \in Calls, Arrive(c) \/ Serve(c) \/ Throw(c) \/ TimeLimit(c)
    PROVE  /\ kind' = kind
           /\ \A d \in Calls \ {c} : /\ pc'[d] = pc[d] /\ next'[d] = next[d]
                                     /\ d \in tx' <=> d \in tx
  BY DEF PoolInv, TypeOK, Arrive, Serve, Begin, OwnStatement, OwnStatementFails, Ask, Borrow,
         GiveBack, End, Throw, TimeLimit, BeginExpires, TxExpires, WaitExpires, Step, Proceed,
         connections

LEMMA StepsFromValues ==
    ASSUME NEW left \in Int
    PROVE  /\ StepsFrom("idle", left) = 3 * left + 4
           /\ StepsFrom("begin", left) = 3 * left + 3
           /\ StepsFrom("run", left) = 3 * left + 1
           /\ StepsFrom("wait", left) = 3 * left
           /\ StepsFrom("query", left) = 3 * left - 1
           /\ StepsFrom("done", left) = 0 /\ StepsFrom("failed", left) = 0
  BY DEF StepsFrom

LEMMA StepNearer ==
    ASSUME PlaceInv, NEW c \in Calls, Arrive(c) \/ Serve(c) \/ Throw(c) \/ TimeLimit(c)
    PROVE  Work(c)' < Work(c)
<1> DEFINE size == Len(Statements(c))
           held == IF c \in tx THEN 1 ELSE 0
           holds == IF c \in tx' THEN 1 ELSE 0
<1>0. /\ PoolInv /\ TypeOK /\ TypeOK'
      /\ size \in 1..6 /\ next[c] \in 1..(size + 1) /\ next'[c] \in Nat
      /\ pc[c] \in {"wait", "query"} => next[c] <= size
      /\ pc[c] \in {"idle", "begin"} => c \notin tx
      /\ pc[c] \in Labels /\ pc'[c] \in Labels
  <2>1. PoolInv /\ TypeOK /\ TypeOK' /\ size \in 1..6
    BY KindsOfCalls, ServePool, LimitPool DEF PlaceInv, PoolInv
  <2> QED
    BY <2>1 DEF PlaceInv, Place, More, PoolInv, Holding, TypeOK
<1>1. Statements(c)' = Statements(c)
  BY <1>0, StepOfOne DEF Statements
<1>2. Left(c) = size + 1 - next[c] /\ Left(c)' = size + 1 - next'[c]
  BY <1>1 DEF Left
<1> HIDE DEF size
<1>3. Left(c) \in 0..6 /\ Left(c)' \in Int /\ held \in {0, 1} /\ holds \in {0, 1}
  BY <1>0, <1>2
<1>4. Work(c) = StepsFrom(pc[c], Left(c)) + held /\ Work(c)' = StepsFrom(pc'[c], Left(c)') + holds
  BY DEF Work
<1>5. /\ pc[c] = "idle" => StepsFrom(pc[c], Left(c)) = 3 * Left(c) + 4
      /\ pc[c] = "begin" => StepsFrom(pc[c], Left(c)) = 3 * Left(c) + 3
      /\ pc[c] = "run" => StepsFrom(pc[c], Left(c)) = 3 * Left(c) + 1
      /\ pc[c] = "wait" => StepsFrom(pc[c], Left(c)) = 3 * Left(c)
      /\ pc[c] = "query" => StepsFrom(pc[c], Left(c)) = 3 * Left(c) - 1
  <2>1. Left(c) \in Int
    BY <1>3
  <2> QED
    BY <2>1, StepsFromValues
<1>6. /\ pc'[c] = "begin" => StepsFrom(pc'[c], Left(c)') = 3 * Left(c)' + 3
      /\ pc'[c] = "run" => StepsFrom(pc'[c], Left(c)') = 3 * Left(c)' + 1
      /\ pc'[c] = "wait" => StepsFrom(pc'[c], Left(c)') = 3 * Left(c)'
      /\ pc'[c] = "query" => StepsFrom(pc'[c], Left(c)') = 3 * Left(c)' - 1
      /\ pc'[c] \in {"done", "failed"} => StepsFrom(pc'[c], Left(c)') = 0
  BY <1>3, StepsFromValues
<1>7. ASSUME pc[c] \in {"begin", "run", "wait", "query"}, pc'[c] \in {"done", "failed"},
             c \notin tx'
      PROVE  Work(c)' < Work(c)
  <2>1. Work(c)' = 0
    BY <1>4, <1>6, <1>7
  <2>2. pc[c] \in {"wait", "query"} => Left(c) >= 1
    BY <1>0, <1>2
  <2>3. StepsFrom(pc[c], Left(c)) \in Nat /\ StepsFrom(pc[c], Left(c)) >= 1
    BY <1>3, <1>5, <1>7, <2>2
  <2> QED
    BY <1>3, <1>4, <2>1, <2>3
<1>8. ASSUME next'[c] = next[c] PROVE Left(c)' = Left(c)
  BY <1>2, <1>8
<1>9. ASSUME next'[c] = next[c] + 1 PROVE Left(c)' = Left(c) - 1
  BY <1>0, <1>2, <1>9
<1>10. ASSUME tx' = tx PROVE holds = held
  BY <1>10
<1>11. ASSUME c \notin tx PROVE held = 0
  BY <1>11
<1> HIDE DEF held, holds
<1>12. CASE Arrive(c)
  <2>1. pc[c] = "idle" /\ pc'[c] \in {"begin", "run"} /\ next' = next /\ tx' = tx
    BY <1>0, <1>12 DEF Arrive, Step, TypeOK, connections
  <2> QED
    BY <1>3, <1>4, <1>5, <1>6, <1>8, <1>10, <2>1
<1>13. CASE Begin(c)
  <2>1. pc[c] = "begin" /\ pc'[c] = "run" /\ next' = next
    BY <1>0, <1>13 DEF Begin, Step, TypeOK
  <2> QED
    BY <1>0, <1>3, <1>4, <1>5, <1>6, <1>8, <1>11, <2>1
<1>14. CASE OwnStatement(c) \/ GiveBack(c) \/ (WaitExpires(c) /\ pc'[c] = "run")
  <2>1. /\ pc[c] \in {"run", "wait", "query"} /\ pc'[c] = "run" /\ next'[c] = next[c] + 1
        /\ tx' = tx
    BY <1>0, <1>14
       DEF OwnStatement, GiveBack, WaitExpires, Step, Proceed, TypeOK, connections
  <2> QED
    BY <1>3, <1>4, <1>5, <1>6, <1>9, <1>10, <2>1
<1>15. CASE Ask(c) \/ Borrow(c)
  <2>1. /\ \/ pc[c] = "run" /\ pc'[c] = "wait"
           \/ pc[c] = "wait" /\ pc'[c] = "query"
        /\ next' = next /\ tx' = tx
    BY <1>0, <1>15 DEF Ask, Borrow, Step, TypeOK, connections
  <2> QED
    BY <1>3, <1>4, <1>5, <1>6, <1>8, <1>10, <2>1
<1>16. CASE \/ OwnStatementFails(c) \/ End(c) \/ Throw(c) \/ BeginExpires(c)
            \/ WaitExpires(c) /\ pc'[c] = "failed"
  <2>1. /\ pc[c] \in {"begin", "run", "wait"} /\ pc'[c] \in {"done", "failed"}
        /\ c \notin tx'
    BY <1>0, <1>16
       DEF OwnStatementFails, End, Throw, BeginExpires, WaitExpires, Step, TypeOK, connections
  <2> QED
    BY <1>7, <2>1
<1>17. CASE TxExpires(c)
  <2>1. pc' = pc /\ next' = next /\ c \in tx /\ c \notin tx'
    BY <1>17 DEF TxExpires
  <2>2. held = 1 /\ holds = 0
    BY <2>1 DEF held, holds
  <2>3. StepsFrom(pc'[c], Left(c)') = StepsFrom(pc[c], Left(c))
    BY <1>8, <2>1
  <2>4. StepsFrom(pc[c], Left(c)) \in Int
    <3>1. pc[c] \in {"idle", "begin", "run", "wait", "query"} \/ pc'[c] \in {"done", "failed"}
      BY <1>0, <2>1 DEF Labels, Finished
    <3> QED
      BY <1>3, <1>5, <1>6, <2>3, <3>1
  <2> QED
    BY <1>4, <2>2, <2>3, <2>4
<1>18. CASE WaitExpires(c)
  <2>1. pc'[c] = "run" \/ pc'[c] = "failed"
    BY <1>0, <1>18 DEF WaitExpires, Step, TypeOK
  <2> QED
    BY <1>14, <1>16, <1>18, <2>1
<1>19. CASE Serve(c)
  BY <1>13, <1>14, <1>15, <1>16, <1>19 DEF Serve
<1>20. CASE TimeLimit(c)
  BY <1>16, <1>17, <1>18, <1>20 DEF TimeLimit
<1>21. CASE Throw(c)
  BY <1>16, <1>21
<1> QED
  BY <1>12, <1>19, <1>20, <1>21

LEMMA OthersWork ==
    ASSUME PoolInv, NEW c \in Calls, Arrive(c) \/ Serve(c) \/ Throw(c) \/ TimeLimit(c),
           NEW d \in Calls \ {c}
    PROVE  Work(d)' = Work(d)
<1>1. kind' = kind /\ pc'[d] = pc[d] /\ next'[d] = next[d] /\ (d \in tx' <=> d \in tx)
  BY StepOfOne
<1>2. Left(d)' = Left(d)
  BY <1>1 DEF Left, Statements
<1> QED
  BY <1>1, <1>2 DEF Work

LEMMA InitPlace == Init => PlaceInv
<1> SUFFICES ASSUME Init PROVE PlaceInv
  OBVIOUS
<1>1. PoolInv /\ TypeOK
  BY InitPool DEF PoolInv
<1>2. ASSUME NEW c \in Calls PROVE next[c] \in 1..(Len(Statements(c)) + 1)
  BY <1>1, KindsOfCalls DEF Init
<1> QED
  BY <1>1, <1>2 DEF PlaceInv, Place, Init

LEMMA NextPlace == PlaceInv /\ [Next]_vars => PlaceInv'
<1> SUFFICES ASSUME PlaceInv, [Next]_vars PROVE PlaceInv'
  OBVIOUS
<1>0. PoolInv /\ TypeOK /\ Place
  BY DEF PlaceInv, PoolInv
<1>1. PoolInv'
  BY <1>0, NextPool
<1>2. CASE UNCHANGED vars
  BY <1>0, <1>1, <1>2 DEF vars, PlaceInv, Place, More, Now, Statements
<1>3. ASSUME NEW c \in Calls, Arrive(c) \/ Serve(c) \/ Throw(c) \/ TimeLimit(c)
      PROVE  Place'
  <2>1. /\ kind' = kind
        /\ \A d \in Calls \ {c} : pc'[d] = pc[d] /\ next'[d] = next[d]
    BY <1>0, <1>3, StepOfOne
  <2>2. \A d \in Calls : Statements(d)' = Statements(d)
    BY <2>1 DEF Statements
  <2>3. next[c] \in 1..(Len(Statements(c)) + 1) /\ Len(Statements(c)) \in 1..6
    BY <1>0, KindsOfCalls DEF Place
  <2>4. /\ \/ next'[c] = next[c]
           \/ next'[c] = next[c] + 1 /\ More(c) /\ pc'[c] = "run"
        /\ pc'[c] \in {"wait", "query"} => More(c)
        /\ pc'[c] = "wait" => Now(c) \in {"pool", "soft"}
    <3>1. CASE Serve(c)
      BY <1>0, <3>1
         DEF Place, Serve, Begin, OwnStatement, OwnStatementFails, Ask, Borrow, GiveBack, End,
             Step, Proceed, TypeOK
    <3>2. CASE Arrive(c) \/ Throw(c)
      BY <1>0, <3>2 DEF Arrive, Throw, Step, TypeOK
    <3>3. CASE TimeLimit(c)
      BY <1>0, <3>3
         DEF Place, TimeLimit, BeginExpires, TxExpires, WaitExpires, Step, Proceed, TypeOK
    <3> QED
      BY <1>3, <3>1, <3>2, <3>3
  <2>5. /\ next'[c] \in 1..(Len(Statements(c)) + 1)
        /\ pc'[c] \in {"wait", "query"} => More(c)'
        /\ pc'[c] = "wait" => Now(c)' \in {"pool", "soft"}
    BY <2>2, <2>3, <2>4 DEF More, Now
  <2> QED
    BY <1>0, <2>1, <2>2, <2>5 DEF Place, More, Now
<1> QED
  BY <1>1, <1>2, <1>3 DEF PlaceInv, Next

\* Each call is done after a bounded number of its own steps, at most 22, and nobody else's
\* steps add to them: with a step that is always taken in the end, every call ends.
THEOREM NothingIsRepeated == Spec => StepsBringNearer
<1>1. Spec => []PlaceInv
  BY InitPlace, NextPlace, PTL DEF Spec
<1>2. PlaceInv /\ [Next]_vars
      => [\E c \in Calls : /\ Work(c)' < Work(c)
                           /\ \A d \in Calls \ {c} : Work(d)' = Work(d)]_vars
  <2> SUFFICES ASSUME PlaceInv, NEW c \in Calls,
                      Arrive(c) \/ Serve(c) \/ Throw(c) \/ TimeLimit(c)
               PROVE  /\ Work(c)' < Work(c)
                      /\ \A d \in Calls \ {c} : Work(d)' = Work(d)
    BY DEF Next
  <2> QED
    BY StepNearer, OthersWork DEF PlaceInv
<1> QED
  BY <1>1, <1>2, PTL DEF Spec, StepsBringNearer
=============================================================================
