---------------------- MODULE ConnectionPoolProperties ----------------------
(***************************************************************************)
(* What is claimed of ConnectionPool.                                      *)
(***************************************************************************)
EXTENDS ConnectionPool

Labels == Finished \cup {"begin", "run", "wait", "query"}

\* Every variable has its type, and the pool lends no more connections than it has.
TypeOK ==
    /\ pc \in [Calls -> Labels]
    /\ kind \in Mixes
    /\ next \in [Calls -> Nat]
    /\ tx \subseteq Calls /\ lent \subseteq Calls
    /\ Cardinality(tx) + Cardinality(lent) <= PoolSize

\* However a handler ends - answered, refused, or by any of the three time limits, two of
\* which may strike one call - it leaves no connection behind, neither the one of its
\* transaction nor a borrowed one.
NothingLeaks == \A c \in tx \cup lent : Active(c)

\* What c waits for is not to be had.
Blocked(c) == pc[c] \in {"begin", "wait"} /\ ~Free

\* The pool runs dry, so that only time limits can help, only when all of its connections
\* are held by transactions whose handlers ask for a second one (createOrder,
\* approveOrderRequest, createOrderRequest, moveWishlistToCart).  Handlers with one
\* connection each never block one another for good.
DryOnlyWhenNested ==
    (\E c \in Calls : Active(c)) /\ (\A c \in Calls : Active(c) => Blocked(c))
        => Cardinality({c \in tx : pc[c] = "wait"}) = PoolSize

\* How far a call is from its end: three steps for each statement that may still come, one
\* each for the arrival, the begin and the loss of its transaction.
Left(c) == Len(Statements(c)) + 1 - next[c]
StepsFrom(label, left) ==
    CASE label = "idle" -> 3 * left + 4
      [] label = "begin" -> 3 * left + 3
      [] label = "run" -> 3 * left + 1
      [] label = "wait" -> 3 * left
      [] label = "query" -> 3 * left - 1
      [] OTHER -> 0
Work(c) == StepsFrom(pc[c], Left(c)) + (IF c \in tx THEN 1 ELSE 0)

\* Nothing is tried again and nobody pushes another call back: each step of a handler, of the
\* pool and of a time limit brings one call nearer to its end and the others no farther away.
StepsBringNearer ==
    [][\E c \in Calls : /\ Work(c)' < Work(c)
                        /\ \A d \in Calls \ {c} : Work(d)' = Work(d)]_vars

\* Even so every call is answered: the time limits break the circle.
EveryCallAnswered == \A c \in Calls : Active(c) ~> ~Active(c)
=============================================================================
