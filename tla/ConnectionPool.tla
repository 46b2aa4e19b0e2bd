--------------------------- MODULE ConnectionPool ---------------------------
(***************************************************************************)
(* The connections that the handlers take from Prisma's pool.              *)
(*                                                                         *)
(* An interactive transaction keeps one connection until it commits or     *)
(* rolls back.  Some handlers ask for a second one while they hold the     *)
(* first, because what they call inside of the transaction uses            *)
(* this.prisma.  When every connection is held by such a handler, none of  *)
(* them can go on, and only Prisma's time limits - which no line of the    *)
(* repository changes - set them free: maxWait for the start of a          *)
(* transaction, timeout for the whole of it, pool_timeout for a single     *)
(* statement.                                                              *)
(***************************************************************************)
EXTENDS Integers, Sequences, FiniteSets

CONSTANTS
    Calls,          \* the HTTP calls
    PoolSize,       \* connection_limit of the pool
    Mixes           \* which operation each call is, in the mixes this instance looks at

-----------------------------------------------------------------------------
(* Where each handler's statements run, in their order: "own" on the connection of its      *)
(* transaction, "pool" on one that is taken from the pool and put back, "soft" likewise,    *)
(* but when none is to be had the handler catches the error and goes on.                    *)
(* Neighbouring statements of one helper are one.                                           *)

CreateOrder == [inTx |-> TRUE, run |-> <<"own", "pool", "soft", "pool", "own", "pool">>]
ApproveOrderRequest == [inTx |-> TRUE, run |-> <<"own", "pool", "own">>]
CreateOrderRequest == [inTx |-> TRUE, run |-> <<"own", "pool", "own", "pool">>]
MoveWishlistToCart == [inTx |-> TRUE, run |-> <<"pool", "pool", "pool", "own">>]
RejectOrderRequest == [inTx |-> TRUE, run |-> <<"own", "own">>]
GetCartItems == [inTx |-> FALSE, run |-> <<"pool", "soft", "soft">>]

Program == [createOrder |-> CreateOrder, approve |-> ApproveOrderRequest,
            createRequest |-> CreateOrderRequest, move |-> MoveWishlistToCart,
            reject |-> RejectOrderRequest, viewCart |-> GetCartItems]
Kinds == DOMAIN Program

ASSUME PoolAssumption == PoolSize \in Nat \ {0} /\ Mixes \subseteq [Calls -> Kinds]

VARIABLES
    pc,         \* where each call stands
    kind,       \* which operation it is
    next,       \* the number of its next statement
    tx,         \* the calls whose transaction is open, each on a connection
    lent        \* the calls that have a connection for one statement

vars == <<pc, kind, next, tx, lent>>
connections == <<tx, lent>>

Finished == {"idle", "done", "failed"}
Active(c) == pc[c] \notin Finished
InTx(c) == Program[kind[c]].inTx
Statements(c) == Program[kind[c]].run
More(c) == next[c] <= Len(Statements(c))
Now(c) == Statements(c)[next[c]]
Free == Cardinality(tx) + Cardinality(lent) < PoolSize

Init ==
    /\ pc = [c \in Calls |-> "idle"]
    /\ kind \in Mixes
    /\ next = [c \in Calls |-> 1]
    /\ tx = {} /\ lent = {}

Step(c, from, to) ==
    /\ pc[c] = from
    /\ pc' = [pc EXCEPT ![c] = to]
    /\ UNCHANGED kind

\* All that was to be moved is in the cart already: the callback returns before its inserts.
NothingToMove(c) == kind[c] = "move" /\ next[c] = 3

Proceed(c) == next' = [next EXCEPT ![c] = next[c] + 1]

-----------------------------------------------------------------------------
(* A client calls *)

Arrive(c) ==
    /\ Step(c, "idle", IF InTx(c) THEN "begin" ELSE "run")
    /\ UNCHANGED <<next, connections>>

-----------------------------------------------------------------------------
(* The handler and the pool *)

\* Slip: the transaction begins on a connection beyond the pool's limit.
BeginUnbounded(c) ==
    /\ Step(c, "begin", "run")
    /\ tx' = tx \cup {c}
    /\ UNCHANGED <<next, lent>>

Begin(c) ==
    /\ Step(c, "begin", "run")
    /\ Free
    /\ tx' = tx \cup {c}
    /\ UNCHANGED <<next, lent>>

OwnStatement(c) ==
    /\ More(c) /\ Now(c) = "own"
    /\ c \in tx
    /\ Step(c, "run", "run")
    /\ Proceed(c)
    /\ UNCHANGED connections

\* The transaction was rolled back under its handler.
OwnStatementFails(c) ==
    /\ More(c) /\ Now(c) = "own"
    /\ c \notin tx
    /\ Step(c, "run", "failed")
    /\ UNCHANGED <<next, connections>>

Ask(c) ==
    /\ More(c) /\ Now(c) \in {"pool", "soft"}
    /\ Step(c, "run", "wait")
    /\ UNCHANGED <<next, connections>>

Borrow(c) ==
    /\ Step(c, "wait", "query")
    /\ Free
    /\ lent' = lent \cup {c}
    /\ UNCHANGED <<next, tx>>

GiveBack(c) ==
    /\ Step(c, "query", "run")
    /\ Proceed(c)
    /\ lent' = lent \ {c}
    /\ UNCHANGED tx

\* A handler that has begun a transaction and finds it rolled back fails at its commit.
End(c) ==
    /\ ~More(c) \/ NothingToMove(c)
    /\ Step(c, "run", IF InTx(c) /\ c \notin tx THEN "failed" ELSE "done")
    /\ tx' = tx \ {c}
    /\ UNCHANGED <<next, lent>>

\* Slip: the error is answered and the transaction forgotten.
ThrowKeepsTransaction(c) ==
    /\ Step(c, "run", "failed")
    /\ UNCHANGED <<next, connections>>

\* A check fails: the row is not there, the budget insufficient.  The callback's exception
\* rolls the transaction back.
Throw(c) ==
    /\ Step(c, "run", "failed")
    /\ tx' = tx \ {c}
    /\ UNCHANGED <<next, lent>>

-----------------------------------------------------------------------------
(* Time limits *)

\* maxWait
BeginExpires(c) ==
    /\ Step(c, "begin", "failed")
    /\ UNCHANGED <<next, connections>>

\* timeout: the connection goes back, the handler notices later.
TxExpires(c) ==
    /\ c \in tx
    /\ tx' = tx \ {c}
    /\ UNCHANGED <<pc, kind, next, lent>>

\* Slip: the statement is tried again, as often as it takes.
WaitExpiresRetries(c) ==
    /\ Step(c, "wait", "run")
    /\ UNCHANGED <<next, connections>>

\* pool_timeout.  The error ends the handler and its transaction, unless the handler catches
\* it: a shipping fee or a budget that cannot be had is left at 0.
WaitExpires(c) ==
    \/ /\ Step(c, "wait", "run")
       /\ Now(c) = "soft"
       /\ Proceed(c)
       /\ UNCHANGED connections
    \/ /\ Step(c, "wait", "failed")
       /\ Now(c) = "pool"
       /\ tx' = tx \ {c}
       /\ UNCHANGED <<next, lent>>

-----------------------------------------------------------------------------

\* What goes on by itself: the handler's code and a database that answers.
Serve(c) ==
    \/ Begin(c) \/ OwnStatement(c) \/ OwnStatementFails(c)
    \/ Ask(c) \/ Borrow(c) \/ GiveBack(c) \/ End(c)

TimeLimit(c) == BeginExpires(c) \/ TxExpires(c) \/ WaitExpires(c)

Next == \E c \in Calls : Arrive(c) \/ Serve(c) \/ Throw(c) \/ TimeLimit(c)

\* Nobody makes a client call or a check fail.  A handler's code runs on when its await is
\* over, and timers fire.
Fairness == \A c \in Calls : WF_vars(Serve(c)) /\ WF_vars(TimeLimit(c))

Spec == Init /\ [][Next]_vars /\ Fairness
=============================================================================
