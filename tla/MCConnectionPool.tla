-------------------------- MODULE MCConnectionPool --------------------------
(***************************************************************************)
(* A small instance of ConnectionPool: all mixes of three calls.  Calls    *)
(* are interchangeable, but a liveness property forbids to say so by       *)
(* SYMMETRY; instead one mix stands for all of its permutations.           *)
(***************************************************************************)
EXTENDS ConnectionPoolProperties

CONSTANTS c1, c2, c3

InOrder == <<"createOrder", "createRequest", "approve", "move", "reject", "viewCart">>

EachMixOnce ==
    {[c \in Calls |-> InOrder[IF c = c1 THEN i ELSE IF c = c2 THEN j ELSE k]] :
        <<i, j, k>> \in {t \in (1 .. 6) \X (1 .. 6) \X (1 .. 6) : t[1] <= t[2] /\ t[2] <= t[3]}}
=============================================================================
