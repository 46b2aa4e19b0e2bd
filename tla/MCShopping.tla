----------------------------- MODULE MCShopping -----------------------------
(***************************************************************************)
(* A small instance of Shopping.                                           *)
(***************************************************************************)
EXTENDS ShoppingProperties, TLC

CONSTANTS e1, e2, c1, c2, c3, ann, sup

\* A quantity and a negative one.
SomeQuantities == {2, -1}

Fresh == Permutations(Calls \ Earlier)
=============================================================================
