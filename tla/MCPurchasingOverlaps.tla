------------------------ MODULE MCPurchasingOverlaps ------------------------
(***************************************************************************)
(* Small instances of Purchasing with the meetings of calls recorded.      *)
(***************************************************************************)
EXTENDS PurchasingOverlaps, TLC

CONSTANTS e1, c1, c2, c3, staff, boss, acme

Fresh == Permutations(Calls \ Earlier)

OneCompany == [u \in Users |-> acme]

\* What an order comes to: one total is that of a negative quantity.
SomeTotals == {-2, 3}

\* Amounts an administrator sends.
SomeInputs == {-1}
=============================================================================
