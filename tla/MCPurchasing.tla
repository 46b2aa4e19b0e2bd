---------------------------- MODULE MCPurchasing ----------------------------
(***************************************************************************)
(* Small instances of Purchasing: one company or two, a request stored.    *)
(***************************************************************************)
EXTENDS PurchasingProperties, TLC

CONSTANTS e1, c1, c2, c3, staff, boss, other, acme, globex

Fresh == Permutations(Calls \ Earlier)

OneCompany == [u \in Users |-> acme]
TwoCompanies == [u \in Users |-> IF u = other THEN globex ELSE acme]

\* What an order comes to: one total is that of a negative quantity.
SomeTotals == {-2, 3}

\* Amounts an administrator sends; the last is more than MaxAmount.
SomeInputs == {-1, 0, 6}
=============================================================================
