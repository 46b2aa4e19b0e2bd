------------------------------ MODULE MCPricing ------------------------------
(* Two products, and carts with one of them, with both, of which one counts  *)
(* for less than nothing, and with one twice.                                *)
EXTENDS PricingProperties, TLC

CONSTANTS c1, c2, c3, tea, nuts

Item(p, n) == [product |-> p, quantity |-> n]

SomeCarts == {<<Item(tea, 1)>>,
              <<Item(tea, 2), Item(nuts, -1)>>,
              <<Item(nuts, 1), Item(nuts, 1)>>}

Interchangeable == Permutations(Calls)
=============================================================================
