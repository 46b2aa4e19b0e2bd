----------------------------- MODULE MCListings -----------------------------
(* A list of up to five rows, read two at a time.                           *)
EXTENDS ListingsProperties, TLC

\* Rows differ only by the keys they are given.
Interchangeable == Permutations(Rows)
=============================================================================
