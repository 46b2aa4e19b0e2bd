----------------------------- MODULE MCAccounts -----------------------------
(***************************************************************************)
(* Small instances of Accounts.                                            *)
(***************************************************************************)
EXTENDS AccountsOverlaps, TLC

CONSTANTS f1, i1, c1, c2, c3

SomeEmails == f1 :> "ann" @@ i1 :> "bob"
SomeNames == f1 :> "acme"
SomeHost == i1 :> f1
Alike == Permutations({c2, c3})
=============================================================================
