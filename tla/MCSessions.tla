----------------------------- MODULE MCSessions -----------------------------
(***************************************************************************)
(* A small instance of Sessions: a user and a super administrator of two   *)
(* companies, each logged in with a browser of their own.                  *)
(***************************************************************************)
EXTENDS SessionsProperties, TLC

CONSTANTS e1, e2, c1, c2, c3, ann, sup, b1, b2, acme, globex, old, new, a, g, h

Fresh == Permutations(Calls \ Earlier)

Employers == [u \in Users |-> IF u = ann THEN acme ELSE globex]
Holders == [c \in Earlier |-> IF c = e1 THEN ann ELSE sup]
Seats == [c \in Earlier |-> IF c = e1 THEN b1 ELSE b2]
FirstRoles == [u \in Users |-> IF u = ann THEN "USER" ELSE "SUPERADMIN"]
FirstNames == [k \in Companies |-> IF k = acme THEN a ELSE g]
=============================================================================
