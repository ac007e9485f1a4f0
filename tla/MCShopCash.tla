------------------------------ MODULE MCShopCash ------------------------------
(* ShopCash with two shifts and two drawer sessions, opened and counted one after the other, an   *)
(* expense that is paid in one of them and voided in any, and two requests.                       *)
EXTENDS ShopCash, TLC

CONSTANTS s1, s2, d1, d2, e1, r1, r2, nobody

Symmetric == Permutations({r1, r2}) \cup Permutations({s1, s2}) \cup Permutations({d1, d2})
=============================================================================
