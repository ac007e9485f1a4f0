----------------------------- MODULE MCSaleBill -----------------------------
(* SaleBill on a small shop: a screen protector sold by the piece and a phone *)
(* sold by IMEI, of which there are as many as there are serials.             *)
EXTENDS SaleBill, TLC

CONSTANTS s1, s2, r1, r2, x1, x2

MCProducts == {"acc", "phone"}
MCSerialsOf == [p \in MCProducts |-> IF p = "phone" THEN {x1, x2} ELSE {}]
MCUnitPrice == [p \in MCProducts |-> 2]
MCInitialStock == [p \in MCProducts |-> 2]
Basket(a, p) == [i \in MCProducts |-> IF i = "acc" THEN a ELSE p]

BasketsOneBill == {Basket(2, 0), Basket(0, 1)}
BasketsPhone == {Basket(0, 1), Basket(0, 2)}

Split == {[m \in Methods |-> 2]}
TendersMixed == {[m \in {"CASH"} |-> 5], [m \in Methods |-> IF m = "CASH" THEN 1 ELSE 4]}

Symmetric == Permutations({r1, r2}) \cup Permutations({s1, s2}) \cup Permutations({x1, x2})
=============================================================================
