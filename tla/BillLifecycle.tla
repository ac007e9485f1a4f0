--------------------------- MODULE BillLifecycle ---------------------------
(***************************************************************************)
(* What a bill promises, whatever requests race on it: it is made once,    *)
(* what the customer has of it and what can still be paid back on it only  *)
(* ever shrink, it is REFUNDED exactly when the last unit is back, and     *)
(* once VOIDED it never changes again.  SaleBill implements this.          *)
(***************************************************************************)
EXTENDS Integers

CONSTANTS Sales, Products

VARIABLES
  status,  \* the bill's status
  out,     \* units of each product the customer has
  left     \* money that can still be paid back

vars == <<status, out, left>>

Nothing == [p \in Products |-> 0]

Init ==
  /\ status = [s \in Sales |-> "NONE"]
  /\ out = [s \in Sales |-> Nothing]
  /\ left = [s \in Sales |-> 0]

Stay(s) ==
  /\ status'[s] = status[s]
  /\ out'[s] = out[s]
  /\ left'[s] = left[s]

Sell(s) ==
  /\ status[s] = "NONE"
  /\ status'[s] = "COMPLETED"
  /\ out'[s] \in [Products -> Nat]
  /\ left'[s] \in Nat

TakeBack(s) ==
  /\ status[s] \in {"COMPLETED", "PARTIAL_REFUND"}
  /\ out'[s] \in [Products -> Nat]
  /\ \A p \in Products : out'[s][p] <= out[s][p]
  /\ left'[s] \in 0..left[s]
  /\ status'[s] = IF out'[s] = Nothing THEN "REFUNDED" ELSE "PARTIAL_REFUND"

Cancel(s) ==
  /\ status[s] \in {"COMPLETED", "PARTIAL_REFUND", "REFUNDED"}
  /\ status'[s] = "VOIDED"
  /\ out'[s] = out[s]
  /\ left'[s] = left[s]

\* An exchange takes one bill's units back and makes another bill in the same step
Next == \A s \in Sales : Stay(s) \/ Sell(s) \/ TakeBack(s) \/ Cancel(s)

Spec == Init /\ [][Next]_vars
=============================================================================
