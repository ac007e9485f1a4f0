-------------------------- MODULE TransferLifecycle --------------------------
(***************************************************************************)
(* What a stock transfer promises, whatever requests race: its units are   *)
(* at the source until they are sent, on the way until they arrive, all of *)
(* them and once, and back at the source when it is called off; an ended   *)
(* transfer never changes again.  BranchStock implements this as long as   *)
(* requests about one transfer do not overlap.                             *)
(***************************************************************************)
EXTENDS Integers

CONSTANTS Transfers

VARIABLES
  status,  \* the transfer's status
  sent,    \* units the source has given away for it
  arrived  \* units the destination has got

vars == <<status, sent, arrived>>

Init ==
  /\ status = [t \in Transfers |-> "NONE"]
  /\ sent = [t \in Transfers |-> 0]
  /\ arrived = [t \in Transfers |-> 0]

\* No units move
AtRest(t) == sent'[t] = sent[t] /\ arrived'[t] = arrived[t]

Stay(t) == status'[t] = status[t] /\ AtRest(t)

Request(t) == status[t] = "NONE" /\ status'[t] = "PENDING" /\ AtRest(t)

Decide(t) == status[t] = "PENDING" /\ status'[t] \in {"APPROVED", "REJECTED"} /\ AtRest(t)

Send(t) ==
  /\ status[t] = "APPROVED" /\ status'[t] = "IN_TRANSIT"
  /\ sent'[t] \in Nat \ {0}
  /\ arrived'[t] = arrived[t]

Arrive(t) ==
  /\ status[t] = "IN_TRANSIT" /\ status'[t] = "RECEIVED"
  /\ sent'[t] = sent[t]
  /\ arrived'[t] = sent[t]

\* Both at once, without an approval
Carry(t) ==
  /\ status[t] = "PENDING" /\ status'[t] = "COMPLETED"
  /\ sent'[t] \in Nat \ {0}
  /\ arrived'[t] = sent'[t]

CallOff(t) ==
  /\ status[t] \in {"PENDING", "APPROVED", "IN_TRANSIT"} /\ status'[t] = "CANCELLED"
  /\ sent'[t] = 0
  /\ arrived'[t] = arrived[t]

Next ==
  \A t \in Transfers :
    Stay(t) \/ Request(t) \/ Decide(t) \/ Send(t) \/ Arrive(t) \/ Carry(t) \/ CallOff(t)

Spec == Init /\ [][Next]_vars
=============================================================================
