---------------------------- MODULE BranchStock ----------------------------
(***************************************************************************)
(* The stock of one product in the branches of a shop: stock taken in, out *)
(* and adjusted by hand (adjustStock, src/backend/src/stock/               *)
(* stock.service.ts), counted (setBranchStock) and carried from branch to  *)
(* branch (create-, approve-, reject-, dispatch-, receive-, complete- and  *)
(* cancelTransfer, src/backend/src/branches/branches.service.ts), with the *)
(* movements that explain it and the total kept in Product.stock.          *)
(*                                                                         *)
(* A handler reads and checks first (Ask...).  Its transaction then writes *)
(* the rows of the branches and holds their locks (Write), sums the rows   *)
(* of all branches as READ COMMITTED shows them - its own writes, and of   *)
(* the others what is committed - (Sum), and stores that sum in the        *)
(* product and commits (Commit).  setBranchStock commits the count first   *)
(* and sums and stores the total outside the transaction.                  *)
(***************************************************************************)
EXTENDS Integers, FiniteSets, Functions

CONSTANTS
  Requests,           \* HTTP requests that can be under way
  Branches,
  Transfers,          \* ids of transfers between branches
  InitialQuantity,    \* units of the product in each branch at the start
  Amounts,            \* units moved by one operation
  Counts,             \* what a stock count may find
  Ops,                \* the operations offered
  Exclusive,          \* operations assumed to run with no other request under way
  TransfersOneByOne,  \* whether requests about one transfer are assumed not to overlap
  InFlight,           \* bound: requests under way at a time
  MaxUnits            \* bound: units taken in by hand

\* What a request that is about no transfer has in its place
NoOne == "no transfer"

ASSUME ConstantsAssumption ==
  /\ InitialQuantity \in [Branches -> Nat]
  /\ Amounts \subseteq Nat \ {0}
  /\ Counts \subseteq Nat
  /\ TransfersOneByOne \in BOOLEAN
  /\ NoOne \notin Transfers
  /\ InFlight \in Nat
  /\ MaxUnits \in Nat

VARIABLES
  quantity,  \* BranchStock.quantity, as committed
  card,      \* what the StockMovement rows of each branch come to
  moved,     \* ... and those of each transfer
  transfer,  \* StockTransfer
  summed,    \* the branch quantities that Product.stock is the sum of
  blurred,   \* history: the branches changed while a count of them was under way
  req        \* the requests under way

vars == <<quantity, card, moved, transfer, summed, blurred, req>>

Idle == [op |-> "none"]
NoTransfer == [status |-> "NONE"]

Zero == [b \in Branches |-> 0]
At(b, n) == [Zero EXCEPT ![b] = n]
Plus(f, g) == [b \in Branches |-> f[b] + g[b]]

Init ==
  /\ quantity = InitialQuantity
  /\ card = Zero
  /\ moved = [t \in Transfers |-> Zero]
  /\ transfer = [t \in Transfers |-> NoTransfer]
  /\ summed = InitialQuantity
  /\ blurred = {}
  /\ req = [r \in Requests |-> Idle]

-----------------------------------------------------------------------------
(* Requests: the checks and reads before the transaction                   *)

Busy == {r \in Requests : req[r] # Idle}

\* Request r, about transfer t, may come in now
Ready(r, op, t) ==
  /\ req[r] = Idle
  /\ op \in Ops
  /\ Cardinality(Busy) < InFlight
  /\ Busy # {} => op \notin Exclusive /\ \A x \in Busy : req[x].op \notin Exclusive
  /\ TransfersOneByOne /\ t # NoOne => \A x \in Busy : req[x].t # t

\* What a request remembers: what it will add to the branches, the status it will set
Message(op, t, move, next) ==
  [op |-> op, t |-> t, move |-> move, next |-> next, step |-> "asked", sum |-> Zero]

\* It has passed its checks
Ask(r, message) ==
  /\ req' = [req EXCEPT ![r] = message]
  /\ UNCHANGED <<quantity, card, moved, transfer, summed, blurred>>

\* Mutant: source and destination are not compared
TransferableSame(from, to, q) == quantity[from] >= q

\* Another branch, which has the units
Transferable(from, to, q) == from # to /\ quantity[from] >= q

\* createTransfer: one branch asks another for units it has; one INSERT, no stock moves
CreateTransfer ==
  /\ "create" \in Ops
  /\ \E t \in Transfers, from, to \in Branches, q \in Amounts :
       /\ transfer[t] = NoTransfer
       /\ Transferable(from, to, q)
       /\ transfer' = [transfer EXCEPT ![t] = [status |-> "PENDING", from |-> from, to |-> to,
                                               qty |-> q]]
  /\ UNCHANGED <<quantity, card, moved, summed, blurred, req>>

\* approveTransfer and rejectTransfer
AskDecision(r) ==
  \E t \in Transfers :
    /\ transfer[t].status = "PENDING"
    /\ \/ Ready(r, "approve", t) /\ Ask(r, Message("approve", t, Zero, "APPROVED"))
       \/ Ready(r, "reject", t) /\ Ask(r, Message("reject", t, Zero, "REJECTED"))

\* dispatchTransfer: the units leave the source
AskDispatch(r) ==
  \E t \in Transfers :
    LET x == transfer[t] IN
    /\ Ready(r, "dispatch", t)
    /\ x.status = "APPROVED"
    /\ quantity[x.from] >= x.qty
    /\ Ask(r, Message("dispatch", t, At(x.from, -x.qty), "IN_TRANSIT"))

\* receiveTransfer: they arrive
AskReceive(r) ==
  \E t \in Transfers :
    LET x == transfer[t] IN
    /\ Ready(r, "receive", t)
    /\ x.status = "IN_TRANSIT"
    /\ Ask(r, Message("receive", t, At(x.to, x.qty), "RECEIVED"))

\* completeTransfer: both at once, straight from PENDING
AskComplete(r) ==
  \E t \in Transfers :
    LET x == transfer[t] IN
    /\ Ready(r, "complete", t)
    /\ x.status = "PENDING"
    /\ quantity[x.from] >= x.qty
    /\ Ask(r, Message("complete", t, [At(x.from, -x.qty) EXCEPT ![x.to] = x.qty], "COMPLETED"))

\* Mutant: a transfer that has arrived can still be cancelled
CancellableReceived == {"PENDING", "APPROVED", "IN_TRANSIT", "RECEIVED"}

Cancellable == {"PENDING", "APPROVED", "IN_TRANSIT"}

\* Mutant: units on their way are not given back to the source
RefundNothing(x) == Zero

\* What a cancellation puts back at the source: the units, when they have left it
Refund(x) == IF x.status = "IN_TRANSIT" THEN At(x.from, x.qty) ELSE Zero

AskCancel(r) ==
  \E t \in Transfers :
    /\ Ready(r, "cancel", t)
    /\ transfer[t].status \in Cancellable
    /\ Ask(r, Message("cancel", t, Refund(transfer[t]), "CANCELLED"))

\* adjustStock: units in, out, or a correction up or down
AskAdjust(r) ==
  \E b \in Branches, q \in Amounts :
    \/ /\ Ready(r, "in", NoOne)
       /\ quantity[b] + q <= MaxUnits
       /\ Ask(r, Message("in", NoOne, At(b, q), "NONE"))
    \/ /\ Ready(r, "out", NoOne)
       /\ quantity[b] >= q
       /\ Ask(r, Message("out", NoOne, At(b, -q), "NONE"))
    \/ /\ Ready(r, "adjust", NoOne)
       /\ \E d \in {q, -q} :
            /\ quantity[b] + d \in 0..MaxUnits
            /\ Ask(r, Message("adjust", NoOne, At(b, d), "NONE"))

\* setBranchStock: the branch counted n units; the movement explains the change from what it read
AskCount(r) ==
  /\ Ready(r, "set", NoOne)
  /\ \E b \in Branches, n \in Counts :
       Ask(r, [op |-> "set", t |-> NoOne, move |-> At(b, n - quantity[b]), next |-> "NONE",
               step |-> "asked", sum |-> Zero, branch |-> b, count |-> n])

-----------------------------------------------------------------------------
(* Transactions                                                            *)

Rows(m) == {b \in Branches : m.move[b] # 0}

\* No transaction that has written the row of b is still open
RowFree(b) ==
  \A r \in Busy : req[r].op # "set" /\ req[r].step # "asked" => b \notin Rows(req[r])

\* Mutant: the UPDATE that takes units out has no condition
SufficientUnchecked(m) == TRUE

\* Units go out under a condition on the row (updateMany with quantity >= demand); a correction by
\* hand is an upsert that adds to the row whatever it holds by then
Sufficient(m) ==
  m.op \in {"dispatch", "complete", "out"} =>
    \A b \in Rows(m) : quantity[b] + m.move[b] >= 0

Write(r) ==
  LET m == req[r] IN
  /\ r \in Busy /\ m.op # "set" /\ m.step = "asked"
  /\ Rows(m) # {}
  /\ \A b \in Rows(m) : RowFree(b)
  /\ Sufficient(m)
  /\ req' = [req EXCEPT ![r].step = "wrote"]
  /\ UNCHANGED <<quantity, card, moved, transfer, summed, blurred>>

\* Of these rows, those that another request is counting: it has read them and not yet replaced them
Counted(rows, r) ==
  {b \in rows : \E x \in Busy \ {r} :
     req[x].op = "set" /\ req[x].step = "asked" /\ req[x].branch = b}

\* setBranchStock: the counted number replaces what is there, in a transaction of its own; the
\* movement is the change from what the request read before
WriteCount(r) ==
  LET m == req[r] IN
  /\ m.op = "set" /\ m.step = "asked"
  /\ RowFree(m.branch)
  /\ quantity' = [quantity EXCEPT ![m.branch] = m.count]
  /\ card' = Plus(card, m.move)
  /\ blurred' = blurred \cup Counted({m.branch}, r)
  /\ req' = [req EXCEPT ![r].step = "wrote", ![r].move = Zero]
  /\ UNCHANGED <<moved, transfer, summed>>

\* Mutant: the rows are summed before the transaction has written its own
SeenBefore(m) == quantity

\* What the sum over the branches reads: the transaction's own writes, and what others committed
Seen(m) == Plus(quantity, m.move)

Sum(r) ==
  /\ r \in Busy /\ req[r].step = "wrote"
  /\ req' = [req EXCEPT ![r].step = "summed", ![r].sum = Seen(req[r])]
  /\ UNCHANGED <<quantity, card, moved, transfer, summed, blurred>>

\* The request ends, its transaction committed or rolled back
Done(r) == req' = [req EXCEPT ![r] = Idle]

\* The UPDATE of the transfer has no condition on its status
SetStatus(m) ==
  IF m.t = NoOne THEN transfer ELSE [transfer EXCEPT ![m.t].status = m.next]

\* Mutant: the movement of a dispatch is left to the one who receives
MovementsReceiver(m) == IF m.op = "dispatch" THEN Zero ELSE m.move

\* The movements a transaction records: one for every row it changes
Movements(m) == m.move

Commit(r) ==
  LET m == req[r] IN
  /\ r \in Busy /\ m.step = "summed"
  /\ quantity' = Plus(quantity, m.move)
  /\ card' = Plus(card, Movements(m))
  /\ blurred' = blurred \cup Counted(Rows(m), r)
  /\ moved' = IF m.t = NoOne THEN moved ELSE [moved EXCEPT ![m.t] = Plus(@, Movements(m))]
  /\ summed' = m.sum
  /\ transfer' = SetStatus(m)
  /\ Done(r)

\* A decision that moves no stock is one UPDATE
Decide(r) ==
  /\ r \in Busy /\ req[r].op \in {"approve", "reject", "cancel"}
  /\ Rows(req[r]) = {}
  /\ transfer' = SetStatus(req[r])
  /\ Done(r)
  /\ UNCHANGED <<quantity, card, moved, summed, blurred>>

\* A check in the transaction fails, or server or connection die: an open transaction rolls back.
\* A count that has committed stays, with the total not brought up to date.
Abort(r) ==
  /\ r \in Busy
  /\ Done(r)
  /\ UNCHANGED <<quantity, card, moved, transfer, summed, blurred>>

Next ==
  \/ CreateTransfer
  \/ \E r \in Requests :
       \/ AskDecision(r) \/ AskDispatch(r) \/ AskReceive(r) \/ AskComplete(r) \/ AskCancel(r)
       \/ AskAdjust(r) \/ AskCount(r)
       \/ Write(r) \/ WriteCount(r) \/ Sum(r) \/ Commit(r) \/ Decide(r) \/ Abort(r)

Spec == Init /\ [][Next]_vars
-----------------------------------------------------------------------------
(* Properties                                                              *)

Statuses == {"PENDING", "APPROVED", "REJECTED", "IN_TRANSIT", "RECEIVED", "COMPLETED", "CANCELLED"}
Final == {"REJECTED", "RECEIVED", "COMPLETED", "CANCELLED"}
Carriage == {x \in [status : Statuses, from : Branches, to : Branches, qty : Amounts] : x.from # x.to}
Units == [Branches -> Int]

Request ==
  {Idle}
  \cup [op : {"approve", "reject", "dispatch", "receive", "complete", "cancel", "in", "out", "adjust"},
        t : Transfers \cup {NoOne}, move : Units, next : Statuses \cup {"NONE"},
        step : {"asked", "wrote", "summed"}, sum : Units]
  \cup [op : {"set"}, t : {NoOne}, move : Units, next : {"NONE"},
        step : {"asked", "wrote", "summed"}, sum : Units, branch : Branches, count : Nat]

\* The rows are well formed.
TypeOK ==
  /\ quantity \in Units
  /\ card \in Units
  /\ moved \in [Transfers -> Units]
  /\ transfer \in [Transfers -> {NoTransfer} \cup Carriage]
  /\ summed \in Units
  /\ blurred \subseteq Branches
  /\ req \in [Requests -> Request]

\* No branch ever has less than no units, however many sales, dispatches and corrections race on
\* the same row (adjustStock: an ADJUST "must not drive BranchStock below zero").
NeverBelowZero == \A b \in Branches : quantity[b] >= 0

\* The stock card explains what a branch has (setBranchStock: "the stock card has to explain the
\* new count"): the start and the movements come to it, however transfers, sales by hand and counts
\* race - unless another request has changed the branch while a count of it was under way, between
\* the count's read and its own write: the count's movement then explains a change from a number
\* that was no longer there.
CardExplainsCount ==
  \A b \in Branches \ blurred : quantity[b] = InitialQuantity[b] + card[b]

\* The movements of a transfer are those its status says: none before the dispatch and after a
\* cancellation, out of the source while on the way, out and in when it has arrived.  So no units
\* are lost on the way and none arrive twice.
MovesMatchStatus ==
  \A t \in Transfers : LET x == transfer[t] IN
    moved[t] = CASE x.status = "IN_TRANSIT" -> At(x.from, -x.qty)
                 [] x.status \in {"RECEIVED", "COMPLETED"} ->
                      [At(x.from, -x.qty) EXCEPT ![x.to] = x.qty]
                 [] OTHER -> Zero

\* A transfer that has ended stays as it ended.
EndedStaysEnded ==
  [][\A t \in Transfers : transfer[t].status \in Final => transfer'[t] = transfer[t]]_vars

\* A transfer keeps the promise of TransferLifecycle, its units counted by its movements: what has
\* been agreed, sent, received or called off comes in an order that loses no unit.
Life == INSTANCE TransferLifecycle WITH
  status  <- [t \in Transfers |-> transfer[t].status],
  sent    <- [t \in Transfers |-> IF transfer[t] = NoTransfer THEN 0 ELSE -moved[t][transfer[t].from]],
  arrived <- [t \in Transfers |-> IF transfer[t] = NoTransfer THEN 0 ELSE moved[t][transfer[t].to]]

TransfersKeepPromise == Life!Spec

\* The total stored with a commit counts the rows that commit wrote as they are then: two writers of
\* one branch never leave a total that misses one of them, so it can only be wrong about others.
TotalCountsOwnRows ==
  [][\A r \in Requests : Commit(r) =>
       \A b \in Rows(req[r]) : summed'[b] = quantity'[b]]_vars

\* What the comment in cancelTransfer says ("PENDING or APPROVED - no stock to refund"; in transit
\* the owner "must refund"): a cancelled transfer has all its units back at the source.
CancelledIsRefunded ==
  \A t \in Transfers : transfer[t].status = "CANCELLED" => moved[t] = Zero

\* When no request is under way Product.stock is the sum of the branches ("Recalculate
\* Product.stock shadow from SUM(BranchStock) - prevents drift").
ShadowIsSum == Busy = {} => SumFunction(summed) = SumFunction(quantity)
=============================================================================
