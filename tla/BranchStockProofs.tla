------------------------- MODULE BranchStockProofs -------------------------
(***************************************************************************)
(* Proofs about BranchStock, for any number of branches, transfers and     *)
(* requests.  Base is the shape of the data and of what a request          *)
(* remembers, and Locks what the row locks give; they need no assumption.  *)
(* Each safety invariant is then proved under the serialisation it needs:  *)
(* MovesFit when requests about one transfer do not overlap (then          *)
(* BranchStock implements TransferLifecycle as well), Enough when          *)
(* corrections run alone, TotalFits when all requests that move stock do.  *)
(* CardFits needs none, as it excepts the branches of which a count was    *)
(* overtaken.                                                              *)
(***************************************************************************)
EXTENDS BranchStock, TLAPS

TransferOps == {"approve", "reject", "dispatch", "receive", "complete", "cancel"}

\* What a message is like whatever happens after it was read
Shape(m) ==
  /\ m.op \in TransferOps <=> m.t # NoOne
  /\ m.t # NoOne => m.next \in Statuses
  /\ m.op \in {"in", "receive", "cancel", "approve", "reject"} => \A b \in Branches : m.move[b] >= 0
  /\ m.op = "set" /\ m.step # "asked" => m.move = Zero

Known(m) == m.t # NoOne => transfer[m.t].status # "NONE"

Base ==
  /\ TypeOK
  /\ \A r \in Busy : Shape(req[r]) /\ Known(req[r])

\* What request m about transfer x read of it
ReadOf(m, x) ==
  \/ m.op = "approve" /\ x.status = "PENDING" /\ m.move = Zero /\ m.next = "APPROVED"
  \/ m.op = "reject" /\ x.status = "PENDING" /\ m.move = Zero /\ m.next = "REJECTED"
  \/ /\ m.op = "dispatch" /\ x.status = "APPROVED" /\ m.next = "IN_TRANSIT"
     /\ m.move = At(x.from, -x.qty)
  \/ /\ m.op = "receive" /\ x.status = "IN_TRANSIT" /\ m.next = "RECEIVED"
     /\ m.move = At(x.to, x.qty)
  \/ /\ m.op = "complete" /\ x.status = "PENDING" /\ m.next = "COMPLETED"
     /\ m.move = [At(x.from, -x.qty) EXCEPT ![x.to] = x.qty]
  \/ m.op = "cancel" /\ x.status \in Cancellable /\ m.next = "CANCELLED" /\ m.move = Refund(x)

\* A count remembers a change of its branch: to what is there, unless another has changed that
CountFits(m) ==
  m.op = "set" /\ m.step = "asked" =>
    \E d \in Int : /\ m.move = At(m.branch, d)
                   /\ m.branch \in blurred \/ d = m.count - quantity[m.branch]

\* A correction leaves no row it changes below zero
CorrectionFits(m) == m.op = "adjust" => \A b \in Rows(m) : quantity[b] + m.move[b] >= 0

\* A request that has just passed its checks
NewRequest(r, m) ==
  /\ Ready(r, m.op, m.t)
  /\ Ask(r, m)
  /\ m \in Request \ {Idle}
  /\ m.step = "asked"
  /\ Shape(m)
  /\ m.t # NoOne => m.t \in Transfers /\ ReadOf(m, transfer[m.t])
  /\ CountFits(m)
  /\ CorrectionFits(m)

-----------------------------------------------------------------------------
(* Every step is one of a few kinds                                        *)

\* The functions from branches to numbers a request moves are well formed.
LEMMA UnitsType ==
  /\ Zero \in Units
  /\ \A b \in Branches, n \in Int : At(b, n) \in Units
  /\ \A f, g \in Units : Plus(f, g) \in Units
BY DEF Zero, At, Plus, Units

\* What the functions say of one branch.
LEMMA UnitsAt ==
  ASSUME NEW b \in Branches
  PROVE  /\ Zero[b] = 0
         /\ \A c \in Branches, n \in Int : At(c, n)[b] = IF b = c THEN n ELSE 0
         /\ \A f, g \in Units : Plus(f, g)[b] = f[b] + g[b]
BY DEF Zero, At, Plus, Units

\* Only an idle request has the operation "none".
LEMMA BusyType ==
  ASSUME TypeOK, NEW r \in Busy
  PROVE  /\ r \in Requests /\ req[r] \in Request /\ req[r].op # "none"
         /\ req[r].move \in Units /\ req[r].sum \in Units
         /\ req[r].t \in Transfers \cup {NoOne}
         /\ req[r].step \in {"asked", "wrote", "summed"}
         /\ req[r].op = "set" => req[r].branch \in Branches /\ req[r].count \in Nat
<1>1. r \in Requests /\ req[r] \in Request /\ req[r] # Idle
  BY DEF Busy, TypeOK
<1> QED BY <1>1, SMTT(30) DEF Request

\* A transfer that exists has a row.
LEMMA TransferType ==
  ASSUME TypeOK, NEW t \in Transfers, transfer[t].status # "NONE"
  PROVE  /\ transfer[t] \in Carriage
         /\ transfer[t].from \in Branches /\ transfer[t].to \in Branches
         /\ transfer[t].from # transfer[t].to
         /\ transfer[t].qty \in Nat \ {0} /\ transfer[t].status \in Statuses
<1>1. transfer[t] \in {NoTransfer} \cup Carriage /\ NoTransfer.status = "NONE"
  BY DEF TypeOK, NoTransfer
<1>2. transfer[t] \in Carriage
  BY <1>1
<1> QED BY <1>2, ConstantsAssumption DEF Carriage

\* A message about no branch's count is well formed.
LEMMA MessageType ==
  ASSUME NEW op \in TransferOps \cup {"in", "out", "adjust"}, NEW t \in Transfers \cup {NoOne},
         NEW move \in Units, NEW next \in Statuses \cup {"NONE"}
  PROVE  /\ Message(op, t, move, next) \in Request \ {Idle}
         /\ Message(op, t, move, next).op = op /\ Message(op, t, move, next).t = t
         /\ Message(op, t, move, next).move = move /\ Message(op, t, move, next).next = next
         /\ Message(op, t, move, next).step = "asked"
<1> DEFINE m == Message(op, t, move, next)
<1>1. m = [op |-> op, t |-> t, move |-> move, next |-> next, step |-> "asked", sum |-> Zero]
  BY DEF Message
<1>2. m \in Request
  BY <1>1, UnitsType, SMTT(30) DEF Request, TransferOps
<1>3. m.op # "none"
  BY <1>1 DEF TransferOps
<1>4. m # Idle
  BY <1>3 DEF Idle
<1> QED BY <1>1, <1>2, <1>4

\* Every handler of a transfer remembers what it read of that transfer.
LEMMA AskTransferStep ==
  ASSUME Base, NEW r \in Requests,
         AskDecision(r) \/ AskDispatch(r) \/ AskReceive(r) \/ AskComplete(r) \/ AskCancel(r)
  PROVE  \E m : NewRequest(r, m)
<1> USE ConstantsAssumption
<1>1. PICK t \in Transfers, op \in TransferOps, move \in Units, next \in Statuses :
        LET m == Message(op, t, move, next) IN
        /\ Ready(r, op, t) /\ Ask(r, m)
        /\ ReadOf(m, transfer[t])
        /\ op \in {"receive", "cancel", "approve", "reject"} => \A b \in Branches : move[b] >= 0
  <2>1. CASE AskDecision(r)
    <3>1. PICK t \in Transfers :
            /\ transfer[t].status = "PENDING"
            /\ \/ Ready(r, "approve", t) /\ Ask(r, Message("approve", t, Zero, "APPROVED"))
               \/ Ready(r, "reject", t) /\ Ask(r, Message("reject", t, Zero, "REJECTED"))
      BY <2>1 DEF AskDecision
    <3>2. /\ "approve" \in TransferOps /\ "reject" \in TransferOps
          /\ "APPROVED" \in Statuses /\ "REJECTED" \in Statuses
      BY DEF TransferOps, Statuses
    <3>3. /\ ReadOf(Message("approve", t, Zero, "APPROVED"), transfer[t])
          /\ ReadOf(Message("reject", t, Zero, "REJECTED"), transfer[t])
      BY <3>1, <3>2, UnitsType, MessageType DEF ReadOf
    <3> QED BY <3>1, <3>2, <3>3, UnitsType, UnitsAt
  <2>2. CASE AskDispatch(r)
    <3>1. PICK t \in Transfers :
            /\ Ready(r, "dispatch", t) /\ transfer[t].status = "APPROVED"
            /\ Ask(r, Message("dispatch", t, At(transfer[t].from, -transfer[t].qty), "IN_TRANSIT"))
      BY <2>2 DEF AskDispatch
    <3> DEFINE move == At(transfer[t].from, -transfer[t].qty)
    <3>2. "dispatch" \in TransferOps /\ "IN_TRANSIT" \in Statuses /\ move \in Units
      BY <3>1, TransferType, UnitsType DEF TransferOps, Statuses, Base
    <3>3. ReadOf(Message("dispatch", t, move, "IN_TRANSIT"), transfer[t])
      BY <3>1, <3>2, MessageType DEF ReadOf
    <3> QED BY <3>1, <3>2, <3>3
  <2>3. CASE AskReceive(r)
    <3>1. PICK t \in Transfers :
            /\ Ready(r, "receive", t) /\ transfer[t].status = "IN_TRANSIT"
            /\ Ask(r, Message("receive", t, At(transfer[t].to, transfer[t].qty), "RECEIVED"))
      BY <2>3 DEF AskReceive
    <3> DEFINE move == At(transfer[t].to, transfer[t].qty)
    <3>2. "receive" \in TransferOps /\ "RECEIVED" \in Statuses /\ move \in Units
      BY <3>1, TransferType, UnitsType DEF TransferOps, Statuses, Base
    <3>3. ReadOf(Message("receive", t, move, "RECEIVED"), transfer[t])
      BY <3>1, <3>2, MessageType DEF ReadOf
    <3>4. \A b \in Branches : move[b] >= 0
      BY <3>1, TransferType, UnitsAt DEF Base
    <3> QED BY <3>1, <3>2, <3>3, <3>4
  <2>4. CASE AskComplete(r)
    <3>1. PICK t \in Transfers :
            LET x == transfer[t] IN
            /\ Ready(r, "complete", t) /\ x.status = "PENDING"
            /\ Ask(r, Message("complete", t, [At(x.from, -x.qty) EXCEPT ![x.to] = x.qty],
                              "COMPLETED"))
      BY <2>4 DEF AskComplete
    <3> DEFINE x == transfer[t]
               move == [At(x.from, -x.qty) EXCEPT ![x.to] = x.qty]
    <3>2. At(x.from, -x.qty) \in Units /\ x.qty \in Int
      BY <3>1, TransferType, UnitsType DEF Base
    <3>3. "complete" \in TransferOps /\ "COMPLETED" \in Statuses /\ move \in Units
      BY <3>2 DEF TransferOps, Statuses, Units
    <3>4. ReadOf(Message("complete", t, move, "COMPLETED"), transfer[t])
      BY <3>1, <3>3, MessageType DEF ReadOf
    <3> QED BY <3>1, <3>3, <3>4, Zenon DEF TransferOps
  <2>5. CASE AskCancel(r)
    <3>1. PICK t \in Transfers :
            /\ Ready(r, "cancel", t) /\ transfer[t].status \in Cancellable
            /\ Ask(r, Message("cancel", t, Refund(transfer[t]), "CANCELLED"))
      BY <2>5 DEF AskCancel
    <3> DEFINE move == Refund(transfer[t])
    <3>2. "cancel" \in TransferOps /\ "CANCELLED" \in Statuses /\ move \in Units
      BY <3>1, TransferType, UnitsType DEF TransferOps, Statuses, Base, Refund, Cancellable
    <3>3. ReadOf(Message("cancel", t, move, "CANCELLED"), transfer[t])
      BY <3>1, <3>2, MessageType DEF ReadOf
    <3>4. \A b \in Branches : move[b] >= 0
      BY <3>1, TransferType, UnitsAt DEF Base, Refund, Cancellable
    <3> QED BY <3>1, <3>2, <3>3, <3>4
  <2> QED BY <2>1, <2>2, <2>3, <2>4, <2>5
<1> DEFINE m == Message(op, t, move, next)
<1>2. /\ m \in Request \ {Idle} /\ m.op = op /\ m.t = t /\ m.move = move /\ m.next = next
      /\ m.step = "asked"
  BY MessageType
<1>3. t # NoOne /\ op \notin {"in", "set", "adjust"}
  BY DEF TransferOps
<1>4. Shape(m)
  BY <1>1, <1>2, <1>3 DEF Shape
<1>5. CountFits(m) /\ CorrectionFits(m)
  BY <1>2, <1>3 DEF CountFits, CorrectionFits
<1> HIDE DEF m
<1>6. NewRequest(r, m)
  BY <1>1, <1>2, <1>4, <1>5 DEF NewRequest, m
<1> QED BY <1>6

\* A change by hand remembers a change of one row, down only as far as the row went when read.
LEMMA AskAdjustStep ==
  ASSUME Base, NEW r \in Requests, AskAdjust(r)
  PROVE  \E m : NewRequest(r, m)
<1> USE ConstantsAssumption
<1>1. PICK b \in Branches, q \in Amounts :
        \/ Ready(r, "in", NoOne) /\ Ask(r, Message("in", NoOne, At(b, q), "NONE"))
        \/ Ready(r, "out", NoOne) /\ Ask(r, Message("out", NoOne, At(b, -q), "NONE"))
        \/ /\ Ready(r, "adjust", NoOne)
           /\ \E d \in {q, -q} : /\ quantity[b] + d \in 0..MaxUnits
                                 /\ Ask(r, Message("adjust", NoOne, At(b, d), "NONE"))
  BY DEF AskAdjust
<1>2. PICK op \in {"in", "out", "adjust"}, d \in Int :
        /\ Ready(r, op, NoOne) /\ Ask(r, Message(op, NoOne, At(b, d), "NONE"))
        /\ op = "in" => d >= 0
        /\ op = "adjust" => quantity[b] + d >= 0
  <2>1. q \in Int /\ -q \in Int /\ q >= 0
    OBVIOUS
  <2>2. CASE Ready(r, "in", NoOne) /\ Ask(r, Message("in", NoOne, At(b, q), "NONE"))
    BY <2>1, <2>2
  <2>3. CASE Ready(r, "out", NoOne) /\ Ask(r, Message("out", NoOne, At(b, -q), "NONE"))
    BY <2>1, <2>3
  <2>4. ASSUME Ready(r, "adjust", NoOne), NEW d \in {q, -q}, quantity[b] + d \in 0..MaxUnits,
               Ask(r, Message("adjust", NoOne, At(b, d), "NONE"))
        PROVE  \E op \in {"in", "out", "adjust"}, e \in Int :
                 /\ Ready(r, op, NoOne) /\ Ask(r, Message(op, NoOne, At(b, e), "NONE"))
                 /\ op = "in" => e >= 0
                 /\ op = "adjust" => quantity[b] + e >= 0
    <3>1. d \in Int /\ quantity[b] + d >= 0
      BY <2>1, <2>4
    <3> QED BY <2>4, <3>1
  <2> QED BY <1>1, <2>2, <2>3, <2>4
<1> DEFINE m == Message(op, NoOne, At(b, d), "NONE")
<1>3. /\ m \in Request \ {Idle} /\ m.op = op /\ m.t = NoOne /\ m.move = At(b, d)
      /\ m.step = "asked"
  <2>1. At(b, d) \in Units
    BY UnitsType
  <2>2. /\ op \in TransferOps \cup {"in", "out", "adjust"}
        /\ NoOne \in Transfers \cup {NoOne}
        /\ "NONE" \in Statuses \cup {"NONE"}
    OBVIOUS
  <2> QED BY <2>1, <2>2, MessageType
<1> HIDE DEF m
<1>4. \A c \in Branches : m.move[c] = IF c = b THEN d ELSE 0
  BY <1>3, UnitsAt
<1>5. Shape(m)
  BY <1>2, <1>3, <1>4 DEF Shape, TransferOps
<1>6. CountFits(m)
  BY <1>3 DEF CountFits
<1>7. CorrectionFits(m)
  BY <1>2, <1>3, <1>4 DEF CorrectionFits, Rows
<1>8. NewRequest(r, m)
  BY <1>2, <1>3, <1>5, <1>6, <1>7 DEF NewRequest, m
<1> QED BY <1>8

\* A count remembers the change to the row it read.
LEMMA AskCountStep ==
  ASSUME Base, NEW r \in Requests, AskCount(r)
  PROVE  \E m : NewRequest(r, m)
<1>1. PICK b \in Branches, n \in Counts :
        /\ Ready(r, "set", NoOne)
        /\ Ask(r, [op |-> "set", t |-> NoOne, move |-> At(b, n - quantity[b]), next |-> "NONE",
                   step |-> "asked", sum |-> Zero, branch |-> b, count |-> n])
  BY DEF AskCount
<1>2. n \in Nat /\ quantity[b] \in Int /\ At(b, n - quantity[b]) \in Units
  BY ConstantsAssumption, UnitsType DEF Base, TypeOK, Units
<1> DEFINE m == [op |-> "set", t |-> NoOne, move |-> At(b, n - quantity[b]), next |-> "NONE",
                 step |-> "asked", sum |-> Zero, branch |-> b, count |-> n]
<1>3. m \in Request /\ m.op # "none"
  BY <1>2, UnitsType DEF Request
<1>4. m # Idle
  BY <1>3 DEF Idle
<1>5. Shape(m) /\ CountFits(m) /\ CorrectionFits(m)
  <2>1. n - quantity[b] \in Int
    BY <1>2
  <2> QED BY <2>1 DEF Shape, TransferOps, CountFits, CorrectionFits
<1>6. Ready(r, m.op, m.t) /\ Ask(r, m) /\ m.step = "asked" /\ m.t = NoOne
  BY <1>1
<1> HIDE DEF m
<1>7. NewRequest(r, m)
  BY <1>3, <1>4, <1>5, <1>6 DEF NewRequest
<1> QED BY <1>7

\* The kinds of steps the proofs below go through.
LEMMA StepKinds ==
  ASSUME Base, [Next]_vars
  PROVE  \/ \E r \in Requests : \E m : NewRequest(r, m)
         \/ CreateTransfer
         \/ \E r \in Busy : \/ Write(r) \/ WriteCount(r) \/ Sum(r) \/ Commit(r) \/ Decide(r)
                            \/ Abort(r)
         \/ UNCHANGED vars
<1>1. ASSUME NEW r \in Requests, WriteCount(r)
      PROVE  r \in Busy
  <2>1. Idle.op # "set"
    BY DEF Idle
  <2> QED BY <1>1, <2>1 DEF WriteCount, Busy
<1>2. ASSUME NEW r \in Requests, Write(r) \/ Sum(r) \/ Commit(r) \/ Decide(r) \/ Abort(r)
      PROVE  r \in Busy
  BY <1>2 DEF Write, Sum, Commit, Decide, Abort
<1>3. CASE Next
  BY <1>1, <1>2, <1>3, AskTransferStep, AskAdjustStep, AskCountStep DEF Next
<1> QED BY <1>3

-----------------------------------------------------------------------------
(* Base: the data and the messages are well formed                         *)

\* A request that ends leaves the others as they are.
LEMMA DoneOthers ==
  ASSUME Base, NEW r \in Busy, Done(r)
  PROVE  /\ Busy' = Busy \ {r}
         /\ \A x \in Busy \ {r} : req'[x] = req[x]
         /\ req' \in [Requests -> Request]
<1>1. req' = [req EXCEPT ![r] = Idle] /\ req \in [Requests -> Request] /\ r \in Requests
  BY DEF Done, Base, TypeOK, Busy
<1>2. \A x \in Requests : req'[x] = IF x = r THEN Idle ELSE req[x]
  BY <1>1
<1>3. Idle \in Request
  BY DEF Request
<1> QED BY <1>1, <1>2, <1>3 DEF Busy

\* A request that goes on to the next step of its transaction.
LEMMA NextStep ==
  ASSUME Base, NEW r \in Busy, NEW m \in Request, m.op # "none", req' = [req EXCEPT ![r] = m]
  PROVE  /\ Busy' = Busy
         /\ req'[r] = m
         /\ \A x \in Busy \ {r} : req'[x] = req[x]
         /\ req' \in [Requests -> Request]
<1>1. req \in [Requests -> Request] /\ r \in Requests /\ m # Idle
  BY DEF Base, TypeOK, Busy, Idle
<1>2. \A x \in Requests : req'[x] = IF x = r THEN m ELSE req[x]
  BY <1>1
<1> QED BY <1>1, <1>2 DEF Busy

\* A request that comes in joins the ones under way.
LEMMA NewStep ==
  ASSUME Base, NEW r \in Requests, NEW m, NewRequest(r, m)
  PROVE  /\ UNCHANGED <<quantity, card, moved, transfer, summed, blurred>>
         /\ Busy' = Busy \cup {r}
         /\ r \notin Busy
         /\ req'[r] = m
         /\ \A x \in Busy : req'[x] = req[x]
         /\ req' \in [Requests -> Request]
<1>1. /\ req[r] = Idle /\ req' = [req EXCEPT ![r] = m] /\ req \in [Requests -> Request]
      /\ m \in Request /\ m # Idle /\ UNCHANGED <<quantity, card, moved, transfer, summed, blurred>>
  BY DEF NewRequest, Ready, Ask, Base, TypeOK
<1>2. \A x \in Requests : req'[x] = IF x = r THEN m ELSE req[x]
  BY <1>1
<1> QED BY <1>1, <1>2 DEF Busy

\* The two forms of a message.
RowRequest ==
  [op : TransferOps \cup {"in", "out", "adjust"}, t : Transfers \cup {NoOne},
   move : Units, next : Statuses \cup {"NONE"}, step : {"asked", "wrote", "summed"}, sum : Units]

CountRequest ==
  [op : {"set"}, t : {NoOne}, move : Units, next : {"NONE"}, step : {"asked", "wrote", "summed"},
   sum : Units, branch : Branches, count : Nat]

\* A request under way has one of them.
LEMMA RequestKinds ==
  /\ Request \ {Idle} = RowRequest \cup CountRequest
  /\ \A m \in Request : m # Idle <=> m.op # "none"
<1>1. Request = {Idle} \cup RowRequest \cup CountRequest
  BY DEF Request, RowRequest, CountRequest, TransferOps
<1>2. \A m \in RowRequest \cup CountRequest : m.op # "none"
  BY DEF RowRequest, CountRequest, TransferOps
<1> QED BY <1>1, <1>2 DEF Idle

\* A message whose transaction has come to another step.
LEMMA SetStep ==
  ASSUME NEW m \in Request \ {Idle}, NEW step \in {"wrote", "summed"}
  PROVE  LET n == [m EXCEPT !.step = step] IN
         /\ n \in Request \ {Idle} /\ n.op = m.op /\ n.t = m.t /\ n.move = m.move
         /\ n.next = m.next /\ n.sum = m.sum /\ n.step = step
<1> DEFINE n == [m EXCEPT !.step = step]
<1>1. CASE m \in RowRequest
  <2>1. /\ n \in RowRequest /\ n.step = step
        /\ n.op = m.op /\ n.t = m.t /\ n.move = m.move /\ n.next = m.next /\ n.sum = m.sum
    BY <1>1 DEF RowRequest
  <2> QED BY <2>1, RequestKinds
<1>2. CASE m \in CountRequest
  <2>1. /\ n \in CountRequest /\ n.step = step
        /\ n.op = m.op /\ n.t = m.t /\ n.move = m.move /\ n.next = m.next /\ n.sum = m.sum
    BY <1>2 DEF CountRequest
  <2> QED BY <2>1, RequestKinds
<1> QED BY <1>1, <1>2, RequestKinds

\* A message that remembers a sum.
LEMMA SetSum ==
  ASSUME NEW m \in Request \ {Idle}, NEW sum \in Units
  PROVE  LET n == [m EXCEPT !.sum = sum] IN
         /\ n \in Request \ {Idle} /\ n.op = m.op /\ n.t = m.t /\ n.move = m.move
         /\ n.next = m.next /\ n.step = m.step /\ n.sum = sum
<1> DEFINE n == [m EXCEPT !.sum = sum]
<1>1. CASE m \in RowRequest
  <2>1. /\ n \in RowRequest /\ n.sum = sum
        /\ n.op = m.op /\ n.t = m.t /\ n.move = m.move /\ n.next = m.next /\ n.step = m.step
    BY <1>1 DEF RowRequest
  <2> QED BY <2>1, RequestKinds
<1>2. CASE m \in CountRequest
  <2>1. /\ n \in CountRequest /\ n.sum = sum
        /\ n.op = m.op /\ n.t = m.t /\ n.move = m.move /\ n.next = m.next /\ n.step = m.step
    BY <1>2 DEF CountRequest
  <2> QED BY <2>1, RequestKinds
<1> QED BY <1>1, <1>2, RequestKinds

\* A message that moves something else.
LEMMA SetMove ==
  ASSUME NEW m \in Request \ {Idle}, NEW move \in Units
  PROVE  LET n == [m EXCEPT !.move = move] IN
         /\ n \in Request \ {Idle} /\ n.op = m.op /\ n.t = m.t /\ n.next = m.next
         /\ n.step = m.step /\ n.sum = m.sum /\ n.move = move
<1> DEFINE n == [m EXCEPT !.move = move]
<1>1. CASE m \in RowRequest
  <2>1. /\ n \in RowRequest /\ n.move = move
        /\ n.op = m.op /\ n.t = m.t /\ n.next = m.next /\ n.step = m.step /\ n.sum = m.sum
    BY <1>1 DEF RowRequest
  <2> QED BY <2>1, RequestKinds
<1>2. CASE m \in CountRequest
  <2>1. /\ n \in CountRequest /\ n.move = move
        /\ n.op = m.op /\ n.t = m.t /\ n.next = m.next /\ n.step = m.step /\ n.sum = m.sum
    BY <1>2 DEF CountRequest
  <2> QED BY <2>1, RequestKinds
<1> QED BY <1>1, <1>2, RequestKinds

\* Request r goes on to a step of its transaction.
Goes(r, step) ==
  /\ Busy' = Busy
  /\ \A x \in Busy \ {r} : req'[x] = req[x]
  /\ req' \in [Requests -> Request]
  /\ req'[r].op = req[r].op /\ req'[r].t = req[r].t /\ req'[r].next = req[r].next
  /\ req'[r].step = step

\* The rows are locked: nothing is visible yet.
LEMMA WriteStep ==
  ASSUME Base, NEW r \in Busy, Write(r)
  PROVE  /\ Goes(r, "wrote")
         /\ req'[r].move = req[r].move
         /\ UNCHANGED <<quantity, card, moved, transfer, summed, blurred>>
<1> DEFINE m == [req[r] EXCEPT !.step = "wrote"]
<1>1. req' = [req EXCEPT ![r] = m] /\ UNCHANGED <<quantity, card, moved, transfer, summed, blurred>>
  BY DEF Write
<1>2. req[r] \in Request \ {Idle}
  BY DEF Busy, Base, TypeOK
<1>3. /\ m \in Request \ {Idle} /\ m.op = req[r].op /\ m.t = req[r].t
      /\ m.move = req[r].move /\ m.next = req[r].next /\ m.step = "wrote"
  BY <1>2, SetStep
<1> HIDE DEF m
<1> QED BY <1>1, <1>3, RequestKinds, NextStep DEF Goes

\* The total is what the transaction sees.
LEMMA SumStep ==
  ASSUME Base, NEW r \in Busy, Sum(r)
  PROVE  /\ Goes(r, "summed")
         /\ req'[r].move = req[r].move
         /\ req'[r].sum = Seen(req[r])
         /\ UNCHANGED <<quantity, card, moved, transfer, summed, blurred>>
<1> DEFINE m == [req[r] EXCEPT !.step = "summed"]
           n == [m EXCEPT !.sum = Seen(req[r])]
<1>1. req' = [req EXCEPT ![r] = n] /\ UNCHANGED <<quantity, card, moved, transfer, summed, blurred>>
  <2>1. req' = [req EXCEPT ![r].step = "summed", ![r].sum = Seen(req[r])]
        /\ UNCHANGED <<quantity, card, moved, transfer, summed, blurred>>
    BY DEF Sum
  <2>2. r \in Requests /\ req \in [Requests -> Request]
    BY DEF Busy, Base, TypeOK
  <2> QED BY <2>1, <2>2
<1>2. req[r] \in Request \ {Idle}
  BY DEF Busy, Base, TypeOK
<1>3. /\ m \in Request \ {Idle} /\ m.op = req[r].op /\ m.t = req[r].t
      /\ m.move = req[r].move /\ m.next = req[r].next /\ m.step = "summed"
  BY <1>2, SetStep
<1>4. Seen(req[r]) \in Units
  BY UnitsType, BusyType DEF Seen, Base, TypeOK
<1> HIDE DEF m
<1>5. /\ n \in Request \ {Idle} /\ n.op = m.op /\ n.t = m.t /\ n.move = m.move
      /\ n.next = m.next /\ n.step = m.step /\ n.sum = Seen(req[r])
  BY <1>3, <1>4, SetSum
<1> HIDE DEF n
<1> QED BY <1>1, <1>3, <1>5, RequestKinds, NextStep DEF Goes

\* A count replaces what is in its branch, and the request has nothing left to move.
LEMMA WriteCountStep ==
  ASSUME Base, NEW r \in Busy, WriteCount(r)
  PROVE  /\ Goes(r, "wrote")
         /\ req'[r].move = Zero
         /\ req[r].op = "set" /\ req[r].step = "asked" /\ RowFree(req[r].branch)
         /\ req[r].branch \in Branches /\ req[r].count \in Nat
         /\ quantity' = [quantity EXCEPT ![req[r].branch] = req[r].count]
         /\ card' = Plus(card, req[r].move)
         /\ UNCHANGED <<moved, transfer, summed>>
<1> DEFINE m == [req[r] EXCEPT !.step = "wrote"]
           n == [m EXCEPT !.move = Zero]
<1>1. req' = [req EXCEPT ![r] = n]
  <2>1. req' = [req EXCEPT ![r].step = "wrote", ![r].move = Zero]
    BY DEF WriteCount
  <2>2. r \in Requests /\ req \in [Requests -> Request]
    BY DEF Busy, Base, TypeOK
  <2> QED BY <2>1, <2>2
<1>2. req[r] \in Request \ {Idle}
  BY DEF Busy, Base, TypeOK
<1>3. /\ m \in Request \ {Idle} /\ m.op = req[r].op /\ m.t = req[r].t
      /\ m.next = req[r].next /\ m.step = "wrote"
  BY <1>2, SetStep
<1> HIDE DEF m
<1>4. /\ n \in Request \ {Idle} /\ n.op = m.op /\ n.t = m.t /\ n.move = Zero
      /\ n.next = m.next /\ n.step = m.step
  BY <1>3, UnitsType, SetMove
<1> HIDE DEF n
<1>5. Goes(r, "wrote") /\ req'[r].move = Zero
  BY <1>1, <1>3, <1>4, RequestKinds, NextStep DEF Goes
<1> QED BY <1>5, BusyType DEF WriteCount, Base

\* The status of one transfer changes, and nothing else of the transfers.
LEMMA SetStatusStep ==
  ASSUME Base, NEW r \in Busy, transfer' = SetStatus(req[r])
  PROVE  /\ transfer' \in [Transfers -> {NoTransfer} \cup Carriage]
         /\ \A t \in Transfers : t # req[r].t => transfer'[t] = transfer[t]
         /\ req[r].t # NoOne =>
              /\ req[r].t \in Transfers
              /\ transfer'[req[r].t] = [transfer[req[r].t] EXCEPT !.status = req[r].next]
              /\ transfer[req[r].t] \in Carriage /\ transfer'[req[r].t] \in Carriage
<1>1. CASE req[r].t = NoOne
  BY <1>1, ConstantsAssumption DEF SetStatus, Base, TypeOK
<1>2. CASE req[r].t # NoOne
  <2> DEFINE t == req[r].t
  <2>1. t \in Transfers /\ req[r].next \in Statuses /\ transfer[t].status # "NONE"
    BY <1>2, BusyType DEF Base, Shape, Known
  <2>2. transfer[t] \in Carriage
    BY <2>1, TransferType DEF Base
  <2>3. [transfer[t] EXCEPT !.status = req[r].next] \in Carriage
    BY <2>1, <2>2 DEF Carriage
  <2>4. transfer' = [transfer EXCEPT ![t] = [transfer[t] EXCEPT !.status = req[r].next]]
    BY <1>2 DEF SetStatus
  <2>5. transfer \in [Transfers -> {NoTransfer} \cup Carriage]
    BY DEF Base, TypeOK
  <2> HIDE DEF t
  <2>6. /\ transfer' \in [Transfers -> {NoTransfer} \cup Carriage]
        /\ \A u \in Transfers : u # t => transfer'[u] = transfer[u]
        /\ transfer'[t] = [transfer[t] EXCEPT !.status = req[r].next]
    BY <2>1, <2>3, <2>4, <2>5
  <2> QED BY <1>2, <2>1, <2>2, <2>3, <2>6 DEF t
<1> QED BY <1>1, <1>2

\* A new transfer takes the place of none, and changes no other.
LEMMA CreateStep ==
  ASSUME Base, CreateTransfer
  PROVE  /\ UNCHANGED <<quantity, card, moved, summed, blurred, req>>
         /\ \E t \in Transfers, c \in Carriage :
              /\ transfer[t] = NoTransfer /\ c.status = "PENDING"
              /\ transfer' = [transfer EXCEPT ![t] = c]
<1>1. PICK t \in Transfers, from, to \in Branches, q \in Amounts :
        /\ transfer[t] = NoTransfer /\ from # to
        /\ transfer' = [transfer EXCEPT ![t] = [status |-> "PENDING", from |-> from, to |-> to,
                                                qty |-> q]]
  BY DEF CreateTransfer, Transferable
<1> DEFINE c == [status |-> "PENDING", from |-> from, to |-> to, qty |-> q]
<1>2. c \in Carriage /\ c.status = "PENDING"
  BY <1>1 DEF Carriage, Statuses
<1>3. UNCHANGED <<quantity, card, moved, summed, blurred, req>>
  BY DEF CreateTransfer
<1> HIDE DEF c
<1> QED BY <1>1, <1>2, <1>3 DEF c

\* No branch is taken off the list of those changed while they were counted.
LEMMA BlurredStep ==
  ASSUME Base, [Next]_vars
  PROVE  blurred \subseteq blurred' /\ blurred' \subseteq Branches
<1>0. blurred \subseteq Branches
  BY DEF Base, TypeOK
<1>1. ASSUME NEW r \in Busy, Commit(r)
      PROVE  blurred \subseteq blurred' /\ blurred' \subseteq Branches
  BY <1>0, <1>1 DEF Commit, Counted, Rows
<1>2. ASSUME NEW r \in Busy, WriteCount(r)
      PROVE  blurred \subseteq blurred' /\ blurred' \subseteq Branches
  <2>1. req[r].branch \in Branches
    BY <1>2, WriteCountStep
  <2> QED BY <1>0, <1>2, <2>1 DEF WriteCount, Counted
<1>3. CASE blurred' = blurred
  BY <1>0, <1>3
<1> QED BY <1>1, <1>2, <1>3, StepKinds, NewStep, CreateStep DEF Write, Sum, Decide, Abort, vars

\* Base, when requests keep their transfer, and transfers that exist go on existing.
LEMMA BaseKept ==
  ASSUME Base, TypeOK',
         \A t \in Transfers : transfer[t].status # "NONE" => transfer'[t].status # "NONE",
         \A x \in Busy' : x \in Busy /\ req'[x].t = req[x].t /\ Shape(req'[x])
  PROVE  Base'
<1>1. ASSUME NEW x \in Busy'
      PROVE  Shape(req'[x]) /\ Known(req[x])'
  <2>1. x \in Busy /\ req'[x].t = req[x].t /\ Known(req[x]) /\ Shape(req'[x])
    BY <1>1 DEF Base
  <2>2. req[x].t \in Transfers \cup {NoOne}
    BY <2>1, BusyType DEF Base
  <2> QED BY <2>1, <2>2 DEF Known
<1> QED BY <1>1 DEF Base, Shape

LEMMA BaseInductive == Base /\ [Next]_vars => Base'
<1> SUFFICES ASSUME Base, [Next]_vars
             PROVE  Base'
  OBVIOUS
<1>0. blurred' \subseteq Branches
  BY BlurredStep
<1>1. ASSUME NEW r \in Requests, NEW m, NewRequest(r, m)
      PROVE  Base'
  <2>1. TypeOK'
    BY <1>0, <1>1, NewStep DEF Base, TypeOK
  <2>2. Shape(m) /\ m.t # NoOne => transfer[m.t].status # "NONE"
    BY <1>1 DEF NewRequest, ReadOf, Cancellable
  <2>3. ASSUME NEW x \in Busy'
        PROVE  Shape(req[x])' /\ Known(req[x])'
    <3>1. CASE x = r
      BY <1>1, <2>2, <3>1, NewStep DEF Shape, Known, NewRequest
    <3>2. CASE x \in Busy
      BY <1>1, <3>2, NewStep DEF Shape, Known, Base
    <3> QED BY <1>1, <2>3, <3>1, <3>2, NewStep
  <2> QED BY <2>1, <2>3 DEF Base
<1>2. CASE CreateTransfer
  <2>1. PICK t \in Transfers, c \in Carriage :
          /\ UNCHANGED <<quantity, card, moved, summed, blurred, req>>
          /\ transfer[t] = NoTransfer /\ c.status = "PENDING"
          /\ transfer' = [transfer EXCEPT ![t] = c]
    BY <1>2, CreateStep
  <2>2. TypeOK'
    BY <1>0, <2>1 DEF Base, TypeOK
  <2>3. \A u \in Transfers : transfer[u].status # "NONE" => transfer'[u].status # "NONE"
    BY <2>1 DEF Base, TypeOK
  <2>4. \A x \in Busy' : x \in Busy /\ req'[x].t = req[x].t /\ Shape(req'[x])
    BY <2>1 DEF Base, Busy
  <2> QED BY <2>2, <2>3, <2>4, BaseKept
<1>3. ASSUME NEW r \in Busy, Write(r) \/ Sum(r) \/ WriteCount(r)
      PROVE  Base'
  <2>1. PICK step \in {"wrote", "summed"} :
          /\ Goes(r, step) /\ UNCHANGED <<moved, transfer, summed>>
          /\ req'[r].move = req[r].move \/ req'[r].move = Zero
          /\ req[r].op = "set" => req'[r].move = Zero
    <3>1. CASE Write(r)
      BY <3>1, WriteStep DEF Write
    <3>2. CASE Sum(r)
      <4>1. req[r].step = "wrote"
        BY <3>2 DEF Sum
      <4> QED BY <3>2, <4>1, SumStep DEF Base, Shape
    <3>3. CASE WriteCount(r)
      BY <3>3, WriteCountStep
    <3> QED BY <1>3, <3>1, <3>2, <3>3
  <2>2. quantity' \in Units /\ card' \in Units
    <3>1. CASE UNCHANGED <<quantity, card>>
      BY <3>1 DEF Base, TypeOK
    <3>2. CASE WriteCount(r)
      <4>1. card' \in Units
        BY <3>2, WriteCountStep, UnitsType, BusyType DEF Base, TypeOK
      <4>2. quantity' \in Units
        BY <3>2, WriteCountStep DEF Base, TypeOK, Units
      <4> QED BY <4>1, <4>2
    <3> QED BY <1>3, <3>1, <3>2, WriteStep, SumStep
  <2>3. TypeOK'
    BY <1>0, <2>1, <2>2 DEF Base, TypeOK, Goes
  <2>4. Shape(req'[r])
    BY <2>1, UnitsAt DEF Base, Shape, Goes
  <2>5. \A x \in Busy' : x \in Busy /\ req'[x].t = req[x].t /\ Shape(req'[x])
    BY <2>1, <2>4 DEF Base, Goes
  <2> QED BY <2>1, <2>3, <2>5, BaseKept
<1>4. ASSUME NEW r \in Busy, Commit(r) \/ Decide(r) \/ Abort(r)
      PROVE  Base'
  <2>1. Done(r) /\ (transfer' = SetStatus(req[r]) \/ transfer' = transfer)
    BY <1>4 DEF Commit, Decide, Abort
  <2>2. /\ transfer' \in [Transfers -> {NoTransfer} \cup Carriage]
        /\ \A t \in Transfers : transfer[t].status # "NONE" => transfer'[t].status # "NONE"
    <3>1. CASE transfer' = transfer
      BY <3>1 DEF Base, TypeOK
    <3>2. CASE transfer' = SetStatus(req[r])
      <4>1. \A c \in Carriage : c.status # "NONE"
        BY DEF Carriage, Statuses
      <4>2. \A t \in Transfers : t # req[r].t => transfer'[t] = transfer[t]
        BY <3>2, SetStatusStep
      <4>3. req[r].t \in Transfers => transfer'[req[r].t] \in Carriage
        BY <3>2, SetStatusStep, ConstantsAssumption
      <4> QED BY <3>2, <4>1, <4>2, <4>3, SetStatusStep
    <3> QED BY <2>1, <3>1, <3>2
  <2>3. /\ quantity' \in Units /\ card' \in Units /\ summed' \in Units
        /\ moved' \in [Transfers -> Units]
    <3>1. CASE Commit(r)
      <4>1. quantity' \in Units /\ card' \in Units /\ summed' \in Units
        BY <3>1, UnitsType, BusyType DEF Commit, Movements, Base, TypeOK
      <4>2. \A t \in Transfers : Plus(moved[t], req[r].move) \in Units
        BY UnitsType, BusyType DEF Base, TypeOK
      <4>3. moved' \in [Transfers -> Units]
        BY <3>1, <4>2 DEF Commit, Movements, Base, TypeOK
      <4> QED BY <4>1, <4>3
    <3>2. CASE Decide(r) \/ Abort(r)
      BY <3>2 DEF Decide, Abort, Base, TypeOK
    <3> QED BY <1>4, <3>1, <3>2
  <2>4. TypeOK'
    BY <1>0, <2>1, <2>2, <2>3, DoneOthers DEF TypeOK
  <2>5. \A x \in Busy' : x \in Busy /\ req'[x].t = req[x].t /\ Shape(req'[x])
    BY <2>1, DoneOthers DEF Base
  <2> QED BY <2>2, <2>4, <2>5, BaseKept
<1>5. CASE UNCHANGED vars
  BY <1>5 DEF vars, Base, TypeOK, Busy, Shape, Known
<1> QED BY <1>1, <1>2, <1>3, <1>4, <1>5, StepKinds

LEMMA BaseInitially == Init => Base
<1> SUFFICES ASSUME Init
             PROVE  Base
  OBVIOUS
<1>1. InitialQuantity \in Units
  BY ConstantsAssumption DEF Units
<1>2. TypeOK
  BY <1>1, UnitsType DEF Init, TypeOK, Request
<1>3. Busy = {}
  BY DEF Init, Busy
<1> QED BY <1>2, <1>3 DEF Base

LEMMA BaseInvariant == Spec => []Base
<1> QED BY BaseInitially, BaseInductive, PTL DEF Spec

\* Every reachable state is well formed, whichever requests race.
THEOREM TypeCorrect == Spec => []TypeOK
<1>1. Base => TypeOK
  BY DEF Base
<1> QED BY <1>1, BaseInvariant, PTL

-----------------------------------------------------------------------------
(* Locks: a transaction's rows are its own until it ends                   *)

Locks ==
  /\ \A r, x \in Busy : r # x /\ req[r].step # "asked" /\ req[x].step # "asked" =>
       Rows(req[r]) \cap Rows(req[x]) = {}
  /\ \A r \in Busy : req[r].step = "summed" =>
       \A b \in Rows(req[r]) : req[r].sum[b] = quantity[b] + req[r].move[b]

\* A transaction of x that is under way goes on, or stays as it is.
LEMMA Survivor ==
  ASSUME Base, [Next]_vars, NEW x \in Busy, x \in Busy'
  PROVE  /\ req'[x].op = req[x].op /\ req'[x].t = req[x].t /\ req'[x].next = req[x].next
         /\ req'[x].move = req[x].move \/ WriteCount(x)
         /\ req'[x] = req[x] \/ Write(x) \/ Sum(x) \/ WriteCount(x)
<1>1. ASSUME NEW r \in Requests, NEW m, NewRequest(r, m)
      PROVE  req'[x] = req[x]
  BY <1>1, NewStep
<1>2. CASE CreateTransfer
  BY <1>2, CreateStep
<1>3. ASSUME NEW r \in Busy, Write(r)
      PROVE  req'[x] = req[x] \/ x = r
  BY <1>3, WriteStep DEF Goes
<1>4. ASSUME NEW r \in Busy, WriteCount(r)
      PROVE  req'[x] = req[x] \/ x = r
  BY <1>4, WriteCountStep DEF Goes
<1>5. ASSUME NEW r \in Busy, Sum(r)
      PROVE  req'[x] = req[x] \/ x = r
  BY <1>5, SumStep DEF Goes
<1>6. ASSUME NEW r \in Busy, Commit(r) \/ Decide(r) \/ Abort(r)
      PROVE  req'[x] = req[x]
  <2>1. Done(r)
    BY <1>6 DEF Commit, Decide, Abort
  <2> QED BY <2>1, DoneOthers
<1>7. CASE UNCHANGED vars
  BY <1>7 DEF vars
<1>8. req'[x] = req[x] \/ Write(x) \/ Sum(x) \/ WriteCount(x)
  BY <1>1, <1>2, <1>3, <1>4, <1>5, <1>6, <1>7, StepKinds
<1> QED BY <1>8, WriteStep, WriteCountStep, SumStep DEF Goes

\* A row that an open transaction has written is changed by no one else.
LEMMA RowsKept ==
  ASSUME Base, Locks, [Next]_vars, NEW x \in Busy, x \in Busy', req[x].step # "asked",
         NEW b \in Rows(req[x])
  PROVE  quantity'[b] = quantity[b]
<1>1. b \in Branches /\ req[x].move[b] # 0
  BY DEF Rows
<1>2. ASSUME NEW r \in Busy, WriteCount(r)
      PROVE  quantity'[b] = quantity[b]
  <2>1. req[x].op # "set"
    BY <1>1, UnitsAt DEF Base, Shape
  <2>2. b # req[r].branch
    BY <1>2, <2>1, WriteCountStep DEF RowFree
  <2> QED BY <1>1, <1>2, <2>2, WriteCountStep DEF Base, TypeOK, Units
<1>3. ASSUME NEW r \in Busy, Commit(r)
      PROVE  quantity'[b] = quantity[b]
  <2>1. r # x
    BY <1>3, DoneOthers DEF Commit
  <2>2. b \notin Rows(req[r])
    BY <1>3, <2>1 DEF Locks, Commit
  <2>3. req[r].move[b] = 0 /\ req[r].move \in Units
    BY <1>1, <2>2, BusyType DEF Rows, Base
  <2>4. quantity'[b] = quantity[b] + req[r].move[b]
    BY <1>1, <1>3, <2>3, UnitsAt DEF Commit, Base, TypeOK
  <2> QED BY <1>1, <2>3, <2>4 DEF Base, TypeOK, Units
<1>4. ASSUME NEW r \in Requests, NEW m, NewRequest(r, m)
      PROVE  quantity' = quantity
  BY <1>4, NewStep
<1>5. CASE CreateTransfer
  BY <1>5, CreateStep
<1>6. ASSUME NEW r \in Busy, Write(r) \/ Sum(r) \/ Decide(r) \/ Abort(r)
      PROVE  quantity' = quantity
  BY <1>6 DEF Write, Sum, Decide, Abort
<1>7. CASE UNCHANGED vars
  BY <1>7 DEF vars
<1> QED BY <1>2, <1>3, <1>4, <1>5, <1>6, <1>7, StepKinds

\* A request that comes in, or whose row is written now, has its rows to itself.
LEMMA LocksInductive == Base /\ Locks /\ [Next]_vars => Locks'
<1> SUFFICES ASSUME Base, Locks, [Next]_vars
             PROVE  Locks'
  OBVIOUS
<1>1. Base'
  BY BaseInductive
<1>2. ASSUME NEW x \in Busy', req'[x].step # "asked"
      PROVE  x \in Busy /\ (req[x].step # "asked" \/ Write(x) \/ WriteCount(x))
  <2>1. x \in Busy
    <3>1. ASSUME NEW r \in Requests, NEW m, NewRequest(r, m)
          PROVE  x \in Busy
      BY <1>2, <3>1, NewStep DEF NewRequest
    <3>2. CASE CreateTransfer
      BY <3>2, CreateStep DEF Busy
    <3>3. ASSUME NEW r \in Busy, Write(r) \/ Sum(r) \/ WriteCount(r)
          PROVE  x \in Busy
      BY <3>3, WriteStep, SumStep, WriteCountStep DEF Goes
    <3>4. ASSUME NEW r \in Busy, Commit(r) \/ Decide(r) \/ Abort(r)
          PROVE  x \in Busy
      BY <3>4, DoneOthers DEF Commit, Decide, Abort
    <3>5. CASE UNCHANGED vars
      BY <3>5 DEF vars, Busy
    <3> QED BY <3>1, <3>2, <3>3, <3>4, <3>5, StepKinds
  <2>2. req'[x] = req[x] \/ Write(x) \/ Sum(x) \/ WriteCount(x)
    BY <2>1, Survivor
  <2> QED BY <1>2, <2>1, <2>2 DEF Sum
<1>3. ASSUME NEW x \in Busy, WriteCount(x)
      PROVE  Rows(req'[x]) = {}
  BY <1>3, WriteCountStep, UnitsAt DEF Rows
<1>4. ASSUME NEW x \in Busy, ~WriteCount(x), x \in Busy'
      PROVE  Rows(req'[x]) = Rows(req[x])
  BY <1>4, Survivor DEF Rows
<1>5. ASSUME NEW x \in Busy, NEW y \in Busy, x # y, Write(x), y \in Busy',
             req'[y].step # "asked"
      PROVE  Rows(req'[x]) \cap Rows(req'[y]) = {}
  <2>1. req'[y] = req[y] /\ req'[x].move = req[x].move
    BY <1>5, WriteStep DEF Goes
  <2>2. ASSUME NEW b \in Rows(req[x]), b \in Rows(req[y])
        PROVE  FALSE
    <3>1. b \in Branches /\ RowFree(b) /\ req[y].move[b] # 0
      BY <1>5, <2>2 DEF Write, Rows
    <3>2. req[y].op # "set"
      BY <1>5, <2>1, <3>1, UnitsAt DEF Base, Shape
    <3> QED BY <1>5, <2>1, <2>2, <3>1, <3>2 DEF RowFree
  <2> QED BY <2>1, <2>2 DEF Rows
<1>6. ASSUME NEW r \in Busy', NEW x \in Busy', r # x, req'[r].step # "asked",
             req'[x].step # "asked"
      PROVE  Rows(req'[r]) \cap Rows(req'[x]) = {}
  <2>1. /\ r \in Busy /\ (req[r].step # "asked" \/ Write(r) \/ WriteCount(r))
        /\ x \in Busy /\ (req[x].step # "asked" \/ Write(x) \/ WriteCount(x))
    BY <1>6, <1>2
  <2>2. CASE WriteCount(r) \/ WriteCount(x)
    BY <2>1, <2>2, <1>3
  <2>3. CASE Write(r)
    BY <1>5, <1>6, <2>1, <2>3
  <2>4. CASE Write(x)
    BY <1>5, <1>6, <2>1, <2>4
  <2>5. CASE ~(WriteCount(r) \/ WriteCount(x) \/ Write(r) \/ Write(x))
    <3>1. Rows(req[r]) \cap Rows(req[x]) = {}
      BY <1>6, <2>1, <2>5 DEF Locks
    <3>2. Rows(req'[r]) = Rows(req[r]) /\ Rows(req'[x]) = Rows(req[x])
      BY <1>4, <1>6, <2>1, <2>5
    <3> QED BY <3>1, <3>2
  <2> QED BY <2>2, <2>3, <2>4, <2>5
<1>7. ASSUME NEW r \in Busy', req'[r].step = "summed", NEW b \in Rows(req'[r])
      PROVE  req'[r].sum[b] = quantity'[b] + req'[r].move[b]
  <2>1. r \in Busy /\ (req'[r] = req[r] \/ Write(r) \/ Sum(r) \/ WriteCount(r))
    BY <1>2, <1>7, Survivor
  <2>2. CASE req'[r] = req[r]
    BY <1>7, <2>1, <2>2, RowsKept DEF Locks
  <2>3. CASE Sum(r)
    <3>1. /\ req'[r].sum = Plus(quantity, req[r].move) /\ req'[r].move = req[r].move
          /\ quantity' = quantity
      BY <2>1, <2>3, SumStep DEF Seen
    <3>2. b \in Branches /\ req[r].move \in Units /\ quantity \in Units
      BY <1>7, <2>1, BusyType DEF Rows, Base, TypeOK
    <3> QED BY <3>1, <3>2, UnitsAt
  <2>4. CASE Write(r) \/ WriteCount(r)
    BY <1>7, <2>1, <2>4, WriteStep, WriteCountStep DEF Goes
  <2> QED BY <2>1, <2>2, <2>3, <2>4
<1> QED BY <1>6, <1>7 DEF Locks, Rows

LEMMA LocksInvariant == Spec => []Locks
<1>1. Init => Locks
  BY DEF Init, Busy, Locks
<1> QED BY <1>1, BaseInvariant, LocksInductive, PTL DEF Spec

\* Whatever else commits in between, a commit stores a total that counts its own rows right.
THEOREM TotalCorrect == Spec => TotalCountsOwnRows
<1>1. Base /\ Locks /\ [Next]_vars =>
        [\A r \in Requests : Commit(r) => \A b \in Rows(req[r]) : summed'[b] = quantity'[b]]_vars
  <2> SUFFICES ASSUME Base, Locks, NEW r \in Requests, Commit(r), NEW b \in Rows(req[r])
               PROVE  summed'[b] = quantity'[b]
    OBVIOUS
  <2>1. r \in Busy /\ req[r].step = "summed" /\ summed' = req[r].sum
        /\ quantity' = Plus(quantity, req[r].move)
    BY DEF Commit
  <2>2. b \in Branches /\ req[r].move \in Units /\ quantity \in Units
    BY <2>1, BusyType DEF Rows, Base, TypeOK
  <2>3. quantity'[b] = quantity[b] + req[r].move[b]
    BY <2>1, <2>2, UnitsAt
  <2> QED BY <2>1, <2>3 DEF Locks
<1> QED BY <1>1, BaseInvariant, LocksInvariant, PTL DEF Spec, TotalCountsOwnRows

-----------------------------------------------------------------------------
(* Operations that run alone                                               *)

Alone(op) == \A r \in Busy : req[r].op = op => Busy = {r}

\* An operation assumed exclusive has no other request beside it, from its checks to its end.
LEMMA AloneInductive ==
  ASSUME Base, [Next]_vars, NEW op \in Exclusive, Alone(op)
  PROVE  Alone(op)'
<1>1. ASSUME NEW r \in Requests, NEW m, NewRequest(r, m)
      PROVE  Alone(op)'
  <2>1. Busy # {} => m.op # op /\ \A x \in Busy : req[x].op # op
    BY <1>1 DEF NewRequest, Ready
  <2> QED BY <1>1, <2>1, NewStep DEF Alone
<1>2. CASE CreateTransfer
  BY <1>2, CreateStep DEF Alone, Busy
<1>3. ASSUME NEW r \in Busy, Write(r) \/ Sum(r) \/ WriteCount(r)
      PROVE  Alone(op)'
  <2>1. Busy' = Busy /\ \A x \in Busy : req'[x].op = req[x].op
    BY <1>3, WriteStep, SumStep, WriteCountStep DEF Goes
  <2> QED BY <2>1 DEF Alone
<1>4. ASSUME NEW r \in Busy, Commit(r) \/ Decide(r) \/ Abort(r)
      PROVE  Alone(op)'
  <2>1. Busy' = Busy \ {r} /\ \A x \in Busy \ {r} : req'[x] = req[x]
    BY <1>4, DoneOthers DEF Commit, Decide, Abort
  <2> QED BY <2>1 DEF Alone
<1>5. CASE UNCHANGED vars
  BY <1>5 DEF vars, Alone, Busy
<1> QED BY <1>1, <1>2, <1>3, <1>4, <1>5, StepKinds

-----------------------------------------------------------------------------
(* NeverBelowZero, when corrections run alone                              *)

\* What an open transaction takes out is there, and so is what a correction would
Enough ==
  /\ NeverBelowZero
  /\ Alone("adjust")
  /\ \A r \in Busy : req[r].op = "adjust" \/ (req[r].op # "set" /\ req[r].step # "asked") =>
       \A b \in Rows(req[r]) : quantity[b] + req[r].move[b] >= 0

LEMMA EnoughInductive ==
  ASSUME "adjust" \in Exclusive, Base, Locks, Enough, [Next]_vars
  PROVE  Enough'
<1>1. NeverBelowZero'
  <2>1. ASSUME NEW r \in Busy, Commit(r)
        PROVE  NeverBelowZero'
    <3>1. req[r].step = "summed" /\ quantity' = Plus(quantity, req[r].move)
      BY <2>1 DEF Commit
    <3>2. req[r].move \in Units /\ quantity \in Units
      BY BusyType DEF Base, TypeOK
    <3>3. ASSUME NEW b \in Branches
          PROVE  quantity'[b] >= 0
      <4>1. quantity'[b] = quantity[b] + req[r].move[b] /\ quantity[b] >= 0
        BY <3>1, <3>2, UnitsAt DEF Enough, NeverBelowZero
      <4>2. req[r].move[b] \in Int /\ quantity[b] \in Int
        BY <3>2 DEF Units
      <4>3. req[r].move[b] # 0 => b \in Rows(req[r])
        BY DEF Rows
      <4>4. req[r].op = "set" => req[r].move[b] = 0
        BY <3>1, UnitsAt DEF Base, Shape
      <4>5. CASE req[r].move[b] = 0
        BY <4>1, <4>2, <4>5
      <4>6. CASE req[r].move[b] # 0
        BY <3>1, <4>1, <4>3, <4>4, <4>6 DEF Enough
      <4> QED BY <4>5, <4>6
    <3> QED BY <3>3 DEF NeverBelowZero
  <2>2. ASSUME NEW r \in Busy, WriteCount(r)
        PROVE  NeverBelowZero'
    <3>1. \A b \in Branches : quantity'[b] = quantity[b] \/ quantity'[b] \in Nat
      BY <2>2, WriteCountStep DEF Base, TypeOK, Units
    <3> QED BY <3>1 DEF Enough, NeverBelowZero
  <2>3. CASE quantity' = quantity
    BY <2>3 DEF Enough, NeverBelowZero
  <2>4. \/ quantity' = quantity
        \/ \E r \in Busy : Commit(r) \/ WriteCount(r)
    BY StepKinds, NewStep, CreateStep DEF Write, Sum, Decide, Abort, vars
  <2> QED BY <2>1, <2>2, <2>3, <2>4
<1>2. Alone("adjust")'
  BY AloneInductive DEF Enough
<1>3. ASSUME NEW r \in Busy', NEW b \in Rows(req'[r]),
             req'[r].op = "adjust" \/ (req'[r].op # "set" /\ req'[r].step # "asked")
      PROVE  quantity'[b] + req'[r].move[b] >= 0
  <2>1. ASSUME NEW m, NewRequest(r, m), r \notin Busy
        PROVE  quantity'[b] + req'[r].move[b] >= 0
    <3>1. req'[r] = m /\ quantity' = quantity /\ m.step = "asked" /\ CorrectionFits(m)
      BY <2>1, NewStep DEF NewRequest, Ready, Busy
    <3> QED BY <1>3, <3>1 DEF CorrectionFits, Rows
  <2>2. CASE r \in Busy
    <3>1. req'[r].op = req[r].op /\ req'[r].move = req[r].move
      BY <1>3, <2>2, Survivor, WriteCountStep
    <3>2. b \in Rows(req[r]) /\ b \in Branches
      BY <3>1 DEF Rows
    <3>3. CASE req[r].op = "adjust"
      <4>1. Busy = {r}
        BY <2>2, <3>3 DEF Enough, Alone
      <4>2. quantity' = quantity
        BY <1>3, <3>3, <4>1, StepKinds, NewStep, CreateStep, DoneOthers, WriteCountStep
           DEF Write, Sum, Commit, Decide, Abort, vars
      <4> QED BY <2>2, <3>1, <3>2, <3>3, <4>2 DEF Enough
    <3>4. CASE req[r].op # "adjust" /\ req[r].step # "asked"
      <4>1. quantity'[b] = quantity[b]
        BY <1>3, <2>2, <3>2, <3>4, RowsKept
      <4> QED BY <1>3, <2>2, <3>1, <3>2, <3>4, <4>1 DEF Enough
    <3>5. CASE req[r].op # "adjust" /\ req[r].step = "asked"
      <4>1. Write(r)
        BY <1>3, <2>2, <3>1, <3>5, Survivor, WriteCountStep DEF Sum
      <4>2. quantity' = quantity /\ Sufficient(req[r])
        BY <4>1 DEF Write
      <4>3. req[r] \in Request /\ req[r].op # "none" /\ req[r].move \in Units /\ quantity \in Units
        BY <2>2, BusyType DEF Base, TypeOK
      <4>4. CASE req[r].op \in {"dispatch", "complete", "out"}
        BY <3>1, <3>2, <4>2, <4>4 DEF Sufficient
      <4>5. CASE req[r].op \in {"in", "receive", "cancel", "approve", "reject"}
        <5>1. req[r].move[b] >= 0 /\ quantity[b] >= 0
          BY <2>2, <3>2, <4>5 DEF Base, Shape, Enough, NeverBelowZero
        <5>2. req[r].move[b] \in Int /\ quantity[b] \in Int
          BY <3>2, <4>3 DEF Units
        <5> QED BY <3>1, <4>2, <5>1, <5>2
      <4>6. req[r] \in RowRequest \cup CountRequest
        BY <4>3, RequestKinds
      <4>7. req[r].op \in TransferOps \cup {"in", "out", "adjust", "set"}
        BY <4>6 DEF RowRequest, CountRequest
      <4> QED BY <1>3, <3>1, <3>5, <4>4, <4>5, <4>7 DEF TransferOps
    <3> QED BY <3>3, <3>4, <3>5
  <2>3. CASE r \notin Busy
    BY <1>3, <2>1, <2>3, StepKinds, NewStep, CreateStep, DoneOthers, WriteStep, SumStep,
       WriteCountStep DEF Goes, Commit, Decide, Abort, vars, Busy
  <2> QED BY <2>2, <2>3
<1> QED BY <1>1, <1>2, <1>3 DEF Enough

\* No branch goes below zero, provided corrections by hand run alone: the row locks and the
\* conditional updates see to all the rest.
THEOREM NeverBelow == ASSUME "adjust" \in Exclusive PROVE Spec => []NeverBelowZero
<1>1. Init => Enough
  BY ConstantsAssumption DEF Init, Enough, NeverBelowZero, Alone, Busy
<1>2. Base /\ Locks /\ Enough /\ [Next]_vars => Enough'
  BY EnoughInductive
<1>3. Enough => NeverBelowZero
  BY DEF Enough
<1> QED BY <1>1, <1>2, <1>3, BaseInvariant, LocksInvariant, PTL DEF Spec

-----------------------------------------------------------------------------
(* CardExplainsCount                                                       *)

CardFits ==
  /\ CardExplainsCount
  /\ \A r \in Busy : CountFits(req[r])

\* A transaction that commits moves card and stock alike.
LEMMA CommitCard ==
  ASSUME Base, CardFits, [Next]_vars, NEW r \in Busy, Commit(r)
  PROVE  CardExplainsCount'
<1>1. /\ quantity' = Plus(quantity, req[r].move) /\ card' = Plus(card, req[r].move)
      /\ req[r].move \in Units /\ quantity \in Units /\ card \in Units
  BY BusyType DEF Commit, Movements, Base, TypeOK
<1>2. ASSUME NEW b \in Branches \ blurred'
      PROVE  quantity'[b] = InitialQuantity[b] + card'[b]
  <2>1. /\ quantity'[b] = quantity[b] + req[r].move[b]
        /\ card'[b] = card[b] + req[r].move[b]
        /\ quantity[b] = InitialQuantity[b] + card[b]
    BY <1>1, UnitsAt, BlurredStep DEF CardFits, CardExplainsCount
  <2>2. /\ req[r].move[b] \in Int /\ quantity[b] \in Int /\ card[b] \in Int
        /\ InitialQuantity[b] \in Int
    BY <1>1, ConstantsAssumption DEF Units
  <2> QED BY <2>1, <2>2
<1> QED BY <1>2 DEF CardExplainsCount

\* A count that still knows what it replaces is explained by its movement.
LEMMA WriteCountCard ==
  ASSUME Base, CardFits, [Next]_vars, NEW r \in Busy, WriteCount(r)
  PROVE  CardExplainsCount'
<1> DEFINE c == req[r].branch
           n == req[r].count
<1>1. PICK d \in Int : req[r].move = At(c, d) /\ (c \in blurred \/ d = n - quantity[c])
  BY WriteCountStep DEF CardFits, CountFits
<1>2. /\ quantity' = [quantity EXCEPT ![c] = n] /\ card' = Plus(card, At(c, d))
      /\ c \in Branches /\ n \in Nat
  BY <1>1, WriteCountStep
<1>3. quantity \in Units /\ card \in Units
  BY DEF Base, TypeOK
<1> HIDE DEF c, n
<1>4. At(c, d) \in Units
  BY <1>2, UnitsType
<1>5. ASSUME NEW b \in Branches \ blurred'
      PROVE  quantity'[b] = InitialQuantity[b] + card'[b]
  <2>1. /\ quantity'[b] = IF b = c THEN n ELSE quantity[b]
        /\ card'[b] = card[b] + (IF b = c THEN d ELSE 0)
    <3>1. At(c, d)[b] = IF b = c THEN d ELSE 0
      BY <1>2, UnitsAt
    <3>2. card'[b] = card[b] + At(c, d)[b]
      BY <1>2, <1>3, <1>4, UnitsAt
    <3>3. quantity'[b] = IF b = c THEN n ELSE quantity[b]
      BY <1>2, <1>3 DEF Units
    <3> QED BY <3>1, <3>2, <3>3
  <2>2. b \notin blurred /\ quantity[b] = InitialQuantity[b] + card[b]
    BY BlurredStep DEF CardFits, CardExplainsCount
  <2>3. b = c => d = n - quantity[b]
    BY <1>1, <2>2
  <2>4. quantity[b] \in Int /\ card[b] \in Int /\ InitialQuantity[b] \in Int /\ n \in Int
    BY <1>2, <1>3, ConstantsAssumption DEF Units
  <2> QED BY <2>1, <2>2, <2>3, <2>4
<1> QED BY <1>5 DEF CardExplainsCount

\* Whoever changes a branch that request r is counting blurs it.
LEMMA ChangeBlurs ==
  ASSUME Base, [Next]_vars, NEW r \in Busy, r \in Busy', req[r].op = "set",
         req[r].step = "asked", req'[r] = req[r],
         quantity'[req[r].branch] # quantity[req[r].branch]
  PROVE  req[r].branch \in blurred'
<1> DEFINE b == req[r].branch
<1>1. b \in Branches
  BY BusyType DEF Base
<1>2. ASSUME NEW x \in Busy, Commit(x)
      PROVE  b \in blurred'
  <2>1. x # r
    BY <1>2, DoneOthers DEF Commit
  <2>2. quantity'[b] = quantity[b] + req[x].move[b] /\ quantity[b] \in Int
    BY <1>1, <1>2, BusyType, UnitsAt DEF Commit, Base, TypeOK, Units
  <2>3. b \in Rows(req[x])
    BY <1>1, <2>2 DEF Rows
  <2>4. b \in Counted(Rows(req[x]), x)
    BY <2>1, <2>3 DEF Counted
  <2> QED BY <1>2, <2>4 DEF Commit
<1>3. ASSUME NEW x \in Busy, WriteCount(x)
      PROVE  b \in blurred'
  <2>1. x # r
    BY <1>3, WriteCountStep DEF Goes
  <2>2. b = req[x].branch
    BY <1>1, <1>3, WriteCountStep DEF Base, TypeOK, Units
  <2>3. b \in Counted({req[x].branch}, x)
    BY <2>1, <2>2 DEF Counted
  <2> QED BY <1>3, <2>3 DEF WriteCount
<1>4. \/ quantity' = quantity
      \/ \E x \in Busy : Commit(x) \/ WriteCount(x)
  BY StepKinds, NewStep, CreateStep DEF Write, Sum, Decide, Abort, vars
<1> QED BY <1>2, <1>3, <1>4

LEMMA CardInductive ==
  ASSUME Base, CardFits, [Next]_vars
  PROVE  CardFits'
<1>1. CardExplainsCount'
  <2>1. CASE UNCHANGED <<quantity, card>>
    BY <2>1, BlurredStep DEF CardFits, CardExplainsCount
  <2>2. \/ UNCHANGED <<quantity, card>>
        \/ \E r \in Busy : Commit(r) \/ WriteCount(r)
    BY StepKinds, NewStep, CreateStep DEF Write, Sum, Decide, Abort, vars
  <2> QED BY <2>1, <2>2, CommitCard, WriteCountCard
<1>2. ASSUME NEW r \in Busy'
      PROVE  CountFits(req[r])'
  <2>1. CASE r \in Busy /\ req'[r].op = "set" /\ req'[r].step = "asked"
    <3>1. req'[r] = req[r]
      BY <2>1, <1>2, Survivor, WriteStep, SumStep, WriteCountStep DEF Goes
    <3>2. PICK d \in Int : /\ req[r].move = At(req[r].branch, d)
                           /\ \/ req[r].branch \in blurred
                              \/ d = req[r].count - quantity[req[r].branch]
      BY <2>1, <3>1 DEF CardFits, CountFits
    <3>3. req[r].branch \in blurred' \/ quantity'[req[r].branch] = quantity[req[r].branch]
      BY <1>2, <2>1, <3>1, ChangeBlurs
    <3>4. req[r].branch \in blurred' \/ d = req[r].count - quantity'[req[r].branch]
      BY <3>2, <3>3, BlurredStep
    <3> QED BY <3>1, <3>2, <3>4 DEF CountFits
  <2>2. CASE ~(req'[r].op = "set" /\ req'[r].step = "asked")
    BY <2>2 DEF CountFits
  <2>3. CASE r \notin Busy
    <3>1. ASSUME NEW x \in Requests, NEW m, NewRequest(x, m)
          PROVE  CountFits(req[r])'
      <4>1. x = r /\ req'[r] = m /\ quantity' = quantity /\ blurred' = blurred /\ CountFits(m)
        BY <1>2, <2>3, <3>1, NewStep DEF NewRequest
      <4> QED BY <4>1 DEF CountFits
    <3> QED BY <1>2, <2>3, <3>1, StepKinds, CreateStep, DoneOthers, WriteStep, SumStep,
               WriteCountStep DEF Goes, Commit, Decide, Abort, vars, Busy
  <2> QED BY <2>1, <2>2, <2>3
<1> QED BY <1>1, <1>2 DEF CardFits, CountFits

\* The stock card explains the count of every branch that no other request has changed while a
\* count of it was under way: it takes that overlap, and nothing else, to part the two.
THEOREM CardCorrect == Spec => []CardExplainsCount
<1>1. Init => CardFits
  <2> SUFFICES ASSUME Init
               PROVE  CardFits
    OBVIOUS
  <2>1. \A b \in Branches : InitialQuantity[b] = InitialQuantity[b] + Zero[b]
    BY ConstantsAssumption, UnitsAt
  <2> QED BY <2>1 DEF Init, CardFits, CardExplainsCount, Busy
<1>2. Base /\ CardFits /\ [Next]_vars => CardFits'
  BY CardInductive
<1>3. CardFits => CardExplainsCount
  BY DEF CardFits
<1> QED BY <1>1, <1>2, <1>3, BaseInvariant, PTL DEF Spec

-----------------------------------------------------------------------------
(* MovesMatchStatus, when requests about one transfer do not overlap       *)

\* The movements of transfer x that its status tells of
Told(x) ==
  CASE x.status = "IN_TRANSIT" -> At(x.from, -x.qty)
    [] x.status \in {"RECEIVED", "COMPLETED"} -> [At(x.from, -x.qty) EXCEPT ![x.to] = x.qty]
    [] OTHER -> Zero

MovesFit ==
  /\ MovesMatchStatus
  /\ \A r, x \in Busy : r # x /\ req[r].t # NoOne => req[r].t # req[x].t
  /\ \A r \in Busy : req[r].t # NoOne => ReadOf(req[r], transfer[req[r].t])

\* What a request moves is just what its new status tells on top of the old.
LEMMA MovesAdd ==
  ASSUME NEW x \in Carriage, NEW m, m.move \in Units, ReadOf(m, x)
  PROVE  Plus(Told(x), m.move) = Told([x EXCEPT !.status = m.next])
<1> DEFINE y == [x EXCEPT !.status = m.next]
<1>1. /\ x.from \in Branches /\ x.to \in Branches /\ x.from # x.to /\ x.qty \in Int
      /\ -x.qty \in Int
  <2>1. x.from \in Branches /\ x.to \in Branches /\ x.from # x.to /\ x.qty \in Amounts
    BY DEF Carriage
  <2>2. \A q \in Amounts : q \in Int /\ -q \in Int
    BY ConstantsAssumption
  <2> QED BY <2>1, <2>2
<1>2. y.status = m.next /\ y.from = x.from /\ y.to = x.to /\ y.qty = x.qty
  BY DEF Carriage
<1> HIDE DEF y
<1> DEFINE gone == At(x.from, -x.qty)
           there == [gone EXCEPT ![x.to] = x.qty]
<1>3. \A b \in Branches : gone[b] = IF b = x.from THEN -x.qty ELSE 0
  BY <1>1, UnitsAt
<1>4. gone \in Units /\ Zero \in Units
  BY <1>1, UnitsType
<1>5. there \in Units
  BY <1>1, <1>4 DEF Units
<1>6. \A b \in Branches : there[b] = IF b = x.to THEN x.qty ELSE gone[b]
  BY <1>4 DEF Units
<1>7. \A f \in Units : Plus(f, Zero) = f /\ Plus(Zero, f) = f
  BY UnitsAt DEF Plus, Units
<1>8. Plus(gone, At(x.to, x.qty)) = there
  <2>1. At(x.to, x.qty) \in Units
    BY <1>1, UnitsType
  <2>2. \A b \in Branches : gone[b] + At(x.to, x.qty)[b] = there[b]
    BY <1>1, <1>3, <1>6, UnitsAt
  <2> HIDE DEF gone, there
  <2> QED BY <1>4, <1>5, <2>1, <2>2 DEF Plus, Units
<1>9. Plus(gone, At(x.from, x.qty)) = Zero
  <2>1. \A b \in Branches : gone[b] + At(x.from, x.qty)[b] = 0
    BY <1>1, <1>3, UnitsAt
  <2> HIDE DEF gone
  <2> QED BY <2>1 DEF Plus, Zero
<1>10. CASE m.op \in {"approve", "reject"}
  BY <1>2, <1>4, <1>7, <1>10 DEF ReadOf, Told
<1>11. CASE m.op = "dispatch"
  <2>1. m.move = gone /\ Told(x) = Zero /\ Told(y) = gone
    BY <1>2, <1>11 DEF ReadOf, Told
  <2> QED BY <1>4, <1>7, <2>1 DEF y
<1>12. CASE m.op = "receive"
  <2>1. m.move = At(x.to, x.qty) /\ Told(x) = gone /\ Told(y) = there
    BY <1>2, <1>12 DEF ReadOf, Told
  <2> QED BY <1>8, <2>1 DEF y
<1>13. CASE m.op = "complete"
  <2>1. m.move = there /\ Told(x) = Zero /\ Told(y) = there
    BY <1>2, <1>13 DEF ReadOf, Told
  <2> QED BY <1>5, <1>7, <2>1 DEF y
<1>14. CASE m.op = "cancel" /\ x.status = "IN_TRANSIT"
  <2>1. m.move = At(x.from, x.qty) /\ Told(x) = gone /\ Told(y) = Zero
    BY <1>2, <1>14 DEF ReadOf, Refund, Told
  <2> QED BY <1>9, <2>1 DEF y
<1>15. CASE m.op = "cancel" /\ x.status # "IN_TRANSIT"
  <2>1. m.move = Zero /\ Told(x) = Zero /\ Told(y) = Zero
    BY <1>2, <1>15 DEF ReadOf, Refund, Told, Cancellable
  <2> QED BY <1>4, <1>7, <2>1 DEF y
<1> QED BY <1>10, <1>11, <1>12, <1>13, <1>14, <1>15 DEF ReadOf, y

\* A step changes the transfer of at most the request that ends with it.
LEMMA TransferStep ==
  ASSUME Base, [Next]_vars, NEW t \in Transfers
  PROVE  \/ transfer'[t] = transfer[t] /\ moved'[t] = moved[t]
         \/ /\ transfer[t] = NoTransfer /\ transfer'[t].status = "PENDING"
            /\ moved'[t] = moved[t]
         \/ \E r \in Busy :
              /\ r \notin Busy' /\ req[r].t = t
              /\ transfer'[t] = [transfer[t] EXCEPT !.status = req[r].next]
              /\ transfer[t] \in Carriage
              /\ \/ moved'[t] = Plus(moved[t], req[r].move)
                 \/ req[r].move = Zero /\ moved'[t] = moved[t]
<1>1. ASSUME NEW r \in Busy, Commit(r) \/ Decide(r)
      PROVE  \/ transfer'[t] = transfer[t] /\ moved'[t] = moved[t]
             \/ /\ r \notin Busy' /\ req[r].t = t
                /\ transfer'[t] = [transfer[t] EXCEPT !.status = req[r].next]
                /\ transfer[t] \in Carriage
                /\ \/ moved'[t] = Plus(moved[t], req[r].move)
                   \/ req[r].move = Zero /\ moved'[t] = moved[t]
  <2>1. transfer' = SetStatus(req[r]) /\ Done(r)
    BY <1>1 DEF Commit, Decide
  <2>2. r \notin Busy'
    BY <2>1, DoneOthers
  <2>3. CASE req[r].t = t
    <3>1. t # NoOne
      BY ConstantsAssumption
    <3>2. transfer'[t] = [transfer[t] EXCEPT !.status = req[r].next] /\ transfer[t] \in Carriage
      BY <2>1, <2>3, <3>1, SetStatusStep
    <3>3. CASE Commit(r)
      <4>1. moved' = [moved EXCEPT ![t] = Plus(@, req[r].move)] /\ moved \in [Transfers -> Units]
        BY <2>3, <3>1, <3>3 DEF Commit, Movements, Base, TypeOK
      <4>2. moved'[t] = Plus(moved[t], req[r].move)
        BY <4>1
      <4> QED BY <2>2, <2>3, <3>2, <4>2
    <3>4. CASE Decide(r)
      <4>1. moved' = moved /\ \A b \in Branches : req[r].move[b] = 0
        BY <3>4 DEF Decide, Rows
      <4>2. req[r].move \in Units
        BY BusyType DEF Base
      <4>3. req[r].move = Zero
        BY <4>1, <4>2 DEF Units, Zero
      <4> QED BY <2>2, <2>3, <3>2, <4>1, <4>3
    <3> QED BY <1>1, <3>3, <3>4
  <2>4. CASE req[r].t # t
    <3>1. transfer'[t] = transfer[t]
      BY <2>1, <2>4, SetStatusStep
    <3>2. moved'[t] = moved[t]
      BY <1>1, <2>4 DEF Commit, Decide, Base, TypeOK
    <3> QED BY <3>1, <3>2
  <2> QED BY <2>3, <2>4
<1>2. CASE CreateTransfer
  BY <1>2, CreateStep DEF Base, TypeOK
<1>3. ASSUME NEW r \in Requests, NEW m, NewRequest(r, m)
      PROVE  transfer' = transfer /\ moved' = moved
  BY <1>3, NewStep
<1>4. ASSUME NEW r \in Busy, Write(r) \/ WriteCount(r) \/ Sum(r) \/ Abort(r)
      PROVE  transfer' = transfer /\ moved' = moved
  BY <1>4 DEF Write, WriteCount, Sum, Abort
<1>5. CASE UNCHANGED vars
  BY <1>5 DEF vars
<1> QED BY <1>1, <1>2, <1>3, <1>4, <1>5, StepKinds

LEMMA MovesInductive ==
  ASSUME TransfersOneByOne, Base, MovesFit, [Next]_vars
  PROVE  MovesFit'
<1>1. MovesMatchStatus <=> \A t \in Transfers : moved[t] = Told(transfer[t])
  BY DEF MovesMatchStatus, Told
<1>2. MovesMatchStatus' <=> \A t \in Transfers : moved'[t] = Told(transfer'[t])
  BY DEF MovesMatchStatus, Told
<1>3. ASSUME NEW t \in Transfers
      PROVE  moved'[t] = Told(transfer'[t])
  <2>1. moved[t] = Told(transfer[t])
    BY <1>1 DEF MovesFit
  <2>2. CASE transfer'[t] = transfer[t] /\ moved'[t] = moved[t]
    BY <2>1, <2>2
  <2>3. CASE transfer[t] = NoTransfer /\ transfer'[t].status = "PENDING" /\ moved'[t] = moved[t]
    <3>1. Told(transfer[t]) = Zero /\ Told(transfer'[t]) = Zero
      BY <2>3 DEF Told, NoTransfer
    <3> QED BY <2>1, <2>3, <3>1
  <2>4. ASSUME NEW r \in Busy, req[r].t = t, transfer[t] \in Carriage,
               transfer'[t] = [transfer[t] EXCEPT !.status = req[r].next],
               \/ moved'[t] = Plus(moved[t], req[r].move)
               \/ req[r].move = Zero /\ moved'[t] = moved[t]
        PROVE  moved'[t] = Told(transfer'[t])
    <3>1. ReadOf(req[r], transfer[t]) /\ req[r].move \in Units
      BY <2>4, BusyType, ConstantsAssumption DEF MovesFit, Base
    <3>2. Plus(Told(transfer[t]), req[r].move) = Told(transfer'[t])
      BY <2>4, <3>1, MovesAdd
    <3>3. moved[t] \in Units
      BY DEF Base, TypeOK
    <3>4. Plus(moved[t], Zero) = moved[t]
      BY <3>3, UnitsAt DEF Plus, Units
    <3> QED BY <2>1, <2>4, <3>2, <3>4
  <2> QED BY <2>2, <2>3, <2>4, TransferStep
<1>4. ASSUME NEW r \in Busy', NEW x \in Busy', r # x, req'[r].t # NoOne
      PROVE  req'[r].t # req'[x].t
  <2>1. CASE r \in Busy /\ x \in Busy
    BY <1>4, <2>1, Survivor DEF MovesFit
  <2>2. CASE r \notin Busy \/ x \notin Busy
    <3>1. ASSUME NEW y \in Requests, NEW m, NewRequest(y, m)
          PROVE  req'[r].t # req'[x].t
      <4>1. /\ Busy' = Busy \cup {y} /\ req'[y] = m /\ \A z \in Busy : req'[z] = req[z]
            /\ y \notin Busy
        BY <3>1, NewStep
      <4>2. m.t # NoOne => \A z \in Busy : req[z].t # m.t
        BY <3>1 DEF NewRequest, Ready
      <4> QED BY <1>4, <2>2, <4>1, <4>2
    <3> QED BY <1>4, <2>2, <3>1, StepKinds, CreateStep, DoneOthers, WriteStep, SumStep,
               WriteCountStep DEF Goes, Commit, Decide, Abort, vars, Busy
  <2> QED BY <2>1, <2>2
<1>5. ASSUME NEW r \in Busy', req'[r].t # NoOne
      PROVE  ReadOf(req'[r], transfer'[req'[r].t])
  <2>1. CASE r \in Busy
    <3> DEFINE t == req[r].t
    <3>1. /\ req'[r].t = t /\ t # NoOne /\ t \in Transfers /\ ReadOf(req[r], transfer[t])
          /\ transfer[t].status # "NONE"
      BY <1>5, <2>1, Survivor, BusyType DEF MovesFit, Base, Known
    <3>2. req[r].op # "set"
      BY <2>1, <3>1 DEF Base, Shape, TransferOps
    <3>3. req'[r].op = req[r].op /\ req'[r].move = req[r].move /\ req'[r].next = req[r].next
      BY <1>5, <2>1, <3>2, Survivor, WriteCountStep
    <3>4. transfer'[t] = transfer[t]
      <4>1. \A x \in Busy : x \notin Busy' => req[x].t # t
        BY <1>5, <2>1, <3>1 DEF MovesFit
      <4>2. NoTransfer.status = "NONE"
        BY DEF NoTransfer
      <4> HIDE DEF t
      <4> QED BY <3>1, <4>1, <4>2, TransferStep
    <3> QED BY <3>1, <3>3, <3>4 DEF ReadOf
  <2>2. CASE r \notin Busy
    <3>1. ASSUME NEW y \in Requests, NEW m, NewRequest(y, m)
          PROVE  ReadOf(req'[r], transfer'[req'[r].t])
      <4>1. y = r /\ req'[r] = m /\ transfer' = transfer
        BY <1>5, <2>2, <3>1, NewStep
      <4> QED BY <1>5, <3>1, <4>1 DEF NewRequest
    <3> QED BY <1>5, <2>2, <3>1, StepKinds, CreateStep, DoneOthers, WriteStep, SumStep,
               WriteCountStep DEF Goes, Commit, Decide, Abort, vars, Busy
  <2> QED BY <2>1, <2>2
<1> QED BY <1>2, <1>3, <1>4, <1>5 DEF MovesFit

LEMMA MovesInvariant == ASSUME TransfersOneByOne PROVE Spec => []MovesFit
<1>1. Init => MovesFit
  BY DEF Init, MovesFit, MovesMatchStatus, NoTransfer, Busy
<1>2. Base /\ MovesFit /\ [Next]_vars => MovesFit'
  BY MovesInductive
<1> QED BY <1>1, <1>2, BaseInvariant, PTL DEF Spec

\* No unit is lost on the way from branch to branch and none arrives twice, provided requests about
\* one transfer do not overlap; requests about other transfers and stock may.
THEOREM MovesCorrect == ASSUME TransfersOneByOne PROVE Spec => []MovesMatchStatus
<1>1. MovesFit => MovesMatchStatus
  BY DEF MovesFit
<1> QED BY <1>1, MovesInvariant, PTL

\* Under the same assumption a transfer that has ended never changes again.
THEOREM EndedForGood == ASSUME TransfersOneByOne PROVE Spec => EndedStaysEnded
<1>1. Base /\ MovesFit /\ [Next]_vars =>
        [\A t \in Transfers : transfer[t].status \in Final => transfer'[t] = transfer[t]]_vars
  <2> SUFFICES ASSUME Base, MovesFit, [Next]_vars, NEW t \in Transfers,
                      transfer[t].status \in Final
               PROVE  transfer'[t] = transfer[t]
    OBVIOUS
  <2>1. transfer[t] # NoTransfer
    BY DEF Final, NoTransfer
  <2>2. ASSUME NEW r \in Busy, req[r].t = t
        PROVE  FALSE
    <3>1. ReadOf(req[r], transfer[t])
      BY <2>2, ConstantsAssumption DEF MovesFit
    <3> QED BY <3>1 DEF ReadOf, Final, Cancellable
  <2> QED BY <2>1, <2>2, TransferStep
<1> QED BY <1>1, MovesInvariant, BaseInvariant, PTL DEF Spec, EndedStaysEnded

\* Under the same assumption a cancelled transfer has all its units back at the source, as the
\* comment in cancelTransfer says: what keeps them is only the request that overlaps.
THEOREM CancelledWithUnits == ASSUME TransfersOneByOne PROVE Spec => []CancelledIsRefunded
<1>1. MovesFit => CancelledIsRefunded
  BY DEF MovesFit, MovesMatchStatus, CancelledIsRefunded
<1> QED BY <1>1, MovesInvariant, PTL

-----------------------------------------------------------------------------
(* BranchStock implements TransferLifecycle                                *)

\* What the source of transfer x has given away, and what its destination has got, by movements f
SentBy(x, f) == IF x = NoTransfer THEN 0 ELSE -f[x.from]
ArrivedBy(x, f) == IF x = NoTransfer THEN 0 ELSE f[x.to]

\* How much that is, by the status of a transfer whose movements are told by it.
LEMMA ToldUnits ==
  ASSUME NEW x \in Carriage
  PROVE  /\ SentBy(x, Told(x)) =
              IF x.status \in {"IN_TRANSIT", "RECEIVED", "COMPLETED"} THEN x.qty ELSE 0
         /\ ArrivedBy(x, Told(x)) = IF x.status \in {"RECEIVED", "COMPLETED"} THEN x.qty ELSE 0
<1>1. /\ x.from \in Branches /\ x.to \in Branches /\ x.from # x.to /\ x.qty \in Int
      /\ -x.qty \in Int /\ x.status \in Statuses
  <2>1. /\ x.from \in Branches /\ x.to \in Branches /\ x.from # x.to /\ x.qty \in Amounts
        /\ x.status \in Statuses
    BY DEF Carriage
  <2>2. \A q \in Amounts : q \in Int /\ -q \in Int
    BY ConstantsAssumption
  <2> QED BY <2>1, <2>2
<1>2. x # NoTransfer
  BY <1>1 DEF Statuses, NoTransfer
<1> DEFINE gone == At(x.from, -x.qty)
           there == [gone EXCEPT ![x.to] = x.qty]
<1>3. gone \in Units /\ gone[x.from] = -x.qty /\ gone[x.to] = 0
  <2>1. gone \in Units
    BY <1>1, UnitsType
  <2>2. \A b \in Branches : gone[b] = IF b = x.from THEN -x.qty ELSE 0
    BY <1>1, UnitsAt
  <2> HIDE DEF gone
  <2> QED BY <1>1, <2>1, <2>2
<1>4. there[x.from] = -x.qty /\ there[x.to] = x.qty
  <2> HIDE DEF gone
  <2> QED BY <1>1, <1>3 DEF Units
<1>5. Zero[x.from] = 0 /\ Zero[x.to] = 0
  BY <1>1, UnitsAt
<1>6. Told(x) = IF x.status = "IN_TRANSIT" THEN gone
                ELSE IF x.status \in {"RECEIVED", "COMPLETED"} THEN there ELSE Zero
  BY DEF Told
<1> HIDE DEF gone, there
<1> QED BY <1>1, <1>2, <1>3, <1>4, <1>5, <1>6 DEF SentBy, ArrivedBy

\* What a request makes of the transfer it has read is a step of its life.
LEMMA LifeStep ==
  ASSUME NEW x \in Carriage, NEW m, ReadOf(m, x)
  PROVE  LET y == [x EXCEPT !.status = m.next]
             sent == SentBy(x, Told(x))
             now == SentBy(y, Told(y))
             arrived == ArrivedBy(x, Told(x))
             there == ArrivedBy(y, Told(y))
         IN  \/ /\ x.status = "PENDING" /\ y.status \in {"APPROVED", "REJECTED"}
                /\ now = sent /\ there = arrived
             \/ /\ x.status = "APPROVED" /\ y.status = "IN_TRANSIT"
                /\ now \in Nat \ {0} /\ there = arrived
             \/ /\ x.status = "IN_TRANSIT" /\ y.status = "RECEIVED"
                /\ now = sent /\ there = sent
             \/ /\ x.status = "PENDING" /\ y.status = "COMPLETED"
                /\ now \in Nat \ {0} /\ there = now
             \/ /\ x.status \in {"PENDING", "APPROVED", "IN_TRANSIT"} /\ y.status = "CANCELLED"
                /\ now = 0 /\ there = arrived
<1> DEFINE y == [x EXCEPT !.status = m.next]
<1>1. m.next \in Statuses
  BY DEF ReadOf, Statuses
<1>2. y \in Carriage /\ y.status = m.next /\ y.qty = x.qty
  BY <1>1 DEF Carriage
<1>3. x.qty \in Nat \ {0}
  BY ConstantsAssumption DEF Carriage
<1> HIDE DEF y
<1>4. /\ SentBy(x, Told(x)) =
           IF x.status \in {"IN_TRANSIT", "RECEIVED", "COMPLETED"} THEN x.qty ELSE 0
      /\ SentBy(y, Told(y)) =
           IF m.next \in {"IN_TRANSIT", "RECEIVED", "COMPLETED"} THEN x.qty ELSE 0
      /\ ArrivedBy(x, Told(x)) = IF x.status \in {"RECEIVED", "COMPLETED"} THEN x.qty ELSE 0
      /\ ArrivedBy(y, Told(y)) = IF m.next \in {"RECEIVED", "COMPLETED"} THEN x.qty ELSE 0
  BY <1>2, ToldUnits
<1>5. \/ x.status = "PENDING" /\ m.next \in {"APPROVED", "REJECTED"}
      \/ x.status = "APPROVED" /\ m.next = "IN_TRANSIT"
      \/ x.status = "IN_TRANSIT" /\ m.next = "RECEIVED"
      \/ x.status = "PENDING" /\ m.next = "COMPLETED"
      \/ x.status \in {"PENDING", "APPROVED", "IN_TRANSIT"} /\ m.next = "CANCELLED"
  BY DEF ReadOf, Cancellable
<1> QED BY <1>2, <1>3, <1>4, <1>5 DEF y

\* With requests about one transfer one by one, every transfer goes the way of TransferLifecycle,
\* whatever else moves stock between the same branches meanwhile.
THEOREM TransferImplements == ASSUME TransfersOneByOne PROVE Spec => TransfersKeepPromise
<1>1. Init => Life!Init
  <2>1. NoTransfer.status = "NONE"
    BY DEF NoTransfer
  <2> QED BY <2>1 DEF Init, Life!Init
<1>2. ASSUME Base, MovesFit, MovesFit', [Next]_vars, NEW t \in Transfers
      PROVE  \/ Life!Stay(t) \/ Life!Request(t) \/ Life!Decide(t) \/ Life!Send(t)
             \/ Life!Arrive(t) \/ Life!Carry(t) \/ Life!CallOff(t)
  <2> DEFINE x == transfer[t]
             y == transfer'[t]
             sent == SentBy(x, moved[t])
             now == SentBy(y, moved'[t])
             arrived == ArrivedBy(x, moved[t])
             there == ArrivedBy(y, moved'[t])
  <2>1. /\ [z \in Transfers |-> transfer[z].status][t] = x.status
        /\ [z \in Transfers |-> transfer[z].status]'[t] = y.status
        /\ [z \in Transfers |-> IF transfer[z] = NoTransfer THEN 0
                                ELSE -moved[z][transfer[z].from]][t] = sent
        /\ [z \in Transfers |-> IF transfer[z] = NoTransfer THEN 0
                                ELSE -moved[z][transfer[z].from]]'[t] = now
        /\ [z \in Transfers |-> IF transfer[z] = NoTransfer THEN 0
                                ELSE moved[z][transfer[z].to]][t] = arrived
        /\ [z \in Transfers |-> IF transfer[z] = NoTransfer THEN 0
                                ELSE moved[z][transfer[z].to]]'[t] = there
    BY DEF SentBy, ArrivedBy
  <2>2. moved[t] = Told(x) /\ moved'[t] = Told(y)
    BY <1>2 DEF MovesFit, MovesMatchStatus, Told
  <2>3. \/ y.status = x.status /\ now = sent /\ there = arrived
        \/ x.status = "NONE" /\ y.status = "PENDING" /\ now = sent /\ there = arrived
        \/ /\ x.status = "PENDING" /\ y.status \in {"APPROVED", "REJECTED"}
           /\ now = sent /\ there = arrived
        \/ /\ x.status = "APPROVED" /\ y.status = "IN_TRANSIT"
           /\ now \in Nat \ {0} /\ there = arrived
        \/ /\ x.status = "IN_TRANSIT" /\ y.status = "RECEIVED"
           /\ now = sent /\ there = sent
        \/ /\ x.status = "PENDING" /\ y.status = "COMPLETED"
           /\ now \in Nat \ {0} /\ there = now
        \/ /\ x.status \in {"PENDING", "APPROVED", "IN_TRANSIT"} /\ y.status = "CANCELLED"
           /\ now = 0 /\ there = arrived
    <3>1. CASE y = x /\ moved'[t] = moved[t]
      BY <3>1
    <3>2. CASE x = NoTransfer /\ y.status = "PENDING" /\ moved'[t] = moved[t]
      <4>1. y \in Carriage
        <5>1. Base'
          BY <1>2, BaseInductive
        <5>2. y \in {NoTransfer} \cup Carriage
          BY <5>1 DEF Base, TypeOK
        <5> QED BY <3>2, <5>2 DEF NoTransfer
      <4>2. now = 0 /\ there = 0
        BY <2>2, <3>2, <4>1, ToldUnits
      <4>3. x.status = "NONE" /\ sent = 0 /\ arrived = 0
        BY <3>2 DEF SentBy, ArrivedBy, NoTransfer
      <4> QED BY <3>2, <4>2, <4>3
    <3>3. ASSUME NEW r \in Busy, req[r].t = t, x \in Carriage, y = [x EXCEPT !.status = req[r].next]
          PROVE  \/ /\ x.status = "PENDING" /\ y.status \in {"APPROVED", "REJECTED"}
                    /\ now = sent /\ there = arrived
                 \/ /\ x.status = "APPROVED" /\ y.status = "IN_TRANSIT"
                    /\ now \in Nat \ {0} /\ there = arrived
                 \/ /\ x.status = "IN_TRANSIT" /\ y.status = "RECEIVED"
                    /\ now = sent /\ there = sent
                 \/ /\ x.status = "PENDING" /\ y.status = "COMPLETED"
                    /\ now \in Nat \ {0} /\ there = now
                 \/ /\ x.status \in {"PENDING", "APPROVED", "IN_TRANSIT"} /\ y.status = "CANCELLED"
                    /\ now = 0 /\ there = arrived
      <4>1. ReadOf(req[r], x)
        BY <1>2, <3>3, ConstantsAssumption DEF MovesFit
      <4> HIDE DEF x, y
      <4> QED BY <2>2, <3>3, <4>1, LifeStep
    <3> HIDE DEF sent, now, arrived, there
    <3> QED BY <1>2, <3>1, <3>2, <3>3, TransferStep DEF sent, now, arrived, there
  <2> HIDE DEF x, y, sent, now, arrived, there
  <2> QED BY <2>1, <2>3 DEF Life!Stay, Life!AtRest, Life!Request, Life!Decide, Life!Send,
             Life!Arrive, Life!Carry, Life!CallOff
<1>3. Base /\ MovesFit /\ MovesFit' /\ [Next]_vars => [Life!Next]_Life!vars
  BY <1>2 DEF Life!Next
<1> QED BY <1>1, <1>3, MovesInvariant, BaseInvariant, PTL DEF Spec, TransfersKeepPromise, Life!Spec

-----------------------------------------------------------------------------
(* ShadowIsSum, when every request that moves stock runs alone             *)

Moving == {"dispatch", "receive", "complete", "cancel", "in", "out", "adjust"}

\* The total in the product is of the branches as they are; a request that moves stock has no other
\* beside it, so the total it has read is of the branches as it will leave them
TotalFits ==
  /\ summed = quantity
  /\ \A op \in Moving : Alone(op)
  /\ \A r \in Busy :
       /\ req[r].op # "set"
       /\ req[r].op \in {"approve", "reject"} => req[r].move = Zero /\ req[r].step = "asked"
       /\ req[r].step = "summed" => req[r].sum = Plus(quantity, req[r].move)

LEMMA TotalInductive ==
  ASSUME "set" \notin Ops, Moving \subseteq Exclusive, Base, TotalFits, [Next]_vars
  PROVE  TotalFits'
<1>1. \A op \in Moving : Alone(op)'
  BY AloneInductive DEF TotalFits
<1>2. ASSUME NEW r \in Busy
      PROVE  ~WriteCount(r)
  BY <1>2 DEF TotalFits, WriteCount
<1>3. ASSUME NEW r \in Busy, Write(r)
      PROVE  req[r].op \notin {"approve", "reject"}
  <2>1. Rows(req[r]) # {}
    BY <1>3 DEF Write
  <2>2. req[r].move # Zero
    BY <2>1, UnitsAt DEF Rows
  <2> QED BY <2>2 DEF TotalFits
<1>4. ASSUME NEW r \in Busy, req[r].step # "asked"
      PROVE  Busy = {r}
  <2>1. req[r] \in RowRequest \cup CountRequest
    BY BusyType, RequestKinds DEF Base
  <2>2. req[r].op \in TransferOps \cup {"in", "out", "adjust", "set"}
    BY <2>1 DEF RowRequest, CountRequest
  <2>3. req[r].op \in Moving
    BY <1>4, <2>2 DEF TotalFits, TransferOps, Moving
  <2> QED BY <2>3 DEF TotalFits, Alone
<1>5. summed' = quantity'
  <2>1. ASSUME NEW r \in Busy, Commit(r)
        PROVE  summed' = quantity'
    BY <2>1 DEF Commit, TotalFits
  <2>2. ASSUME NEW r \in Busy, Write(r) \/ Sum(r) \/ Decide(r) \/ Abort(r)
        PROVE  UNCHANGED <<quantity, summed>>
    BY <2>2 DEF Write, Sum, Decide, Abort
  <2>3. CASE UNCHANGED <<quantity, summed>>
    BY <2>3 DEF TotalFits
  <2> QED BY <1>2, <2>1, <2>2, <2>3, StepKinds, NewStep, CreateStep DEF vars
<1>6. ASSUME NEW r \in Busy', r \in Busy
      PROVE  /\ req'[r].op # "set"
             /\ req'[r].op \in {"approve", "reject"} => req'[r].move = Zero /\ req'[r].step = "asked"
             /\ req'[r].step = "summed" => req'[r].sum = Plus(quantity', req'[r].move)
  <2>1. /\ req'[r].op = req[r].op /\ req'[r].move = req[r].move
        /\ req'[r] = req[r] \/ Write(r) \/ Sum(r)
    BY <1>2, <1>6, Survivor
  <2>2. CASE Write(r)
    BY <1>3, <1>6, <2>1, <2>2, WriteStep DEF Goes, TotalFits
  <2>3. CASE Sum(r)
    <3>1. req'[r].sum = Plus(quantity, req[r].move) /\ quantity' = quantity /\ req[r].step = "wrote"
      BY <1>6, <2>3, SumStep DEF Seen, Sum
    <3> QED BY <1>6, <2>1, <3>1 DEF TotalFits
  <2>4. CASE req'[r] = req[r]
    <3>1. CASE req[r].step = "summed"
      <4>1. Busy = {r}
        BY <1>4, <1>6, <3>1
      <4>2. ASSUME NEW x \in Busy
            PROVE  ~Commit(x)
        BY <1>6, <4>1, DoneOthers DEF Commit
      <4>3. quantity' = quantity
        BY <1>2, <4>2, StepKinds, NewStep, CreateStep DEF Write, Sum, Decide, Abort, vars
      <4> QED BY <1>6, <2>4, <4>3 DEF TotalFits
    <3>2. CASE req[r].step # "summed"
      BY <1>6, <2>4, <3>2 DEF TotalFits
    <3> QED BY <3>1, <3>2
  <2> QED BY <2>1, <2>2, <2>3, <2>4
<1>7. ASSUME NEW r \in Busy', r \notin Busy
      PROVE  /\ req'[r].op # "set"
             /\ req'[r].op \in {"approve", "reject"} => req'[r].move = Zero /\ req'[r].step = "asked"
             /\ req'[r].step # "summed"
  <2>1. PICK m : NewRequest(r, m)
    BY <1>7, StepKinds, NewStep, CreateStep, DoneOthers, WriteStep, SumStep, WriteCountStep
       DEF Goes, Commit, Decide, Abort, vars, Busy
  <2>2. req'[r] = m /\ m.step = "asked" /\ m.op \in Ops
    BY <2>1, NewStep DEF NewRequest, Ready, Busy
  <2>3. m.op \in {"approve", "reject"} => m.move = Zero
    BY <2>1 DEF NewRequest, Shape, TransferOps, ReadOf
  <2> QED BY <2>2, <2>3
<1> QED BY <1>1, <1>5, <1>6, <1>7 DEF TotalFits

\* Product.stock is the sum of the branches after any sequence of requests, provided those that move
\* stock run alone and no count is made by setBranchStock, which stores the total outside its
\* transaction: the total drifts by overlapping transactions only, and never by one left undone.
THEOREM TotalWhenAlone ==
  ASSUME "set" \notin Ops, Moving \subseteq Exclusive
  PROVE  Spec => []ShadowIsSum
<1>1. Init => TotalFits
  BY DEF Init, TotalFits, Alone, Busy
<1>2. Base /\ TotalFits /\ [Next]_vars => TotalFits'
  BY TotalInductive
<1>3. TotalFits => ShadowIsSum
  BY DEF TotalFits, ShadowIsSum
<1> QED BY <1>1, <1>2, <1>3, BaseInvariant, PTL DEF Spec
=============================================================================
