------------------------------ MODULE RepairJob ------------------------------
(***************************************************************************)
(* The life of one repair job: RepairsService.create, update, submitQc,    *)
(* addPart, removePart, quickPaid, markPartsDone, processPayment,          *)
(* reversePayment, addAdditionalPayment and refundAndCancel                *)
(* (src/backend/src/repairs/repairs.service.ts) and                        *)
(* DebtPaymentsService.create (src/backend/src/debt-payments), with the    *)
(* parts it takes from the branch's stock and its entries in the drawer    *)
(* ledger.  Jobs meet only in the stock rows, where every write is an      *)
(* increment or a conditional decrement, so one job is enough.             *)
(*                                                                         *)
(* A handler reads the job, checks it, and only then opens a transaction:  *)
(* Ask... is the read with its checks, Commit... is the transaction.  Some *)
(* transactions check again what they read (a conditional UPDATE or SELECT *)
(* ... FOR UPDATE), others write whatever has happened meanwhile.  Stands  *)
(* says, per operation, what is read before and NOT checked again;         *)
(* overtaken becomes TRUE when a transaction commits although that has     *)
(* changed.  The invariants say that nothing else can go wrong.            *)
(***************************************************************************)
EXTENDS Integers, FiniteSets, Functions

CONSTANTS
  Requests,      \* HTTP requests that can be under way
  Products,      \* spare parts; a part on the job is one unit
  InitialStock,  \* units of each at the start
  Prices,        \* what a repair may cost
  Cuts,          \* discounts at pickup; 0 is none
  Deposits,      \* deposits taken at intake; 0 is none
  Amounts,       \* money handed over at a time
  Ops,           \* the operations the shop uses
  Stages,        \* bound: the statuses the shop moves its jobs through
  InFlight,      \* bound: requests under way at a time
  MaxAdds,       \* bound: additional payments of the job
  MaxRounds,     \* bound: reversed payments of the job
  MaxParts       \* bound: parts the job has ever had

ASSUME ConstantsAssumption ==
  /\ InitialStock \in [Products -> Nat]
  /\ Prices \subseteq Nat
  /\ Cuts \subseteq Nat
  /\ Deposits \subseteq Nat
  /\ Amounts \subseteq Nat
  /\ InFlight \in Nat
  /\ MaxAdds \in Nat
  /\ MaxRounds \in Nat
  /\ MaxParts \in Nat

VARIABLES
  repair,     \* Repair with its RepairPart, RepairAdditionalPayment, RepairPaymentReversal rows;
              \* kept (history) of an additional payment: it has not been given back
  stock,      \* BranchStock.quantity
  drawer,     \* CashDrawerTransaction: the ledger entries of the job
  req,        \* what each request under way has read
  overtaken   \* a transaction has relied on something that had changed

vars == <<repair, stock, drawer, req, overtaken>>

Idle == [op |-> "none"]

NoRepair ==
  [status |-> "NONE", pay |-> "PENDING", price |-> 0, deposit |-> 0,
   paid |-> 0, cut |-> 0, adds |-> {}, rounds |-> 0,
   parts |-> {}, taken |-> 0, pending |-> FALSE]

Total(payments) == SumFunction([p \in payments |-> p.amount])

\* What the customer has given since intake, and what is still owed
Collected(job) == job.paid + Total(job.adds)
Owed(job) == job.price - job.deposit - Collected(job)

Least(a, b) == IF a < b THEN a ELSE b
AtLeastZero(a) == IF a < 0 THEN 0 ELSE a

\* AccountingService.record: an entry whose key (type, source, direction) exists is not repeated
Entry(src, n, dir, amount) == [src |-> src, n |-> n, dir |-> dir, amount |-> amount]
Key(e) == [src |-> e.src, n |-> e.n, dir |-> e.dir]
Record(ledger, entries) ==
  ledger \cup {e \in entries : \A x \in ledger : Key(x) # Key(e)}

\* Money of the job in the drawer, by the ledger
Net(ledger) ==
  Total({e \in ledger : e.dir = "IN"}) - Total({e \in ledger : e.dir = "OUT"})

Back(product, parts) == Cardinality({x \in parts : x.product = product})

Init ==
  /\ repair = NoRepair
  /\ stock = InitialStock
  /\ drawer = {}
  /\ req = [r \in Requests |-> Idle]
  /\ overtaken = FALSE

-----------------------------------------------------------------------------
(* Requests: the reads and checks before the transaction                   *)

Busy == {r \in Requests : req[r] # Idle}

Ready(r, op) ==
  /\ req[r] = Idle
  /\ op \in Ops
  /\ Cardinality(Busy) < InFlight

Ask(r, message) ==
  /\ req' = [req EXCEPT ![r] = message]
  /\ UNCHANGED <<repair, stock, drawer, overtaken>>

\* update: the next statuses the handler allows; the same status again is let through
Allowed == [s \in {"RECEIVED", "DIAGNOSING", "WAITING_APPROVAL", "APPROVED", "WAITING_PARTS",
                   "IN_PROGRESS", "QC_PENDING", "COMPLETED", "READY_PICKUP"} |->
  CASE s = "RECEIVED" -> {"DIAGNOSING"}
    [] s = "DIAGNOSING" -> {"WAITING_APPROVAL", "APPROVED", "IN_PROGRESS"}
    [] s = "WAITING_APPROVAL" -> {"APPROVED"}
    [] s = "APPROVED" -> {"WAITING_PARTS", "IN_PROGRESS"}
    [] s = "WAITING_PARTS" -> {"IN_PROGRESS"}
    [] s = "IN_PROGRESS" -> {"WAITING_APPROVAL", "QC_PENDING", "WAITING_PARTS", "COMPLETED"}
    [] s = "QC_PENDING" -> {"IN_PROGRESS"}
    [] s = "COMPLETED" -> {"READY_PICKUP"}
    [] s = "READY_PICKUP" -> {}]

AskMove(r) ==
  /\ Ready(r, "move")
  /\ repair.status \in DOMAIN Allowed
  /\ \E next \in (Allowed[repair.status] \cup {repair.status}) \cap Stages :
       Ask(r, [op |-> "move", from |-> repair.status, next |-> next])

\* update to CANCELLED: also a job that is cancelled already, never one that was handed over.
\* The transaction reads the active parts before it locks anything: that read is part of this step.
AskCancel(r) ==
  /\ Ready(r, "cancel")
  /\ repair.status \notin {"NONE", "DELIVERED"}
  /\ Ask(r, [op |-> "cancel", parts |-> repair.parts])

AskQc(r) ==
  /\ Ready(r, "qc")
  /\ repair.status = "QC_PENDING"
  /\ \E next \in {"COMPLETED", "IN_PROGRESS"} : Ask(r, [op |-> "qc", next |-> next])

\* A quick job, paid in one step, takes its parts after it was handed over
LateParts == repair.pending /\ repair.status = "DELIVERED"
TakesParts == LateParts \/ repair.status \notin {"NONE", "COMPLETED", "DELIVERED", "CANCELLED"}
GivesParts == LateParts \/ repair.status \notin {"NONE", "COMPLETED", "DELIVERED"}

\* No part of this product is on the job
NotYet(product) == \A x \in repair.parts : x.product # product

\* addPart: the duplicate guard is in the transaction, but before its first lock
AskAddPart(r) ==
  /\ Ready(r, "addPart")
  /\ TakesParts
  /\ repair.taken < MaxParts
  /\ \E p \in Products : NotYet(p) /\ Ask(r, [op |-> "addPart", product |-> p])

AskRemovePart(r) ==
  /\ Ready(r, "removePart")
  /\ GivesParts
  /\ \E x \in repair.parts : Ask(r, [op |-> "removePart", part |-> x])

Payable(job) == job.status \in {"COMPLETED", "READY_PICKUP"} /\ job.pay # "PAID"

\* processPayment: the price is the one sent with the payment, less the discount; of the money
\* handed over the shop keeps the balance, and less than the balance is a partial payment
Payment(op, price, cut, amount) ==
  LET total   == price - cut
      balance == AtLeastZero(total - repair.deposit)
  IN  [op |-> op, total |-> total, cut |-> cut, received |-> Least(amount, balance),
       partial |-> amount < balance]

AskPay(r) ==
  /\ Ready(r, "pay")
  /\ Payable(repair)
  /\ \E price \in Prices, cut \in Cuts, amount \in Amounts :
       /\ cut <= price
       /\ Ask(r, Payment("pay", price, cut, amount))

AskReverse(r) ==
  /\ Ready(r, "reverse")
  /\ repair.status = "DELIVERED" /\ repair.pay = "PAID"
  /\ repair.rounds < MaxRounds
  /\ Ask(r, [op |-> "reverse", paid |-> repair.paid, price |-> repair.price, cut |-> repair.cut])

AskRefund(r) ==
  /\ Ready(r, "refund")
  /\ repair.status = "DELIVERED" /\ repair.pay = "PAID"
  /\ Ask(r, [op |-> "refund", paid |-> repair.paid, adds |-> repair.adds])

\* addAdditionalPayment
AskAdd(r) ==
  /\ Ready(r, "add")
  /\ repair.status \in {"COMPLETED", "DELIVERED"}
  /\ Cardinality(repair.adds) < MaxAdds
  /\ \E amount \in Amounts \ {0} :
       Ask(r, [op |-> "add", amount |-> amount, price |-> repair.price])

\* DebtPaymentsService.create
AskDebt(r) ==
  /\ Ready(r, "debt")
  /\ repair.status = "DELIVERED" /\ repair.pay \in {"PENDING", "PARTIAL"}
  /\ Cardinality(repair.adds) < MaxAdds
  /\ \E amount \in Amounts \ {0} : Ask(r, [op |-> "debt", amount |-> amount])

-----------------------------------------------------------------------------
(* Transactions                                                            *)

\* What request r read and its transaction does not check again is still so.  The deposit is
\* left out: no operation modelled here changes it after intake.
Stands(r) ==
  LET m == req[r] IN
  CASE m.op = "move"       -> repair.status = m.from
    [] m.op = "cancel"     -> repair.status # "DELIVERED" /\ repair.parts = m.parts
    [] m.op = "qc"         -> repair.status = "QC_PENDING"
    [] m.op = "addPart"    -> TakesParts /\ NotYet(m.product)
    [] m.op = "removePart" -> GivesParts /\ m.part \in repair.parts
    [] m.op = "reverse"    -> repair.paid = m.paid /\ repair.price = m.price /\ repair.cut = m.cut
    [] m.op = "refund"     -> repair.paid = m.paid /\ repair.adds = m.adds
    [] m.op = "add"        -> repair.status \in {"COMPLETED", "DELIVERED"} /\ repair.price = m.price
    [] m.op = "debt"       -> repair.status = "DELIVERED"
    [] m.op = "quick"      -> repair.status = "RECEIVED"
    [] OTHER               -> TRUE

\* A quick job that is given up is still the finished, unpaid job without parts it was
QuickStands == Payable(repair) /\ repair.pay = "PENDING" /\ repair.parts = {}

Finish(r) ==
  /\ req' = [req EXCEPT ![r] = Idle]
  /\ overtaken' = (overtaken \/ ~Stands(r))

\* create: intake with or without a deposit
Create ==
  /\ "create" \in Ops
  /\ repair.status = "NONE"
  /\ \E d \in Deposits :
       /\ repair' = [repair EXCEPT !.status = "RECEIVED", !.deposit = d]
       /\ drawer' = IF d > 0 THEN Record(drawer, {Entry("REPAIR_DEPOSIT", 0, "IN", d)}) ELSE drawer
  /\ UNCHANGED <<stock, req, overtaken>>

\* update without a status: the price is edited, whatever the job's status
Edit ==
  /\ "edit" \in Ops
  /\ repair.status # "NONE"
  /\ \E price \in Prices : repair' = [repair EXCEPT !.price = price]
  /\ UNCHANGED <<stock, drawer, req, overtaken>>

CommitMove(r) ==
  /\ req[r].op \in {"move", "qc"}
  /\ repair' = [repair EXCEPT !.status = req[r].next]
  /\ Finish(r)
  /\ UNCHANGED <<stock, drawer>>

\* Mutant: the parts of a cancelled job are not put back
PutBackNothing(parts) == stock

\* The units of these parts go back on the shelf
PutBack(parts) == [p \in Products |-> stock[p] + Back(p, parts)]

DepositBack(ledger) ==
  IF repair.deposit > 0
  THEN Record(ledger, {Entry("REPAIR_DEPOSIT_REFUND", 0, "OUT", repair.deposit)})
  ELSE ledger

CommitCancel(r) ==
  /\ req[r].op = "cancel"
  /\ repair' = [repair EXCEPT !.status = "CANCELLED", !.parts = @ \ req[r].parts]
  /\ stock' = PutBack(req[r].parts)
  /\ drawer' = DepositBack(drawer)
  /\ Finish(r)

\* Mutant: the UPDATE that takes the unit has no condition
OnShelfUnchecked(p) == TRUE

OnShelf(p) == stock[p] >= 1

CommitAddPart(r) ==
  LET p == req[r].product IN
  /\ req[r].op = "addPart"
  /\ OnShelf(p)
  /\ repair.taken < MaxParts
  /\ stock' = [stock EXCEPT ![p] = @ - 1]
  /\ repair' = [repair EXCEPT !.parts = @ \cup {[n |-> repair.taken + 1, product |-> p]},
                              !.taken = @ + 1]
  /\ Finish(r)
  /\ UNCHANGED drawer

CommitRemovePart(r) ==
  /\ req[r].op = "removePart"
  /\ repair' = [repair EXCEPT !.parts = @ \ {req[r].part}]
  /\ stock' = PutBack({req[r].part})
  /\ Finish(r)
  /\ UNCHANGED drawer

\* markPartsDone
PartsDone ==
  /\ repair.pending
  /\ repair' = [repair EXCEPT !.pending = FALSE]
  /\ UNCHANGED <<stock, drawer, req, overtaken>>

\* Mutant: the UPDATE of a payment has no condition, the check before the transaction is trusted
StillPayableUnchecked(job) == TRUE

\* Mutant: only the payment status is checked again, as it was before the status was added
StillPayableByPayment(job) == job.pay # "PAID"

\* The condition of the UPDATE that takes the payment
StillPayable(job) == Payable(job)

\* The payment after each reversal is a round of its own in the ledger
TakePayment(r) ==
  LET m == req[r] IN
  /\ StillPayable(repair)
  /\ repair' = [repair EXCEPT !.status = "DELIVERED", !.paid = m.received, !.price = m.total,
                              !.cut = m.cut, !.pay = IF m.partial THEN "PARTIAL" ELSE "PAID"]
  /\ drawer' = IF m.received > 0
               THEN Record(drawer, {Entry("REPAIR_FINAL_PAYMENT", repair.rounds, "IN", m.received)})
               ELSE drawer

CommitPay(r) ==
  /\ req[r].op \in {"pay", "quickPay"}
  /\ TakePayment(r)
  /\ Finish(r)
  /\ UNCHANGED stock

\* quickPaid: a job entered after the fact is created, ...
QuickCreate(r) ==
  /\ Ready(r, "quick")
  /\ repair.status = "NONE"
  /\ repair' = [repair EXCEPT !.status = "RECEIVED"]
  /\ req' = [req EXCEPT ![r] = [op |-> "quick"]]
  /\ UNCHANGED <<stock, drawer, overtaken>>

\* ... finished by an UPDATE without condition, ...
QuickFinish(r) ==
  /\ req[r].op = "quick"
  /\ repair' = [repair EXCEPT !.status = "COMPLETED", !.pending = TRUE]
  /\ req' = [req EXCEPT ![r] = [op |-> "quickDone"]]
  /\ overtaken' = (overtaken \/ ~Stands(r))
  /\ UNCHANGED <<stock, drawer>>

\* ... and paid like any other ...
QuickAskPay(r) ==
  /\ req[r].op = "quickDone"
  /\ Payable(repair)
  /\ \E price \in Prices : Ask(r, Payment("quickPay", price, 0, price))

\* ... or, when the payment fails (the shift was closed, another was quicker), cancelled by an
\* UPDATE without condition
QuickGiveUp(r) ==
  /\ req[r].op \in {"quickDone", "quickPay"}
  /\ repair' = [repair EXCEPT !.status = "CANCELLED", !.pending = FALSE]
  /\ req' = [req EXCEPT ![r] = Idle]
  /\ overtaken' = (overtaken \/ ~QuickStands)
  /\ UNCHANGED <<stock, drawer>>

\* The condition of the UPDATE by which a reversal or a refund claims the payment
StillPaid(job) == job.status = "DELIVERED" /\ job.pay = "PAID"

\* A pickup discount belonged to the payment: the price goes back to what was read plus it
PriceBefore(m) == IF m.cut > 0 THEN m.price + m.cut ELSE repair.price

\* reversePayment: the amount that was read leaves the drawer, the job waits for pickup again
CommitReverse(r) ==
  LET m == req[r] IN
  /\ m.op = "reverse"
  /\ StillPaid(repair)
  /\ repair.rounds < MaxRounds
  /\ repair' = [repair EXCEPT !.status = "COMPLETED", !.pay = "PENDING", !.paid = 0,
                              !.price = PriceBefore(m), !.cut = IF m.cut > 0 THEN 0 ELSE @,
                              !.rounds = @ + 1]
  /\ drawer' = Record(drawer, {Entry("REVERSAL", repair.rounds, "OUT", m.paid)})
  /\ Finish(r)
  /\ UNCHANGED stock

RefundEntries(m) ==
  (IF m.paid > 0 THEN {Entry("REPAIR_FINAL_PAYMENT_REFUND", 0, "OUT", m.paid)} ELSE {})
    \cup {Entry("REPAIR_ADDITIONAL_PAYMENT_REFUND", a.n, "OUT", a.amount) : a \in m.adds}

\* Of the additional payments, those the refund has listed are no longer kept
GivenBack(adds, listed) == {IF a \in listed THEN [a EXCEPT !.kept = FALSE] ELSE a : a \in adds}

\* refundAndCancel: the payments that were read, and the deposit, go back; the parts on the job
\* now are put back
CommitRefund(r) ==
  LET m == req[r] IN
  /\ m.op = "refund"
  /\ StillPaid(repair)
  /\ repair' = [repair EXCEPT !.status = "CANCELLED", !.pay = "PENDING", !.paid = 0, !.parts = {},
                              !.adds = GivenBack(@, m.adds), !.rounds = @ + 1]
  /\ stock' = PutBack(repair.parts)
  /\ drawer' = DepositBack(Record(drawer, RefundEntries(m)))
  /\ Finish(r)

\* An additional payment is stored and entered in the drawer, under its own number, whether or not
\* its cashier has a shift open that counts it
TakeAmount(m, pay) ==
  LET n == Cardinality(repair.adds) + 1 IN
  /\ n <= MaxAdds
  /\ repair' = [repair EXCEPT !.adds = @ \cup {[n |-> n, amount |-> m.amount, kept |-> TRUE]},
                              !.pay = pay]
  /\ drawer' = Record(drawer, {Entry("REPAIR_ADDITIONAL_PAYMENT", n, "IN", m.amount)})

\* Mutant: money taken before the device is handed over also pays the job off
PaysDebtEarly(price) == repair.pay # "PAID" /\ price > 0

\* An additional payment pays off a debt only after a partial payment
PaysDebt(price) == repair.pay = "PARTIAL" /\ price > 0

\* addAdditionalPayment: payment status and amounts are read again under the lock, the price is not
CommitAdd(r) ==
  LET m    == req[r]
      owed == m.price - repair.deposit - Collected(repair)
      full == Collected(repair) + m.amount >= AtLeastZero(m.price - repair.deposit)
  IN
  /\ m.op = "add"
  /\ PaysDebt(m.price) => m.amount <= owed
  /\ TakeAmount(m, IF PaysDebt(m.price) /\ full THEN "PAID" ELSE repair.pay)
  /\ Finish(r)
  /\ UNCHANGED stock

\* Mutant: the balance is not read again under the lock
WithinDebtUnchecked(amount) == TRUE

\* What is owed is worked out from the row as it is under the lock
WithinDebt(amount) == amount <= Owed(repair)

\* Mutant: a debt that still has one unit open is closed
SettledEarly(amount) == Owed(repair) - amount <= 1

Settled(amount) == Owed(repair) - amount <= 0

\* DebtPaymentsService.create: everything but the job's status is read again under the lock
CommitDebt(r) ==
  LET m == req[r] IN
  /\ m.op = "debt"
  /\ repair.pay \in {"PENDING", "PARTIAL"}
  /\ WithinDebt(m.amount)
  /\ TakeAmount(m, IF Settled(m.amount) THEN "PAID" ELSE "PARTIAL")
  /\ Finish(r)
  /\ UNCHANGED stock

\* A check in the transaction fails or the server dies: nothing was written.  A quick job's
\* request that dies leaves what its earlier steps have committed.
Abort(r) ==
  /\ r \in Busy
  /\ req' = [req EXCEPT ![r] = Idle]
  /\ UNCHANGED <<repair, stock, drawer, overtaken>>

Next ==
  \/ Create \/ Edit \/ PartsDone
  \/ \E r \in Requests :
       \/ AskMove(r) \/ AskCancel(r) \/ AskQc(r) \/ AskAddPart(r) \/ AskRemovePart(r)
       \/ AskPay(r) \/ AskReverse(r) \/ AskRefund(r) \/ AskAdd(r) \/ AskDebt(r)
       \/ CommitMove(r) \/ CommitCancel(r) \/ CommitAddPart(r) \/ CommitRemovePart(r)
       \/ QuickCreate(r) \/ QuickFinish(r) \/ QuickAskPay(r) \/ QuickGiveUp(r)
       \/ CommitPay(r) \/ CommitReverse(r) \/ CommitRefund(r) \/ CommitAdd(r) \/ CommitDebt(r)
       \/ Abort(r)

Spec == Init /\ [][Next]_vars

-----------------------------------------------------------------------------
(* Properties                                                              *)

Statuses == DOMAIN Allowed \cup {"NONE", "DELIVERED", "CANCELLED"}
Sources == {"REPAIR_DEPOSIT", "REPAIR_FINAL_PAYMENT", "REPAIR_ADDITIONAL_PAYMENT", "REVERSAL",
            "REPAIR_DEPOSIT_REFUND", "REPAIR_FINAL_PAYMENT_REFUND",
            "REPAIR_ADDITIONAL_PAYMENT_REFUND"}
Parts == [n : Nat, product : Products]
Payments == [n : Nat, amount : Nat, kept : BOOLEAN]

Job ==
  [status : Statuses, pay : {"PENDING", "PARTIAL", "PAID"}, price : Nat, deposit : Nat,
   paid : Nat, cut : Nat, adds : SUBSET Payments, rounds : Nat,
   parts : SUBSET Parts, taken : Nat, pending : BOOLEAN]

Request ==
  {Idle} \cup [op : {"quick", "quickDone"}]
  \cup [op : {"move"}, from : DOMAIN Allowed, next : DOMAIN Allowed]
  \cup [op : {"qc"}, next : DOMAIN Allowed]
  \cup [op : {"cancel"}, parts : SUBSET Parts]
  \cup [op : {"addPart"}, product : Products]
  \cup [op : {"removePart"}, part : Parts]
  \cup [op : {"pay", "quickPay"}, total : Nat, cut : Nat, received : Nat, partial : BOOLEAN]
  \cup [op : {"reverse"}, paid : Nat, price : Nat, cut : Nat]
  \cup [op : {"refund"}, paid : Nat, adds : SUBSET Payments]
  \cup [op : {"add"}, amount : Nat, price : Nat]
  \cup [op : {"debt"}, amount : Nat]

\* The rows are well formed.
TypeOK ==
  /\ repair \in Job
  /\ stock \in [Products -> Nat]
  /\ drawer \subseteq [src : Sources, n : Nat, dir : {"IN", "OUT"}, amount : Nat]
  /\ req \in [Requests -> Request]
  /\ overtaken \in BOOLEAN

\* What the customer has paid and not been given back: the deposit until the job is cancelled, the
\* final payment until it is reversed, and the additional payments no refund has listed
Held ==
  (IF repair.status = "CANCELLED" THEN 0 ELSE repair.deposit)
    + repair.paid + Total({a \in repair.adds : a.kept})

\* The drawer ledger holds what the customer has paid and not been given back, through deposits,
\* partial payments, payments in rounds, reversals, debts and refunds: no entry is lost under a key
\* already taken and no money is given back twice.
DrawerMatchesJob == ~overtaken => Net(drawer) = Held

\* A device is handed over exactly when a payment stands, in full or in part.
HandedOverWhenPaid ==
  ~overtaken => (repair.status = "DELIVERED" <=> repair.pay # "PENDING")

\* Every unit taken for the job is on the job or back on the shelf, and a cancelled job keeps none.
PartsConserved ==
  ~overtaken =>
    /\ \A p \in Products : stock[p] + Back(p, repair.parts) = InitialStock[p]
    /\ repair.status = "CANCELLED" => repair.parts = {}

\* However two cashiers and a debt clerk race, a debt payment never takes more than is owed at the
\* moment it is stored ("Lock the repair so two concurrent payments cannot both pass the balance
\* check").
DebtNeverOverpaid ==
  [][(\E r \in Requests : req[r].op = "debt" /\ CommitDebt(r)) => Owed(repair') >= 0]_vars

\* A job counts as paid only from a moment when deposit and payments covered its price.
PaidWhenCovered ==
  [][~overtaken' /\ repair'.pay = "PAID" /\ repair.pay # "PAID" => Owed(repair') <= 0]_vars

\* A cancelled job stays cancelled ("CANCELLED repairs cannot be re-opened").
CancelledStaysCancelled ==
  [][~overtaken' /\ repair.status = "CANCELLED" => repair'.status = "CANCELLED"]_vars
=============================================================================
