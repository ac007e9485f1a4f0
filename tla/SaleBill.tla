------------------------------ MODULE SaleBill ------------------------------
(***************************************************************************)
(* The life of a bill at one till of one branch: SalesService.create,      *)
(* refundSaleItems, exchangeSaleItems, changePaymentMethod and voidSale    *)
(* (src/backend/src/sales/sales.service.ts), with the serial numbers of    *)
(* stock/serial-stock.ts, the branch's stock and the drawer ledger of      *)
(* accounting/accounting.service.ts.                                       *)
(*                                                                         *)
(* Every handler reads and checks BEFORE its database transaction and      *)
(* writes INSIDE it.  A handler is therefore two actions: Ask... takes the *)
(* snapshot and makes the early checks, Commit... is the transaction, with *)
(* the checks that the transaction makes again.  Other requests, and the   *)
(* shift opening and closing, come in between.  One transaction is one     *)
(* step: its first write locks the bill's row (SELECT ... FOR UPDATE, the  *)
(* UPDATE of the sale, or the conditional UPDATE of the stock row and then *)
(* of the product row for a new bill), and the next transaction on the     *)
(* same row waits for it.  The change of a payment method is two steps,    *)
(* ClaimMethod and CommitMethod: its first statement looks at the shift,   *)
(* whose row it does not lock, so the shift may be closed before it ends.  *)
(***************************************************************************)
EXTENDS Integers, FiniteSets, Functions

CONSTANTS
  Requests,      \* HTTP requests that can be under way
  Sales,         \* bill ids
  Products,      \* products; a bill has at most one line of each
  Serials,       \* IMEIs
  SerialsOf,     \* the IMEIs of each product; {} when it is not sold by IMEI
  UnitPrice,     \* what the customer pays per unit of each product
  InitialStock,  \* units of each product at the start
  LineMax,       \* bound: units on a line of a bill
  Baskets,       \* the line quantities a customer may buy
  Discounts,     \* bill discounts
  Tenders,       \* how customers pay: amount handed over by method
  Money,         \* amounts of bills and refunds
  Ops,           \* the operations the till offers
  Exclusive,     \* operations assumed to run with no other request under way
  InFlight,      \* bound: requests under way at a time
  MaxShift,      \* bound: shifts opened
  MaxRefunds,    \* bound: refunds of a bill
  MaxLegs        \* bound: payment legs a bill has ever had

Methods == {"CASH", "TRANSFER"}

ASSUME ConstantsAssumption ==
  /\ SerialsOf \in [Products -> SUBSET Serials]
  /\ UnitPrice \in [Products -> Nat]
  /\ InitialStock \in [Products -> Nat]
  /\ LineMax \in Nat
  /\ Baskets \subseteq [Products -> 0..LineMax]
  /\ \A q \in Baskets : \E p \in Products : q[p] > 0
  /\ Discounts \subseteq Nat
  /\ \A t \in Tenders : DOMAIN t \subseteq {"CASH", "TRANSFER"} /\ t \in [DOMAIN t -> Nat]
  /\ Money \subseteq Nat
  /\ InFlight \in Nat
  /\ MaxShift \in Nat
  /\ MaxRefunds \in Nat
  /\ MaxLegs \in Nat \ {0, 1}

VARIABLES
  sale,    \* the bills: Sale, SaleItem, SalePayment and the SaleRefund totals
  stock,   \* BranchStock.quantity
  holder,  \* SerialNumber: the bill it is sold on, or Shop when IN_STOCK
  drawer,  \* CashDrawerTransaction: the ledger entries of the till
  shift,   \* the till's latest shift and whether it is open
  req      \* what each request under way has read

vars == <<sale, stock, holder, drawer, shift, req>>

Shop == "IN_STOCK"

\* Bills and serials are rows of tables; a serial is of one product, and in stock or on a bill
ASSUME RowsAssumption ==
  /\ IsFiniteSet(Sales) /\ IsFiniteSet(Serials)
  /\ \A p, q \in Products : p # q => SerialsOf[p] \cap SerialsOf[q] = {}
  /\ Shop \notin Sales

Idle == [op |-> "none"]
None == [p \in Products |-> 0]

Plus(f, g)  == [p \in Products |-> f[p] + g[p]]
Minus(f, g) == [p \in Products |-> f[p] - g[p]]

\* What the lines of q come to
Value(q) == SumFunction([p \in Products |-> UnitPrice[p] * q[p]])

NoBill == [status |-> "NONE", qty |-> None, back |-> None, total |-> 0, legs |-> {},
           refunds |-> 0, paidBack |-> [m \in Methods |-> 0], shift |-> 0,
           cashCounted |-> FALSE, lacking |-> None]

Amount(t, m) == IF m \in DOMAIN t THEN t[m] ELSE 0
Paid(t) == Amount(t, "CASH") + Amount(t, "TRANSFER")

\* Mutant: all the change comes off the cash leg, however small that leg is
AppliedLegsOverdrawn(t, total) ==
  {[n |-> IF m = "CASH" THEN 1 ELSE 2, method |-> m,
    amount |-> IF m = "CASH" THEN t[m] - (Paid(t) - total) ELSE t[m]] : m \in DOMAIN t}

\* The money the shop keeps of tender t: change comes off the cash first
AppliedLegs(t, total) ==
  LET change == Paid(t) - total
      off    == IF change < Amount(t, "CASH") THEN change ELSE Amount(t, "CASH")
      kept   == [m \in DOMAIN t |-> IF m = "CASH" THEN t[m] - off ELSE t[m] - (change - off)]
  IN  {[n |-> IF m = "CASH" THEN 1 ELSE 2, method |-> m, amount |-> kept[m]] :
         m \in {x \in DOMAIN t : change = 0 \/ kept[x] > 0}}

\* AccountingService.record: an entry whose key (type, source, direction) exists is not repeated
Key(e) == [src |-> e.src, s |-> e.s, n |-> e.n, dir |-> e.dir]
Record(ledger, entries) ==
  ledger \cup {e \in entries : \A x \in ledger : Key(x) # Key(e)}

Entry(src, s, n, dir, method, amount) ==
  [src |-> src, s |-> s, n |-> n, dir |-> dir, method |-> method, amount |-> amount]

LegEntries(src, dir, s, legs) ==
  {Entry(src, s, l.n, dir, l.method, l.amount) : l \in legs}

Linked(s, p) == {x \in SerialsOf[p] : holder[x] = s}
ShiftOpen(n) == shift.open /\ shift.no = n

Init ==
  /\ sale = [s \in Sales |-> NoBill]
  /\ stock = InitialStock
  /\ holder = [x \in Serials |-> Shop]
  /\ drawer = {}
  /\ shift = [no |-> 1, open |-> TRUE]
  /\ req = [r \in Requests |-> Idle]

-----------------------------------------------------------------------------
(* Requests: the checks and reads before the transaction                   *)

Busy == {r \in Requests : req[r] # Idle}

\* Request r may come in now
Ready(r, op) ==
  /\ req[r] = Idle
  /\ op \in Ops
  /\ Cardinality(Busy) < InFlight
  /\ Busy # {} => op \notin Exclusive /\ \A x \in Busy : req[x].op \notin Exclusive

\* It has passed its early checks and remembers what it read
Ask(r, message) ==
  /\ req' = [req EXCEPT ![r] = message]
  /\ UNCHANGED <<sale, stock, holder, drawer, shift>>

\* The serials of product p among those named in a request
Of(picks, p) == picks \cap SerialsOf[p]

\* Units of the products sold by IMEI that are sold without a serial of their own (history)
Lacking(qty, picks) == [p \in Products |-> qty[p] - Cardinality(Of(picks, p))]

\* create asks for as many serial ids as units but not that they differ, nor that each exists: of
\* repeated and unknown ids fewer serials are left
SerialsNamed(qty, picks) ==
  \A p \in Products : SerialsOf[p] # {} => Cardinality(Of(picks, p)) <= qty[p]

\* create: now, into the open shift, or a late entry into any shift there was
AskCreate(r) ==
  /\ Ready(r, "create")
  /\ \E q \in Baskets, picks \in SUBSET Serials :
       /\ \A p \in Products : q[p] <= stock[p]
       /\ SerialsNamed(q, picks)
       /\ \E d \in Discounts, t \in Tenders, total \in Money :
            /\ d + total = Value(q)
            /\ total <= Paid(t)
            /\ \E late \in BOOLEAN, n \in 1..shift.no :
                 /\ IF late THEN "late" \in Ops /\ total > 0 ELSE ShiftOpen(n)
                 /\ Ask(r, [op |-> "create", qty |-> q, total |-> total,
                            legs |-> AppliedLegs(t, total), picks |-> picks, shift |-> n,
                            cashCounted |-> late /\ ~ShiftOpen(n)])

\* Units of bill s the customer still has
Out(s) == Minus(sale[s].qty, sale[s].back)

\* A customer brings units of bill s back, to be refunded or exchanged.  A price above what was
\* paid per unit is refused in the transaction, on figures that never change.
AskReturn(r, op, s, take, total) ==
  /\ sale[s].status \in {"COMPLETED", "PARTIAL_REFUND"}
  /\ sale[s].refunds < MaxRefunds
  /\ \E give \in [Products -> 0..LineMax], method \in Methods :
       /\ \A p \in Products : give[p] <= Out(s)[p]
       /\ op = "exchange" => give # None
       /\ op = "exchange" \/ method = "CASH" => shift.open
       /\ \E amount \in {a \in Money : a <= Value(give)},
             picks \in SUBSET {x \in Serials : holder[x] = s} :
            Ask(r, [op |-> op, sale |-> s, give |-> give, amount |-> amount, picks |-> picks,
                    method |-> method, take |-> take, total |-> total,
                    shift |-> shift.no, cashCounted |-> FALSE])

\* refundSaleItems: cash goes out of an open shift only
AskRefund(r) ==
  /\ Ready(r, "refund")
  /\ \E s \in Sales : AskReturn(r, "refund", s, None, 0)

\* exchangeSaleItems: something comes back, something in stock goes out, in an open shift
AskExchange(r) ==
  /\ Ready(r, "exchange")
  /\ \E s \in Sales, take \in Baskets, total \in Money :
       /\ total = Value(take)
       /\ \A p \in Products : take[p] <= stock[p]
       /\ AskReturn(r, "exchange", s, take, total)

\* changePaymentMethod: of a bill paid one way, while its shift is open
AskMethod(r) ==
  /\ Ready(r, "method")
  /\ \E s \in Sales : \E leg \in sale[s].legs, method \in Methods :
       /\ sale[s].status = "COMPLETED"
       /\ ShiftOpen(sale[s].shift)
       /\ sale[s].legs = {leg}
       /\ leg.method # method
       /\ leg.n < MaxLegs
       /\ Ask(r, [op |-> "method", sale |-> s, leg |-> leg, method |-> method, claimed |-> FALSE])

\* voidSale: what is read here - units already back, payment legs - is all the transaction uses
AskVoid(r) ==
  /\ Ready(r, "void")
  /\ \E s \in Sales :
       /\ sale[s].status \notin {"NONE", "VOIDED"}
       /\ ShiftOpen(sale[s].shift)
       /\ Ask(r, [op |-> "void", sale |-> s, back |-> sale[s].back, legs |-> sale[s].legs])

-----------------------------------------------------------------------------
(* Transactions                                                            *)

\* The request ends, its transaction committed or rolled back
Done(r) == req' = [req EXCEPT ![r] = Idle]

\* No change of its payment method holds the row of bill s
Unlocked(s) == \A r \in Busy : req[r].op = "method" /\ req[r].sale = s => ~req[r].claimed

NewBill(m, qty, legs, lacking) ==
  [status |-> "COMPLETED", qty |-> qty, back |-> None, total |-> m.total, legs |-> legs,
   refunds |-> 0, paidBack |-> [x \in Methods |-> 0], shift |-> m.shift,
   cashCounted |-> m.cashCounted, lacking |-> lacking]

\* Mutant: the cash of a late entry goes into the drawer a second time
CountedLegsAll(b) == b.legs

\* Cash of a late entry into a closed shift was in the drawer when that shift was counted
CountedLegs(b) == {l \in b.legs : ~(b.cashCounted /\ l.method = "CASH")}

\* Mutant: the serials' status is not looked at
SerialsFreeUnchecked(picks) == TRUE

\* The serials that were found of those named in the request are still in stock
SerialsFree(picks) == \A x \in picks : holder[x] = Shop

CommitCreate(r) ==
  LET m == req[r] IN
  /\ m.op = "create"
  /\ \A p \in Products : m.qty[p] <= stock[p]
  /\ SerialsFree(m.picks)
  /\ \E s \in Sales :
       LET bill == NewBill(m, m.qty, m.legs, Lacking(m.qty, m.picks)) IN
       /\ sale[s] = NoBill
       /\ sale' = [sale EXCEPT ![s] = bill]
       /\ stock' = Minus(stock, m.qty)
       /\ holder' = [x \in Serials |-> IF x \in m.picks THEN s ELSE holder[x]]
       /\ drawer' = Record(drawer, LegEntries("SALE_PAYMENT", "IN", s, CountedLegs(bill)))
  /\ Done(r)
  /\ UNCHANGED shift

RefundTotal(b) == b.paidBack["CASH"] + b.paidBack["TRANSFER"]

\* Mutant: the units are not compared again with what the bill holds now
ValidRefundStale(b, m) ==
  /\ b.status \notin {"VOIDED", "REFUNDED"}
  /\ RefundTotal(b) + m.amount <= b.total

\* Mutant: a void that committed in the meantime is not noticed
ValidRefundVoided(b, m) ==
  /\ b.status # "REFUNDED"
  /\ \A p \in Products : m.give[p] <= b.qty[p] - b.back[p]
  /\ RefundTotal(b) + m.amount <= b.total

\* Mutant: the refunds already paid out are left out of the sum
ValidRefundThisOne(b, m) ==
  /\ b.status \notin {"VOIDED", "REFUNDED"}
  /\ \A p \in Products : m.give[p] <= b.qty[p] - b.back[p]
  /\ m.amount <= b.total

\* lockAndValidateRefund: the bill's row is locked and the checks are made on what it holds now
ValidRefund(b, m) ==
  /\ b.status \notin {"VOIDED", "REFUNDED"}
  /\ \A p \in Products : m.give[p] <= b.qty[p] - b.back[p]
  /\ RefundTotal(b) + m.amount <= b.total

\* Mutant: the bill counts as refunded when this refund alone brings every unit back
RefundedAlone(b, m) ==
  [b EXCEPT !.back = Plus(b.back, m.give), !.refunds = b.refunds + 1,
            !.paidBack = [b.paidBack EXCEPT ![m.method] = @ + m.amount],
            !.status = IF \A p \in Products : m.give[p] >= b.qty[p] THEN "REFUNDED"
                       ELSE "PARTIAL_REFUND"]

\* The bill after the units and the money of m have gone back
Refunded(b, m) ==
  LET back == Plus(b.back, m.give) IN
  [b EXCEPT !.back = back, !.refunds = b.refunds + 1,
            !.paidBack = [b.paidBack EXCEPT ![m.method] = @ + m.amount],
            !.status = IF \A p \in Products : back[p] >= b.qty[p] THEN "REFUNDED"
                       ELSE "PARTIAL_REFUND"]

\* returnSerialsOfLine: the picked serials come back, or else all the line still has
SerialsBack(m, p) ==
  IF m.give[p] = 0 THEN {}
  ELSE IF Of(m.picks, p) # {} THEN Of(m.picks, p) ELSE Linked(m.sale, p)

\* Mutant: part of a line may come back without saying which serials
SerialsKnownAlways(m, p) == TRUE

\* A part of a line needs its serials picked, unless exactly that many are still out
SerialsKnown(m, p) ==
  m.give[p] > 0 /\ SerialsOf[p] # {} =>
    IF Of(m.picks, p) # {}
    THEN /\ Cardinality(Of(m.picks, p)) = m.give[p]
         /\ Of(m.picks, p) \subseteq Linked(m.sale, p)
    ELSE \/ sale[m.sale].back[p] + m.give[p] = sale[m.sale].qty[p]
         \/ Cardinality(Linked(m.sale, p)) = m.give[p]

RefundEntry(m) ==
  Entry("REFUND", m.sale, sale[m.sale].refunds + 1, "OUT", m.method, m.amount)

\* Mutant: the units go back in stock, their serials stay on the bill
FreeSerialsForgotten(xs) == holder

FreeSerials(xs) == [x \in Serials |-> IF x \in xs THEN Shop ELSE holder[x]]

CommitRefund(r) ==
  LET m == req[r] IN
  /\ m.op = "refund"
  /\ Unlocked(m.sale)
  /\ ValidRefund(sale[m.sale], m)
  /\ sale[m.sale].refunds < MaxRefunds
  /\ \A p \in Products : SerialsKnown(m, p)
  /\ sale' = [sale EXCEPT ![m.sale] = Refunded(@, m)]
  /\ stock' = Plus(stock, m.give)
  /\ holder' = FreeSerials(UNION {SerialsBack(m, p) : p \in Products})
  /\ drawer' = Record(drawer, {RefundEntry(m)})
  /\ Done(r)
  /\ UNCHANGED shift

\* The return is a refund of the old bill; the new goods are a bill of their own, paid one way,
\* and no serial moves to it
CommitExchange(r) ==
  LET m == req[r] IN
  /\ m.op = "exchange"
  /\ Unlocked(m.sale)
  /\ ValidRefund(sale[m.sale], m)
  /\ sale[m.sale].refunds < MaxRefunds
  /\ \A p \in Products : SerialsKnown(m, p) /\ m.take[p] <= stock[p] + m.give[p]
  /\ \E s \in Sales :
       LET leg  == [n |-> 1, method |-> m.method, amount |-> m.total]
           bill == NewBill(m, m.take, {leg}, m.take)
       IN
       /\ sale[s] = NoBill
       /\ sale' = [sale EXCEPT ![m.sale] = Refunded(@, m), ![s] = bill]
       /\ drawer' = Record(drawer,
            {RefundEntry(m)} \cup LegEntries("SALE_PAYMENT", "IN", s, bill.legs))
  /\ stock' = Minus(Plus(stock, m.give), m.take)
  /\ holder' = FreeSerials(UNION {SerialsBack(m, p) : p \in Products})
  /\ Done(r)
  /\ UNCHANGED shift

\* The conditional UPDATE that opens the change looks again at the bill and its shift
StillChangeable(b) == b.status = "COMPLETED" /\ ShiftOpen(b.shift)

\* Its row is then locked until the change is committed or rolled back; that of the shift is not
ClaimMethod(r) ==
  LET m == req[r] IN
  /\ m.op = "method" /\ ~m.claimed
  /\ Unlocked(m.sale)
  /\ StillChangeable(sale[m.sale])
  /\ req' = [req EXCEPT ![r].claimed = TRUE]
  /\ UNCHANGED <<sale, stock, holder, drawer, shift>>

\* Deleting the old leg fails, and rolls all of it back, when another change has replaced that leg
CommitMethod(r) ==
  LET m == req[r] IN
  /\ m.op = "method" /\ m.claimed
  /\ m.leg \in sale[m.sale].legs
  /\ LET leg  == [n |-> m.leg.n + 1, method |-> m.method, amount |-> sale[m.sale].total]
         legs == (sale[m.sale].legs \ {m.leg}) \cup {leg}
     IN
     /\ sale' = [sale EXCEPT ![m.sale] = [@ EXCEPT !.legs = legs]]
     /\ drawer' = Record(drawer, LegEntries("REVERSAL", "OUT", m.sale, {m.leg})
                                 \cup LegEntries("SALE_PAYMENT", "IN", m.sale, {leg}))
  /\ Done(r)
  /\ UNCHANGED <<stock, holder, shift>>

\* Mutant: all units of the bill go back in stock, those already returned too
RestoredAll(m) == sale[m.sale].qty

\* Units a void puts back: sold, less what was back when the bill was read
Restored(m) == Minus(sale[m.sale].qty, m.back)

\* Mutant: only cash payments are reversed, as for bills older than payment legs
VoidEntriesCash(m) ==
  LegEntries("SALE_REFUND", "OUT", m.sale, {l \in m.legs : l.method = "CASH"})

\* One reversal per payment leg that was read
VoidEntries(m) == LegEntries("SALE_REFUND", "OUT", m.sale, m.legs)

\* The UPDATE of the bill has no condition, and nothing is read again except the serials
CommitVoid(r) ==
  LET m == req[r] IN
  /\ m.op = "void"
  /\ Unlocked(m.sale)
  /\ sale' = [sale EXCEPT ![m.sale] = [@ EXCEPT !.status = "VOIDED"]]
  /\ stock' = Plus(stock, Restored(m))
  /\ holder' = FreeSerials({x \in Serials : holder[x] = m.sale})
  /\ drawer' = Record(drawer, VoidEntries(m))
  /\ Done(r)
  /\ UNCHANGED shift

\* A check inside the transaction fails, or the server or the connection dies: all rolls back
Abort(r) ==
  /\ req[r] # Idle
  /\ Done(r)
  /\ UNCHANGED <<sale, stock, holder, drawer, shift>>

-----------------------------------------------------------------------------
(* The shift, as far as the bills read it                                  *)

OpenShift ==
  /\ ~shift.open
  /\ shift.no < MaxShift
  /\ shift' = [no |-> shift.no + 1, open |-> TRUE]
  /\ UNCHANGED <<sale, stock, holder, drawer, req>>

CloseShift ==
  /\ shift.open
  /\ shift' = [shift EXCEPT !.open = FALSE]
  /\ UNCHANGED <<sale, stock, holder, drawer, req>>

Next ==
  \/ \E r \in Requests :
       \/ AskCreate(r) \/ AskRefund(r) \/ AskExchange(r) \/ AskMethod(r) \/ AskVoid(r)
       \/ CommitCreate(r) \/ CommitRefund(r) \/ CommitExchange(r) \/ ClaimMethod(r)
       \/ CommitMethod(r) \/ CommitVoid(r) \/ Abort(r)
  \/ OpenShift
  \/ CloseShift

Spec == Init /\ [][Next]_vars
-----------------------------------------------------------------------------
(* Properties                                                              *)

Statuses == {"NONE", "COMPLETED", "PARTIAL_REFUND", "REFUNDED", "VOIDED"}
Quantities == [Products -> Nat]
Leg == [n : 1..MaxLegs, method : Methods, amount : Nat]
Bill == [status : Statuses, qty : Quantities, back : Quantities, total : Nat,
         legs : SUBSET Leg, refunds : Nat, paidBack : [Methods -> Nat], shift : Nat,
         cashCounted : BOOLEAN, lacking : Quantities]
LedgerEntry == [src : {"SALE_PAYMENT", "SALE_REFUND", "REVERSAL", "REFUND"}, s : Sales, n : Nat,
                dir : {"IN", "OUT"}, method : Methods, amount : Nat]

\* What a request has read, by operation
CreateRequest == [op : {"create"}, qty : Quantities, total : Nat, legs : SUBSET Leg,
                  picks : SUBSET Serials, shift : Nat, cashCounted : BOOLEAN]
ReturnRequest == [op : {"refund", "exchange"}, sale : Sales, give : Quantities, amount : Nat,
                  picks : SUBSET Serials, method : Methods, take : Quantities, total : Nat,
                  shift : Nat, cashCounted : BOOLEAN]
MethodRequest == [op : {"method"}, sale : Sales, leg : {l \in Leg : l.n < MaxLegs},
                  method : Methods, claimed : BOOLEAN]
VoidRequest == [op : {"void"}, sale : Sales, back : Quantities, legs : SUBSET Leg]
Request == {Idle} \cup CreateRequest \cup ReturnRequest \cup MethodRequest \cup VoidRequest

\* The stored bills, stock, serials and ledger are well formed.  Stock is a natural number: the
\* conditional decrement inside the transaction never lets it below zero (no oversell).
TypeOK ==
  /\ sale \in [Sales -> Bill]
  /\ stock \in [Products -> Nat]
  /\ holder \in [Serials -> Sales \cup {Shop}]
  /\ drawer \subseteq LedgerEntry
  /\ shift \in [no : Nat, open : BOOLEAN]
  /\ req \in [Requests -> Request]

\* However many refunds and exchanges race, a bill never gives back more units of a line than it
\* sold, nor more money than its total (lockAndValidateRefund).
RefundWithinBill ==
  \A s \in Sales :
    /\ \A p \in Products : sale[s].back[p] <= sale[s].qty[p]
    /\ RefundTotal(sale[s]) <= sale[s].total

Live(s) == sale[s].status \notin {"NONE", "VOIDED"}

\* The status of a bill that is not voided tells what is back: REFUNDED exactly when every line is
\* back in full, COMPLETED only when nothing is and nothing was paid back.
StatusMatchesUnits ==
  \A s \in Sales : Live(s) =>
    /\ sale[s].status = "REFUNDED" <=> \A p \in Products : sale[s].back[p] = sale[s].qty[p]
    /\ sale[s].status = "COMPLETED" => sale[s].back = None /\ RefundTotal(sale[s]) = 0

Total(es) == SumFunction([e \in es |-> e.amount])
Booked(s, m, dir) == Total({e \in drawer : e.s = s /\ e.method = m /\ e.dir = dir})
Owed(s, m) ==
  IF sale[s].cashCounted /\ m = "CASH" THEN 0 ELSE Total({l \in sale[s].legs : l.method = m})

\* For every bill that is not voided the ledger shows, by payment method, exactly the payments the
\* bill has less what was paid back (the cash of a late entry into a closed shift apart), and the
\* payments come to the bill's total - also when a method change races a refund or another change.
LedgerMatchesBill ==
  \A s \in Sales : Live(s) =>
    /\ Total(sale[s].legs) = sale[s].total
    /\ \A m \in Methods :
         Booked(s, m, "IN") - Booked(s, m, "OUT") = Owed(s, m) - sale[s].paidBack[m]

\* A line sold by IMEI has exactly the serials of the units still out, less the units that were sold
\* without a serial of their own, whichever refunds and exchanges raced on it: a return of all the
\* line, or of as many units as it has serials, takes them all along.  A voided bill has none.
SerialsFollowUnits ==
  \A s \in Sales, p \in Products : SerialsOf[p] # {} =>
    Cardinality(Linked(s, p)) =
      IF Live(s) /\ Out(s)[p] > sale[s].lacking[p] THEN Out(s)[p] - sale[s].lacking[p] ELSE 0

\* A voided bill stays as it is: no refund, exchange or method change that was under way when the
\* void committed may touch it, and no serial is sold on it.
VoidedIsFinal ==
  [][\A s \in Sales : sale[s].status = "VOIDED" =>
       sale'[s] = sale[s] /\ \A x \in Serials : holder'[x] = s => holder[x] = s]_vars

\* A phone with one customer is never sold to another without having come back, even when two
\* tills ring up the same IMEI at once.
SerialSoldFromStock ==
  [][\A x \in Serials : holder[x] # Shop => holder'[x] \in {holder[x], Shop}]_vars

\* With voids run alone, no unit is lost or made up: what is in stock and what customers hold is
\* what there was.
StockConserved ==
  \A p \in Products :
    stock[p] + SumFunction([s \in Sales |-> IF Live(s) THEN Out(s)[p] ELSE 0]) = InitialStock[p]

\* With voids run alone, every unit counted in stock of a product sold by IMEI has a serial to
\* sell it by: refunds, exchanges and voids bring serials back with the units.
SerialsCoverStock ==
  \A p \in Products : SerialsOf[p] # {} =>
    stock[p] <= Cardinality({x \in SerialsOf[p] : holder[x] = Shop})

\* With voids run alone, a void reverses the payments of the bill in full, and what its refunds had
\* paid back before is not taken off: that money leaves the drawer a second time, and the ledger of
\* a voided bill ends below nothing by exactly as much.
VoidReversesInFull ==
  \A s \in Sales, m \in Methods : sale[s].status = "VOIDED" =>
    Booked(s, m, "OUT") - Booked(s, m, "IN") = sale[s].paidBack[m]

\* The bills keep the promise of BillLifecycle under every interleaving of requests.
Bills == INSTANCE BillLifecycle WITH
  status <- [s \in Sales |-> sale[s].status],
  out    <- [s \in Sales |-> Out(s)],
  left   <- [s \in Sales |-> sale[s].total - RefundTotal(sale[s])]

KeepsPromise == Bills!Spec

\* What the comment in voidSale says ("Only restore stock that wasn't already returned via partial
\* refund"): a void puts back the units that are out, and a bill already voided none.
VoidRestoresWhatIsOut ==
  [][\A r \in Requests, p \in Products : CommitVoid(r) =>
       stock'[p] - stock[p] = IF Live(req[r].sale) THEN Out(req[r].sale)[p] ELSE 0]_vars

\* What the comment in changePaymentMethod says ("a refund, a void or the shift being closed between
\* the checks above and here must stop it (the bill would move money in a counted shift)"): the
\* payment of a bill changes only while its shift is open.
PaymentsKeptAfterClose ==
  [][\A s \in Sales : sale[s].legs # {} /\ sale'[s].legs # sale[s].legs => ShiftOpen(sale[s].shift)]_vars
=============================================================================
