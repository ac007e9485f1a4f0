--------------------------- MODULE SaleBillProofs ---------------------------
(***************************************************************************)
(* Proofs about SaleBill, for any number of bills, products, serials and   *)
(* requests.  The inductive invariant adds to the three invariants what a  *)
(* request under way may rely on although it was read earlier: the bill it *)
(* names exists, a void's snapshot counts no more units back than the bill *)
(* sold, and the bill a change of payment method has claimed is COMPLETED. *)
(***************************************************************************)
EXTENDS SaleBill, FiniteSetTheorems, TLAPS

\* A bill on its own: RefundWithinBill and StatusMatchesUnits
BillOK(b) ==
  /\ \A p \in Products : b.back[p] <= b.qty[p]
  /\ RefundTotal(b) <= b.total
  /\ b.status \notin {"NONE", "VOIDED"} =>
       /\ b.status = "REFUNDED" <=> \A p \in Products : b.back[p] = b.qty[p]
       /\ b.status = "COMPLETED" => b.back = None /\ RefundTotal(b) = 0

OnBill == {"refund", "exchange", "method", "void"}

Asked(m) ==
  /\ m.op \in OnBill => sale[m.sale].status # "NONE"
  /\ m.op = "void" => \A p \in Products : m.back[p] <= sale[m.sale].qty[p]
  /\ m.op = "method" => (m.claimed => sale[m.sale].status = "COMPLETED")
  /\ m.op = "create" => (\E p \in Products : m.qty[p] # 0) /\ SerialsNamed(m.qty, m.picks)
  /\ m.op = "exchange" => \E p \in Products : m.take[p] # 0

IInv ==
  /\ TypeOK
  /\ \A s \in Sales : BillOK(sale[s])
  /\ \A r \in Requests : Asked(req[r])

\* Bills are never unmade, what they sold never changes, and a claimed one keeps its status
BillsStay ==
  \A s \in Sales : sale[s].status # "NONE" =>
    /\ sale'[s].status # "NONE" /\ sale'[s].qty = sale[s].qty
    /\ Unlocked(s) \/ sale'[s].status = sale[s].status

-----------------------------------------------------------------------------

\* The legs kept of a tender are well formed: no leg is negative once the change is off.
LEMMA AppliedLegsType ==
  ASSUME NEW t \in Tenders, NEW total \in Nat, total <= Paid(t)
  PROVE  AppliedLegs(t, total) \subseteq Leg
<1>1. DOMAIN t \subseteq {"CASH", "TRANSFER"} /\ t \in [DOMAIN t -> Nat]
  BY ConstantsAssumption
<1> DEFINE cash == Amount(t, "CASH")
           transfer == Amount(t, "TRANSFER")
           change == Paid(t) - total
           off == IF change < cash THEN change ELSE cash
           kept == [m \in DOMAIN t |-> IF m = "CASH" THEN t[m] - off ELSE t[m] - (change - off)]
<1>2. cash \in Nat /\ transfer \in Nat
  BY <1>1 DEF Amount
<1>3. change \in Nat /\ off \in Nat /\ off <= cash /\ change - off <= transfer
  BY <1>2 DEF Paid
<1>4. ASSUME NEW m \in DOMAIN t
      PROVE  kept[m] \in Nat
  <2>1. CASE m = "CASH"
    <3>1. t[m] = cash
      BY <2>1 DEF Amount
    <3>2. kept[m] = t[m] - off
      BY <2>1
    <3> QED BY <3>1, <3>2, <1>2, <1>3
  <2>2. CASE m = "TRANSFER"
    <3>1. t[m] = transfer
      BY <2>2 DEF Amount
    <3>2. kept[m] = t[m] - (change - off)
      BY <2>2
    <3> QED BY <3>1, <3>2, <1>2, <1>3
  <2> QED BY <2>1, <2>2, <1>1
<1>5. AppliedLegs(t, total) =
        {[n |-> IF m = "CASH" THEN 1 ELSE 2, method |-> m, amount |-> kept[m]] :
           m \in {x \in DOMAIN t : change = 0 \/ kept[x] > 0}}
  BY DEF AppliedLegs
<1>6. ASSUME NEW m \in DOMAIN t
      PROVE  [n |-> IF m = "CASH" THEN 1 ELSE 2, method |-> m, amount |-> kept[m]] \in Leg
  <2>1. kept[m] \in Nat
    BY <1>4
  <2>2. (IF m = "CASH" THEN 1 ELSE 2) \in 1..MaxLegs
    BY ConstantsAssumption
  <2> HIDE DEF kept
  <2> QED BY <2>1, <2>2, <1>1 DEF Leg, Methods
<1> HIDE DEF kept, change
<1> QED BY <1>5, <1>6

\* A bill of which nothing has come back is a bill in good order.
LEMMA NewBillOK ==
  ASSUME NEW b \in Bill, b.status = "COMPLETED", b.back = None,
         \E p \in Products : b.qty[p] # 0, b.paidBack = [y \in Methods |-> 0]
  PROVE  BillOK(b) /\ RefundTotal(b) = 0
<1>1. RefundTotal(b) = 0
  BY DEF RefundTotal, Methods
<1>2. \A p \in Products : b.back[p] = 0 /\ b.qty[p] \in Nat
  BY DEF None, Bill, Quantities
<1>3. b.total \in Nat
  BY DEF Bill
<1> QED BY <1>1, <1>2, <1>3 DEF BillOK

\* A new bill is well formed.
LEMMA NewBillType ==
  ASSUME NEW qty \in Quantities, NEW total \in Nat, NEW legs \in SUBSET Leg, NEW n \in Nat,
         NEW counted \in BOOLEAN, NEW lacking \in Quantities
  PROVE  [status |-> "COMPLETED", qty |-> qty, back |-> None, total |-> total, legs |-> legs,
          refunds |-> 0, paidBack |-> [x \in Methods |-> 0], shift |-> n,
          cashCounted |-> counted, lacking |-> lacking] \in Bill
<1>1. None \in Quantities /\ [x \in Methods |-> 0] \in [Methods -> Nat]
  BY DEF None, Quantities
<1> QED BY <1>1 DEF Bill, Statuses

\* Of the units of a request some have serials named for them; the number of the others is natural.
LEMMA LackingType ==
  ASSUME NEW qty \in Quantities, NEW picks \in SUBSET Serials, SerialsNamed(qty, picks)
  PROVE  Lacking(qty, picks) \in Quantities
<1> SUFFICES ASSUME NEW p \in Products
             PROVE  qty[p] - Cardinality(Of(picks, p)) \in Nat
  BY DEF Lacking, Quantities
<1>1. IsFiniteSet(Of(picks, p))
  BY RowsAssumption, FS_Subset DEF Of
<1>2. Cardinality(Of(picks, p)) \in Nat
  BY <1>1, FS_CardinalityType
<1>3. Cardinality(Of(picks, p)) <= qty[p]
  <2>1. CASE SerialsOf[p] # {}
    BY <2>1 DEF SerialsNamed
  <2>2. CASE SerialsOf[p] = {}
    <3>1. Of(picks, p) = {}
      BY <2>2 DEF Of
    <3>2. qty[p] \in Nat
      BY DEF Quantities
    <3> QED BY <3>1, <3>2, FS_EmptySet
  <2> QED BY <2>1, <2>2
<1> QED BY <1>2, <1>3 DEF Quantities

\* A refund that passes lockAndValidateRefund leaves a bill in good order.
LEMMA RefundedOK ==
  ASSUME NEW b \in Bill, BillOK(b), b.status # "NONE",
         NEW m \in ReturnRequest, ValidRefund(b, m)
  PROVE  LET c == Refunded(b, m) IN
         /\ c \in Bill /\ BillOK(c)
         /\ c.status = IF c.back = c.qty THEN "REFUNDED" ELSE "PARTIAL_REFUND"
         /\ c.qty = b.qty /\ c.total = b.total /\ c.legs = b.legs
         /\ c.back = Plus(b.back, m.give)
         /\ RefundTotal(c) = RefundTotal(b) + m.amount
<1> DEFINE c == Refunded(b, m)
           back == Plus(b.back, m.give)
           paid == [b.paidBack EXCEPT ![m.method] = @ + m.amount]
           status == IF \A p \in Products : back[p] >= b.qty[p] THEN "REFUNDED"
                     ELSE "PARTIAL_REFUND"
<1>1. /\ b.qty \in Quantities /\ b.back \in Quantities /\ b.total \in Nat
      /\ b.legs \subseteq Leg /\ b.refunds \in Nat /\ b.paidBack \in [Methods -> Nat]
      /\ b.shift \in Nat /\ b.cashCounted \in BOOLEAN /\ b.lacking \in Quantities
  BY DEF Bill
<1>2. m.give \in Quantities /\ m.amount \in Nat /\ m.method \in Methods
  BY DEF ReturnRequest
<1>3. c = [b EXCEPT !.back = back, !.refunds = b.refunds + 1, !.paidBack = paid, !.status = status]
  BY DEF Refunded
<1>4. /\ c.status = status /\ c.qty = b.qty /\ c.back = back /\ c.total = b.total
      /\ c.legs = b.legs /\ c.paidBack = paid
  BY <1>3 DEF Bill
<1>5. back \in Quantities /\ \A p \in Products : back[p] = b.back[p] + m.give[p]
  BY <1>1, <1>2 DEF Plus, Quantities
<1>6. paid \in [Methods -> Nat]
  BY <1>1, <1>2
<1>7. status \in {"REFUNDED", "PARTIAL_REFUND"}
  OBVIOUS
<1>8. paid["CASH"] + paid["TRANSFER"] = b.paidBack["CASH"] + b.paidBack["TRANSFER"] + m.amount
  BY <1>1, <1>2 DEF Methods
<1>9. \A p \in Products : back[p] <= b.qty[p] /\ back[p] \in Nat /\ b.qty[p] \in Nat
  BY <1>1, <1>2, <1>5 DEF ValidRefund, Quantities
<1>10. (\A p \in Products : back[p] >= b.qty[p]) <=> \A p \in Products : back[p] = b.qty[p]
  BY <1>9
<1>11. (\A p \in Products : back[p] = b.qty[p]) <=> back = b.qty
  BY <1>1, <1>5 DEF Quantities
<1>12. RefundTotal(c) = RefundTotal(b) + m.amount
  BY <1>4, <1>8 DEF RefundTotal
<1>13. c \in Bill
  <2>1. status \in Statuses /\ b.refunds + 1 \in Nat
    BY <1>1, <1>7 DEF Statuses
  <2> HIDE DEF back, paid, status
  <2> QED BY <1>1, <1>3, <1>5, <1>6, <2>1 DEF Bill
<1>14. BillOK(c)
  <2>1. \A p \in Products : c.back[p] <= c.qty[p]
    BY <1>4, <1>9
  <2>2. RefundTotal(c) <= c.total
    BY <1>4, <1>12 DEF ValidRefund
  <2>3. c.status = "REFUNDED" <=> \A p \in Products : c.back[p] = c.qty[p]
    BY <1>4, <1>10
  <2>4. c.status # "COMPLETED"
    BY <1>4
  <2> QED BY <2>1, <2>2, <2>3, <2>4 DEF BillOK
<1>15. c.status = IF c.back = c.qty THEN "REFUNDED" ELSE "PARTIAL_REFUND"
  BY <1>4, <1>10, <1>11
<1> QED BY <1>4, <1>12, <1>13, <1>14, <1>15

\* Writing well-formed entries keeps the ledger well formed.
LEMMA RecordType ==
  ASSUME drawer \subseteq LedgerEntry, NEW es \in SUBSET LedgerEntry
  PROVE  Record(drawer, es) \subseteq LedgerEntry
BY DEF Record

\* The entries of payment legs are well formed.
LEMMA LegEntriesType ==
  ASSUME NEW src \in {"SALE_PAYMENT", "SALE_REFUND", "REVERSAL"}, NEW dir \in {"IN", "OUT"},
         NEW s \in Sales, NEW legs \in SUBSET Leg
  PROVE  LegEntries(src, dir, s, legs) \subseteq LedgerEntry
<1> SUFFICES ASSUME NEW l \in legs
             PROVE  Entry(src, s, l.n, dir, l.method, l.amount) \in LedgerEntry
  BY DEF LegEntries
<1>1. l.n \in Nat /\ l.method \in Methods /\ l.amount \in Nat
  BY ConstantsAssumption DEF Leg
<1> QED BY <1>1 DEF Entry, LedgerEntry

\* A request that read well-formed data keeps the invariant.
LEMMA AskStep ==
  ASSUME IInv, NEW r \in Requests, NEW m \in Request, Asked(m), Ask(r, m)
  PROVE  IInv'
<1>1. UNCHANGED <<sale, stock, holder, drawer, shift>> /\ req' = [req EXCEPT ![r] = m]
  BY DEF Ask
<1>2. req' \in [Requests -> Request]
  BY <1>1 DEF IInv, TypeOK
<1>3. TypeOK'
  BY <1>1, <1>2 DEF IInv, TypeOK
<1>4. (\A s \in Sales : BillOK(sale[s]))'
  BY <1>1 DEF IInv, BillOK, RefundTotal
<1>5. ASSUME NEW x \in Requests
      PROVE  Asked(req[x])'
  <2>1. req'[x] = IF x = r THEN m ELSE req[x]
    BY <1>1 DEF IInv, TypeOK
  <2>2. Asked(req'[x])
    BY <2>1 DEF IInv
  <2> QED BY <2>2, <1>1 DEF Asked, SerialsNamed, Of
<1> QED BY <1>3, <1>4, <1>5 DEF IInv

\* A transaction that leaves well-formed data, and no bill unmade, keeps the invariant.
LEMMA DoneStep ==
  ASSUME IInv, NEW r \in Requests, Done(r), BillsStay,
         sale' \in [Sales -> Bill], \A s \in Sales : BillOK(sale'[s]),
         stock' \in Quantities, holder' \in [Serials -> Sales \cup {Shop}],
         drawer' \subseteq LedgerEntry, shift' = shift
  PROVE  IInv'
<1>1. req' = [req EXCEPT ![r] = Idle] /\ req \in [Requests -> Request]
  BY DEF Done, IInv, TypeOK
<1>2. Idle \in Request /\ Idle.op = "none"
  BY DEF Request, Idle
<1>3. TypeOK'
  BY <1>1, <1>2 DEF IInv, TypeOK, Quantities
<1>4. (\A s \in Sales : BillOK(sale[s]))'
  BY DEF BillOK, RefundTotal
<1>5. ASSUME NEW x \in Requests
      PROVE  Asked(req[x])'
  <2>1. CASE x = r
    <3>1. req'[x] = Idle
      BY <2>1, <1>1
    <3> QED BY <3>1, <1>2 DEF Asked, OnBill
  <2>2. CASE x # r
    <3>1. req'[x] = req[x] /\ req[x] \in Request /\ Asked(req[x])
      BY <2>2, <1>1 DEF IInv
    <3>2. req[x].op \in OnBill => req[x].sale \in Sales
      BY <3>1 DEF Request, OnBill, Idle, CreateRequest, ReturnRequest, MethodRequest, VoidRequest
    <3>3. req[x].op = "method" => (req[x].claimed => sale'[req[x].sale].status = "COMPLETED")
      <4> SUFFICES ASSUME req[x].op = "method", req[x].claimed
                   PROVE  sale'[req[x].sale].status = "COMPLETED"
        OBVIOUS
      <4>1. sale[req[x].sale].status = "COMPLETED" /\ req[x].sale \in Sales
        BY <3>1, <3>2 DEF Asked, OnBill
      <4>2. ~Unlocked(req[x].sale)
        BY <1>2 DEF Unlocked, Busy
      <4> QED BY <4>1, <4>2 DEF BillsStay
    <3>4. Asked(req[x])'
      BY <3>1, <3>2, <3>3 DEF Asked, BillsStay, OnBill, SerialsNamed, Of
    <3> QED BY <3>4
  <2> QED BY <2>1, <2>2
<1> QED BY <1>3, <1>4, <1>5 DEF IInv

-----------------------------------------------------------------------------

LEMMA AskCreateStep ==
  ASSUME IInv, NEW r \in Requests, AskCreate(r)
  PROVE  IInv'
<1>1. PICK q \in Baskets, picks \in SUBSET Serials :
        SerialsNamed(q, picks) /\
        \E d \in Discounts, t \in Tenders, total \in Money :
          /\ d + total = Value(q)
          /\ total <= Paid(t)
          /\ \E late \in BOOLEAN, n \in 1..shift.no :
               /\ IF late THEN "late" \in Ops /\ total > 0 ELSE ShiftOpen(n)
               /\ Ask(r, [op |-> "create", qty |-> q, total |-> total,
                          legs |-> AppliedLegs(t, total), picks |-> picks, shift |-> n,
                          cashCounted |-> late /\ ~ShiftOpen(n)])
  BY Zenon DEF AskCreate
<1>2. PICK t \in Tenders, total \in Money, late \in BOOLEAN, n \in 1..shift.no :
        /\ total <= Paid(t)
        /\ Ask(r, [op |-> "create", qty |-> q, total |-> total,
                   legs |-> AppliedLegs(t, total), picks |-> picks, shift |-> n,
                   cashCounted |-> late /\ ~ShiftOpen(n)])
  BY <1>1, Zenon
<1> DEFINE legs == AppliedLegs(t, total)
           counted == late /\ ~ShiftOpen(n)
           m == [op |-> "create", qty |-> q, total |-> total, legs |-> legs, picks |-> picks,
                 shift |-> n, cashCounted |-> counted]
<1>3. total \in Nat /\ q \in Quantities /\ \E p \in Products : q[p] # 0
  BY ConstantsAssumption DEF Quantities
<1>4. legs \subseteq Leg
  BY <1>2, <1>3, AppliedLegsType
<1>5. n \in Nat /\ counted \in BOOLEAN
  BY DEF IInv, TypeOK
<1>6. Ask(r, m)
  BY <1>2
<1> HIDE DEF legs, counted
<1>7. m \in CreateRequest
  BY <1>3, <1>4, <1>5, SMTT(30) DEF CreateRequest
<1>8. m \in Request /\ Asked(m)
  BY <1>1, <1>3, <1>7 DEF Request, Asked, OnBill
<1> HIDE DEF m
<1> QED BY <1>6, <1>8, AskStep

\* Refunds and exchanges ask for units of a bill that exists.
LEMMA AskReturnStep ==
  ASSUME IInv, NEW r \in Requests, NEW op \in {"refund", "exchange"}, NEW s \in Sales,
         NEW take \in Quantities, NEW total \in Nat,
         op = "exchange" => \E p \in Products : take[p] # 0,
         AskReturn(r, op, s, take, total)
  PROVE  IInv'
<1>1. PICK give \in [Products -> 0..LineMax], method \in Methods :
        \E amount \in {a \in Money : a <= Value(give)},
           picks \in SUBSET {x \in Serials : holder[x] = s} :
          Ask(r, [op |-> op, sale |-> s, give |-> give, amount |-> amount, picks |-> picks,
                  method |-> method, take |-> take, total |-> total,
                  shift |-> shift.no, cashCounted |-> FALSE])
  BY DEF AskReturn
<1>2. PICK amount \in Money, picks \in SUBSET Serials :
        Ask(r, [op |-> op, sale |-> s, give |-> give, amount |-> amount, picks |-> picks,
                method |-> method, take |-> take, total |-> total,
                shift |-> shift.no, cashCounted |-> FALSE])
  BY <1>1
<1> DEFINE m == [op |-> op, sale |-> s, give |-> give, amount |-> amount, picks |-> picks,
                 method |-> method, take |-> take, total |-> total,
                 shift |-> shift.no, cashCounted |-> FALSE]
<1>3. give \in Quantities /\ amount \in Nat /\ shift.no \in Nat
  BY ConstantsAssumption DEF Quantities, IInv, TypeOK
<1>4. m \in ReturnRequest
  BY <1>3 DEF ReturnRequest
<1>5. sale[s].status # "NONE"
  BY DEF AskReturn
<1>6. m \in Request /\ Asked(m)
  BY <1>4, <1>5 DEF Request, Asked, OnBill
<1>7. Ask(r, m)
  BY <1>2
<1> HIDE DEF m
<1> QED BY <1>6, <1>7, AskStep

LEMMA AskRefundStep ==
  ASSUME IInv, NEW r \in Requests, AskRefund(r)
  PROVE  IInv'
<1>1. PICK s \in Sales : AskReturn(r, "refund", s, None, 0)
  BY DEF AskRefund
<1>2. None \in Quantities
  BY DEF None, Quantities
<1> QED BY <1>1, <1>2, AskReturnStep

LEMMA AskExchangeStep ==
  ASSUME IInv, NEW r \in Requests, AskExchange(r)
  PROVE  IInv'
<1>1. PICK s \in Sales, take \in Baskets, total \in Money :
        AskReturn(r, "exchange", s, take, total)
  BY DEF AskExchange
<1>2. take \in Quantities /\ total \in Nat /\ \E p \in Products : take[p] # 0
  BY ConstantsAssumption DEF Quantities
<1> QED BY <1>1, <1>2, AskReturnStep

LEMMA AskMethodStep ==
  ASSUME IInv, NEW r \in Requests, AskMethod(r)
  PROVE  IInv'
<1>0. PICK s \in Sales : \E leg \in sale[s].legs, method \in Methods :
        /\ sale[s].status = "COMPLETED"
        /\ leg.n < MaxLegs
        /\ Ask(r, [op |-> "method", sale |-> s, leg |-> leg, method |-> method, claimed |-> FALSE])
  BY DEF AskMethod
<1>1. PICK leg \in sale[s].legs, method \in Methods :
        /\ sale[s].status = "COMPLETED"
        /\ leg.n < MaxLegs
        /\ Ask(r, [op |-> "method", sale |-> s, leg |-> leg, method |-> method, claimed |-> FALSE])
  BY <1>0
<1> DEFINE m == [op |-> "method", sale |-> s, leg |-> leg, method |-> method, claimed |-> FALSE]
<1>2. sale[s] \in Bill
  BY DEF IInv, TypeOK
<1>3. leg \in {l \in Leg : l.n < MaxLegs}
  BY <1>1, <1>2 DEF Bill
<1>4. m \in MethodRequest
  BY <1>3 DEF MethodRequest
<1>5. m \in Request /\ Asked(m)
  BY <1>1, <1>4 DEF Request, Asked, OnBill
<1>6. Ask(r, m)
  BY <1>1
<1> HIDE DEF m
<1> QED BY <1>5, <1>6, AskStep

LEMMA AskVoidStep ==
  ASSUME IInv, NEW r \in Requests, AskVoid(r)
  PROVE  IInv'
<1>1. PICK s \in Sales :
        /\ sale[s].status \notin {"NONE", "VOIDED"}
        /\ Ask(r, [op |-> "void", sale |-> s, back |-> sale[s].back, legs |-> sale[s].legs])
  BY DEF AskVoid
<1> DEFINE m == [op |-> "void", sale |-> s, back |-> sale[s].back, legs |-> sale[s].legs]
<1>2. sale[s] \in Bill /\ BillOK(sale[s])
  BY DEF IInv, TypeOK
<1>3. m \in VoidRequest
  BY <1>2 DEF VoidRequest, Bill
<1>4. m \in Request /\ Asked(m)
  BY <1>1, <1>2, <1>3 DEF Request, Asked, OnBill, BillOK
<1>5. Ask(r, m)
  BY <1>1
<1> HIDE DEF m
<1> QED BY <1>4, <1>5, AskStep

-----------------------------------------------------------------------------

LEMMA CommitCreateStep ==
  ASSUME IInv, NEW r \in Requests, CommitCreate(r)
  PROVE  IInv'
<1> DEFINE m == req[r]
<1>1. /\ m \in CreateRequest /\ (\E p \in Products : m.qty[p] # 0) /\ SerialsNamed(m.qty, m.picks)
      /\ \A p \in Products : m.qty[p] <= stock[p]
  BY DEF CommitCreate, IInv, TypeOK, Asked, Request, Idle, ReturnRequest, MethodRequest, VoidRequest
<1>2. /\ m.qty \in Quantities /\ m.total \in Nat /\ m.legs \in SUBSET Leg /\ m.shift \in Nat
      /\ m.cashCounted \in BOOLEAN /\ Lacking(m.qty, m.picks) \in Quantities
  BY <1>1, LackingType DEF CreateRequest
<1> DEFINE bill == NewBill(m, m.qty, m.legs, Lacking(m.qty, m.picks))
<1>3. PICK s \in Sales :
        /\ sale[s] = NoBill
        /\ sale' = [sale EXCEPT ![s] = bill]
        /\ stock' = Minus(stock, m.qty)
        /\ holder' = [x \in Serials |-> IF x \in m.picks THEN s ELSE holder[x]]
        /\ drawer' = Record(drawer, LegEntries("SALE_PAYMENT", "IN", s, CountedLegs(bill)))
  BY DEF CommitCreate
<1>4. /\ bill \in Bill /\ BillOK(bill) /\ bill.status = "COMPLETED" /\ bill.qty = m.qty
      /\ bill.legs = m.legs /\ bill.total = m.total /\ RefundTotal(bill) = 0
  <2>1. bill \in Bill
    BY <1>2, NewBillType DEF NewBill
  <2>2. /\ bill.status = "COMPLETED" /\ bill.qty = m.qty /\ bill.legs = m.legs
        /\ bill.back = None /\ bill.paidBack = [y \in Methods |-> 0] /\ bill.total = m.total
    BY DEF NewBill
  <2> HIDE DEF bill
  <2>3. BillOK(bill) /\ RefundTotal(bill) = 0
    BY <2>1, <2>2, <1>1, NewBillOK
  <2> QED BY <2>1, <2>2, <2>3
<1> HIDE DEF bill
<1>5. /\ \A x \in Sales : sale'[x] = IF x = s THEN bill ELSE sale[x]
      /\ sale' \in [Sales -> Bill]
  BY <1>3, <1>4 DEF IInv, TypeOK
<1>6. BillsStay /\ \A x \in Sales : BillOK(sale'[x])
  <2>1. sale[s].status = "NONE"
    BY <1>3 DEF NoBill
  <2> QED BY <2>1, <1>4, <1>5 DEF BillsStay, IInv
<1>7. stock' \in Quantities
  <2>1. stock' = [p \in Products |-> stock[p] - m.qty[p]]
    BY <1>3 DEF Minus
  <2>2. \A p \in Products : stock[p] - m.qty[p] \in Nat
    BY <1>1, <1>2 DEF IInv, TypeOK, Quantities
  <2> QED BY <2>1, <2>2 DEF Quantities
<1>8. holder' \in [Serials -> Sales \cup {Shop}]
  BY <1>3 DEF IInv, TypeOK
<1>9. drawer' \subseteq LedgerEntry
  <2>1. CountedLegs(bill) \subseteq Leg
    BY <1>2, <1>4 DEF CountedLegs
  <2>2. LegEntries("SALE_PAYMENT", "IN", s, CountedLegs(bill)) \subseteq LedgerEntry
    BY <2>1, LegEntriesType
  <2> QED BY <1>3, <2>2, RecordType DEF IInv, TypeOK
<1>10. IInv'
  BY <1>5, <1>6, <1>7, <1>8, <1>9, DoneStep DEF CommitCreate
<1> QED BY <1>10

\* What CommitRefund and CommitExchange know of the request they serve.
LEMMA ReturnAsked ==
  ASSUME IInv, NEW r \in Requests, req[r].op \in {"refund", "exchange"}
  PROVE  /\ req[r] \in ReturnRequest /\ req[r].sale \in Sales
         /\ sale[req[r].sale] \in Bill /\ BillOK(sale[req[r].sale])
         /\ sale[req[r].sale].status # "NONE"
         /\ req[r].op = "exchange" => \E p \in Products : req[r].take[p] # 0
<1>1. req[r] \in Request /\ Asked(req[r])
  BY DEF IInv, TypeOK
<1>2. req[r] \in ReturnRequest
  BY <1>1 DEF Request, Idle, CreateRequest, MethodRequest, VoidRequest
<1>3. req[r].sale \in Sales
  BY <1>2 DEF ReturnRequest
<1>4. sale[req[r].sale].status # "NONE"
  BY <1>1 DEF Asked, OnBill
<1>5. req[r].op = "exchange" => \E p \in Products : req[r].take[p] # 0
  BY <1>1 DEF Asked
<1> QED BY <1>2, <1>3, <1>4, <1>5 DEF IInv, TypeOK

\* The ledger entry of a refund is well formed.
LEMMA RefundEntryType ==
  ASSUME NEW m \in ReturnRequest, sale[m.sale] \in Bill
  PROVE  RefundEntry(m) \in LedgerEntry
<1>1. m.sale \in Sales /\ m.method \in Methods /\ m.amount \in Nat
  BY DEF ReturnRequest
<1>2. sale[m.sale].refunds + 1 \in Nat
  BY DEF Bill
<1> QED BY <1>1, <1>2 DEF RefundEntry, Entry, LedgerEntry

\* Putting units back in stock, and freeing serials, keeps both well formed.
LEMMA PlusType ==
  ASSUME NEW f \in Quantities, NEW g \in Quantities
  PROVE  Plus(f, g) \in Quantities
BY DEF Plus, Quantities

LEMMA FreeSerialsType ==
  ASSUME IInv, NEW xs
  PROVE  FreeSerials(xs) \in [Serials -> Sales \cup {Shop}]
BY DEF FreeSerials, IInv, TypeOK

LEMMA CommitRefundStep ==
  ASSUME IInv, NEW r \in Requests, CommitRefund(r)
  PROVE  IInv'
<1> DEFINE m == req[r]
           b == sale[m.sale]
           c == Refunded(b, m)
<1>1. /\ m \in ReturnRequest /\ m.sale \in Sales /\ b \in Bill /\ BillOK(b)
      /\ b.status # "NONE" /\ ValidRefund(b, m)
  BY ReturnAsked DEF CommitRefund
<1>2. /\ sale' = [sale EXCEPT ![m.sale] = c]
      /\ stock' = Plus(stock, m.give)
      /\ holder' = FreeSerials(UNION {SerialsBack(m, p) : p \in Products})
      /\ drawer' = Record(drawer, {RefundEntry(m)})
      /\ Done(r) /\ shift' = shift
  BY DEF CommitRefund
<1>3. c \in Bill /\ BillOK(c) /\ c.status # "NONE" /\ c.qty = b.qty
  BY <1>1, RefundedOK
<1> HIDE DEF c
<1>4. /\ \A x \in Sales : sale'[x] = IF x = m.sale THEN c ELSE sale[x]
      /\ sale' \in [Sales -> Bill]
  BY <1>1, <1>2, <1>3 DEF IInv, TypeOK
<1>5. BillsStay /\ \A x \in Sales : BillOK(sale'[x])
  <2>1. Unlocked(m.sale)
    BY DEF CommitRefund
  <2> QED BY <2>1, <1>1, <1>3, <1>4 DEF BillsStay, IInv
<1>6. stock' \in Quantities
  BY <1>1, <1>2, PlusType DEF IInv, TypeOK, Quantities, ReturnRequest
<1>7. holder' \in [Serials -> Sales \cup {Shop}]
  BY <1>2, FreeSerialsType
<1>8. drawer' \subseteq LedgerEntry
  BY <1>1, <1>2, RefundEntryType, RecordType DEF IInv, TypeOK
<1> QED BY <1>2, <1>4, <1>5, <1>6, <1>7, <1>8, DoneStep

LEMMA CommitExchangeStep ==
  ASSUME IInv, NEW r \in Requests, CommitExchange(r)
  PROVE  IInv'
<1> DEFINE m == req[r]
           b == sale[m.sale]
           c == Refunded(b, m)
           leg == [n |-> 1, method |-> m.method, amount |-> m.total]
           bill == NewBill(m, m.take, {leg}, m.take)
<1>1. /\ m \in ReturnRequest /\ m.sale \in Sales /\ b \in Bill /\ BillOK(b)
      /\ b.status # "NONE" /\ ValidRefund(b, m) /\ \E p \in Products : m.take[p] # 0
  BY ReturnAsked DEF CommitExchange
<1>2. /\ m.give \in Quantities /\ m.take \in Quantities /\ m.method \in Methods
      /\ m.total \in Nat /\ m.shift \in Nat /\ m.cashCounted \in BOOLEAN
  BY <1>1 DEF ReturnRequest
<1>3. PICK s \in Sales :
        /\ sale[s] = NoBill
        /\ sale' = [sale EXCEPT ![m.sale] = c, ![s] = bill]
        /\ drawer' = Record(drawer,
             {RefundEntry(m)} \cup LegEntries("SALE_PAYMENT", "IN", s, bill.legs))
  BY DEF CommitExchange
<1>4. /\ stock' = Minus(Plus(stock, m.give), m.take)
      /\ \A p \in Products : m.take[p] <= stock[p] + m.give[p]
      /\ holder' = FreeSerials(UNION {SerialsBack(m, p) : p \in Products})
      /\ Done(r) /\ shift' = shift
  BY DEF CommitExchange
<1>5. c \in Bill /\ BillOK(c) /\ c.status # "NONE" /\ c.qty = b.qty
  BY <1>1, RefundedOK
<1>6. {leg} \subseteq Leg
  BY <1>2, ConstantsAssumption DEF Leg
<1>7. bill \in Bill /\ BillOK(bill) /\ bill.status = "COMPLETED" /\ bill.legs = {leg}
  <2> HIDE DEF leg
  <2>1. bill \in Bill
    BY <1>2, <1>6, NewBillType DEF NewBill
  <2>2. /\ bill.status = "COMPLETED" /\ bill.qty = m.take /\ bill.legs = {leg}
        /\ bill.back = None /\ bill.paidBack = [y \in Methods |-> 0]
    BY DEF NewBill
  <2> HIDE DEF bill
  <2>3. BillOK(bill)
    BY <2>1, <2>2, <1>1, NewBillOK
  <2> QED BY <2>1, <2>2, <2>3
<1> HIDE DEF c, bill, leg
<1>8. sale[s].status = "NONE" /\ s # m.sale
  BY <1>1, <1>3 DEF NoBill
<1>9. /\ \A x \in Sales : sale'[x] = IF x = m.sale THEN c ELSE IF x = s THEN bill ELSE sale[x]
      /\ sale' \in [Sales -> Bill]
  BY <1>1, <1>3, <1>5, <1>7, <1>8 DEF IInv, TypeOK
<1>10. BillsStay /\ \A x \in Sales : BillOK(sale'[x])
  <2>1. Unlocked(m.sale)
    BY DEF CommitExchange
  <2> QED BY <2>1, <1>1, <1>5, <1>7, <1>8, <1>9 DEF BillsStay, IInv
<1>11. stock' \in Quantities
  <2> DEFINE now == Plus(stock, m.give)
  <2>1. stock' = [p \in Products |-> now[p] - m.take[p]]
    BY <1>4 DEF Minus
  <2>2. \A p \in Products : now[p] = stock[p] + m.give[p]
    BY DEF Plus
  <2>3. \A p \in Products : now[p] - m.take[p] \in Nat
    BY <2>2, <1>2, <1>4 DEF IInv, TypeOK, Quantities
  <2> HIDE DEF now
  <2> QED BY <2>1, <2>3 DEF Quantities
<1>12. holder' \in [Serials -> Sales \cup {Shop}]
  BY <1>4, FreeSerialsType
<1>13. drawer' \subseteq LedgerEntry
  <2>1. LegEntries("SALE_PAYMENT", "IN", s, bill.legs) \subseteq LedgerEntry
    BY <1>6, <1>7, LegEntriesType
  <2> QED BY <1>1, <1>3, <2>1, RefundEntryType, RecordType DEF IInv, TypeOK
<1> QED BY <1>4, <1>9, <1>10, <1>11, <1>12, <1>13, DoneStep

LEMMA ClaimMethodStep ==
  ASSUME IInv, NEW r \in Requests, ClaimMethod(r)
  PROVE  IInv'
<1> DEFINE m == req[r]
           c == [m EXCEPT !.claimed = TRUE]
<1>1. m \in MethodRequest /\ sale[m.sale].status = "COMPLETED"
  BY DEF ClaimMethod, StillChangeable, IInv, TypeOK, Request, Idle, CreateRequest, ReturnRequest,
         VoidRequest
<1>2. c \in MethodRequest /\ c.op = "method" /\ c.sale = m.sale
  BY <1>1 DEF MethodRequest
<1>3. req' = [req EXCEPT ![r] = c] /\ UNCHANGED <<sale, stock, holder, drawer, shift>>
  BY DEF ClaimMethod
<1>4. c \in Request /\ Asked(c)
  BY <1>1, <1>2 DEF Request, Asked, OnBill
<1> HIDE DEF c
<1> QED BY <1>3, <1>4, AskStep DEF Ask

LEMMA CommitMethodStep ==
  ASSUME IInv, NEW r \in Requests, CommitMethod(r)
  PROVE  IInv'
<1> DEFINE m == req[r]
           b == sale[m.sale]
           leg == [n |-> m.leg.n + 1, method |-> m.method, amount |-> b.total]
           legs == (b.legs \ {m.leg}) \cup {leg}
           c == [b EXCEPT !.legs = legs]
<1>1. m \in MethodRequest
  BY DEF CommitMethod, IInv, TypeOK, Request, Idle, CreateRequest, ReturnRequest, VoidRequest
<1>2. m.sale \in Sales /\ m.leg \in Leg /\ m.leg.n < MaxLegs /\ m.method \in Methods
  BY <1>1 DEF MethodRequest
<1>3. /\ b \in Bill /\ BillOK(b) /\ b.status = "COMPLETED"
  BY <1>2 DEF CommitMethod, IInv, TypeOK, Asked
<1>4. /\ sale' = [sale EXCEPT ![m.sale] = c]
      /\ drawer' = Record(drawer, LegEntries("REVERSAL", "OUT", m.sale, {m.leg})
                                  \cup LegEntries("SALE_PAYMENT", "IN", m.sale, {leg}))
      /\ Done(r) /\ stock' = stock /\ holder' = holder /\ shift' = shift
  BY DEF CommitMethod
<1>5. leg \in Leg
  BY <1>2, <1>3, ConstantsAssumption DEF Leg, Bill
<1> HIDE DEF leg
<1>6. legs \subseteq Leg
  BY <1>3, <1>5 DEF Bill
<1> HIDE DEF legs
<1>7. /\ c \in Bill /\ c.status = b.status /\ c.qty = b.qty /\ c.back = b.back
      /\ c.total = b.total /\ c.paidBack = b.paidBack
  BY <1>3, <1>6 DEF Bill
<1> HIDE DEF c
<1>8. BillOK(c)
  BY <1>3, <1>7 DEF BillOK, RefundTotal
<1>9. /\ \A x \in Sales : sale'[x] = IF x = m.sale THEN c ELSE sale[x]
      /\ sale' \in [Sales -> Bill]
  BY <1>2, <1>4, <1>7 DEF IInv, TypeOK
<1>10. BillsStay /\ \A x \in Sales : BillOK(sale'[x])
  BY <1>3, <1>7, <1>8, <1>9 DEF BillsStay, IInv
<1>11. drawer' \subseteq LedgerEntry
  <2>1. LegEntries("REVERSAL", "OUT", m.sale, {m.leg}) \subseteq LedgerEntry
    BY <1>2, LegEntriesType
  <2>2. LegEntries("SALE_PAYMENT", "IN", m.sale, {leg}) \subseteq LedgerEntry
    BY <1>2, <1>5, LegEntriesType
  <2> QED BY <1>4, <2>1, <2>2, RecordType DEF IInv, TypeOK
<1>12. stock' \in Quantities /\ holder' \in [Serials -> Sales \cup {Shop}]
  BY <1>4 DEF IInv, TypeOK, Quantities
<1> QED BY <1>4, <1>9, <1>10, <1>11, <1>12, DoneStep

LEMMA CommitVoidStep ==
  ASSUME IInv, NEW r \in Requests, CommitVoid(r)
  PROVE  IInv'
<1> DEFINE m == req[r]
           b == sale[m.sale]
           c == [b EXCEPT !.status = "VOIDED"]
<1>1. m \in VoidRequest
  BY DEF CommitVoid, IInv, TypeOK, Request, Idle, CreateRequest, ReturnRequest, MethodRequest
<1>2. m.sale \in Sales /\ m.back \in Quantities /\ m.legs \in SUBSET Leg
  BY <1>1 DEF VoidRequest
<1>3. /\ b \in Bill /\ BillOK(b) /\ b.status # "NONE"
      /\ \A p \in Products : m.back[p] <= b.qty[p]
  BY <1>2 DEF CommitVoid, IInv, TypeOK, Asked, OnBill
<1>4. /\ sale' = [sale EXCEPT ![m.sale] = c]
      /\ stock' = Plus(stock, Restored(m))
      /\ holder' = FreeSerials({x \in Serials : holder[x] = m.sale})
      /\ drawer' = Record(drawer, VoidEntries(m))
      /\ Done(r) /\ shift' = shift
  BY DEF CommitVoid
<1>5. /\ c \in Bill /\ c.status = "VOIDED" /\ c.qty = b.qty /\ c.back = b.back
      /\ c.total = b.total /\ c.paidBack = b.paidBack
  BY <1>3 DEF Bill, Statuses
<1> HIDE DEF c
<1>6. BillOK(c)
  BY <1>3, <1>5 DEF BillOK, RefundTotal
<1>7. /\ \A x \in Sales : sale'[x] = IF x = m.sale THEN c ELSE sale[x]
      /\ sale' \in [Sales -> Bill]
  BY <1>2, <1>4, <1>5 DEF IInv, TypeOK
<1>8. BillsStay /\ \A x \in Sales : BillOK(sale'[x])
  <2>1. Unlocked(m.sale)
    BY DEF CommitVoid
  <2> QED BY <2>1, <1>5, <1>6, <1>7 DEF BillsStay, IInv
<1>9. stock' \in Quantities
  <2>1. Restored(m) = [p \in Products |-> b.qty[p] - m.back[p]]
    BY DEF Restored, Minus
  <2>2. \A p \in Products : b.qty[p] - m.back[p] \in Nat
    BY <1>2, <1>3 DEF Bill, Quantities
  <2>3. Restored(m) \in Quantities
    BY <2>1, <2>2 DEF Quantities
  <2> QED BY <1>4, <2>3, PlusType DEF IInv, TypeOK, Quantities
<1>10. holder' \in [Serials -> Sales \cup {Shop}]
  BY <1>4, FreeSerialsType
<1>11. drawer' \subseteq LedgerEntry
  <2>1. VoidEntries(m) \subseteq LedgerEntry
    BY <1>2, LegEntriesType DEF VoidEntries
  <2> QED BY <1>4, <2>1, RecordType DEF IInv, TypeOK
<1> QED BY <1>4, <1>7, <1>8, <1>9, <1>10, <1>11, DoneStep

LEMMA AbortStep ==
  ASSUME IInv, NEW r \in Requests, Abort(r)
  PROVE  IInv'
<1>1. Done(r) /\ UNCHANGED <<sale, stock, holder, drawer, shift>>
  BY DEF Abort
<1>2. BillsStay
  BY <1>1 DEF BillsStay
<1>3. /\ sale' \in [Sales -> Bill] /\ \A s \in Sales : BillOK(sale'[s])
      /\ stock' \in Quantities /\ holder' \in [Serials -> Sales \cup {Shop}]
      /\ drawer' \subseteq LedgerEntry
  BY <1>1 DEF IInv, TypeOK, Quantities
<1> QED BY <1>1, <1>2, <1>3, DoneStep

\* The shift opening or closing touches no bill and no request.
LEMMA ShiftStep ==
  ASSUME IInv, OpenShift \/ CloseShift
  PROVE  IInv'
<1>1. UNCHANGED <<sale, stock, holder, drawer, req>>
  BY DEF OpenShift, CloseShift
<1>2. shift' \in [no : Nat, open : BOOLEAN]
  <2>1. CASE OpenShift
    BY <2>1 DEF OpenShift, IInv, TypeOK
  <2>2. CASE CloseShift
    BY <2>2 DEF CloseShift, IInv, TypeOK
  <2> QED BY <2>1, <2>2
<1>3. TypeOK'
  BY <1>1, <1>2 DEF IInv, TypeOK
<1> QED BY <1>1, <1>3 DEF IInv, BillOK, RefundTotal, Asked, SerialsNamed, Of

-----------------------------------------------------------------------------

LEMMA Initially == Init => IInv
<1> SUFFICES ASSUME Init
             PROVE  IInv
  OBVIOUS
<1> USE ConstantsAssumption
<1>1. /\ None \in Quantities /\ [m \in Methods |-> 0] \in [Methods -> Nat]
      /\ {} \in SUBSET Leg /\ 0 \in Nat /\ "NONE" \in Statuses /\ FALSE \in BOOLEAN
  BY DEF None, Quantities, Statuses
<1>2. NoBill \in Bill
  BY <1>1 DEF NoBill, Bill
<1>3. BillOK(NoBill)
  BY DEF BillOK, NoBill, None, RefundTotal, Methods
<1>4. Idle \in Request /\ Asked(Idle)
  BY DEF Request, Asked, OnBill, Idle
<1>5. TypeOK
  BY <1>2, <1>4 DEF Init, TypeOK
<1>6. \A s \in Sales : BillOK(sale[s])
  BY <1>3 DEF Init
<1>7. \A r \in Requests : Asked(req[r])
  BY <1>4 DEF Init
<1> QED BY <1>5, <1>6, <1>7 DEF IInv

LEMMA Inductive == IInv /\ [Next]_vars => IInv'
<1> SUFFICES ASSUME IInv, [Next]_vars
             PROVE  IInv'
  OBVIOUS
<1>1. ASSUME NEW r \in Requests, AskCreate(r)
      PROVE  IInv'
  BY <1>1, AskCreateStep
<1>2. ASSUME NEW r \in Requests, AskRefund(r)
      PROVE  IInv'
  BY <1>2, AskRefundStep
<1>3. ASSUME NEW r \in Requests, AskExchange(r)
      PROVE  IInv'
  BY <1>3, AskExchangeStep
<1>4. ASSUME NEW r \in Requests, AskMethod(r)
      PROVE  IInv'
  BY <1>4, AskMethodStep
<1>5. ASSUME NEW r \in Requests, AskVoid(r)
      PROVE  IInv'
  BY <1>5, AskVoidStep
<1>6. ASSUME NEW r \in Requests, CommitCreate(r)
      PROVE  IInv'
  BY <1>6, CommitCreateStep
<1>7. ASSUME NEW r \in Requests, CommitRefund(r)
      PROVE  IInv'
  BY <1>7, CommitRefundStep
<1>8. ASSUME NEW r \in Requests, CommitExchange(r)
      PROVE  IInv'
  BY <1>8, CommitExchangeStep
<1>9. ASSUME NEW r \in Requests, CommitMethod(r)
      PROVE  IInv'
  BY <1>9, CommitMethodStep
<1>10. ASSUME NEW r \in Requests, CommitVoid(r)
       PROVE  IInv'
  BY <1>10, CommitVoidStep
<1>11. ASSUME NEW r \in Requests, Abort(r)
       PROVE  IInv'
  BY <1>11, AbortStep
<1>12. CASE OpenShift \/ CloseShift
  BY <1>12, ShiftStep
<1>13. CASE UNCHANGED vars
  BY <1>13 DEF vars, IInv, TypeOK, BillOK, RefundTotal, Asked, SerialsNamed, Of
<1>14. ASSUME NEW r \in Requests, ClaimMethod(r)
       PROVE  IInv'
  BY <1>14, ClaimMethodStep
<1> QED BY <1>1, <1>2, <1>3, <1>4, <1>5, <1>6, <1>7, <1>8, <1>9, <1>10, <1>11, <1>12, <1>13, <1>14
        DEF Next

LEMMA Invariance == Spec => []IInv
<1> QED BY Initially, Inductive, PTL DEF Spec

\* Every reachable state is well formed; in particular no sequence of sales, exchanges, refunds and
\* voids takes the branch's stock below zero.
THEOREM TypeCorrect == Spec => []TypeOK
<1>1. IInv => TypeOK
  BY DEF IInv
<1> QED BY <1>1, Invariance, PTL

\* Refunds and exchanges, however they race, never give back more units of a line than it sold nor,
\* added up, more money than the bill's total.  What a void pays out on top is another matter
\* (VoidReversesInFull).
THEOREM RefundsBounded == Spec => []RefundWithinBill
<1>1. IInv => RefundWithinBill
  BY DEF IInv, BillOK, RefundWithinBill
<1> QED BY <1>1, Invariance, PTL

\* The status of a bill that is not voided always agrees with the units that are back.
THEOREM StatusCorrect == Spec => []StatusMatchesUnits
<1>1. IInv => StatusMatchesUnits
  BY DEF IInv, BillOK, StatusMatchesUnits, Live
<1> QED BY <1>1, Invariance, PTL

-----------------------------------------------------------------------------
(* What a step may never do                                                *)

\* A request that is no transaction changes nothing but what requests remember; the shift opens and
\* closes on its own.
LEMMA QuietStep ==
  ASSUME NEW r,
         \/ AskCreate(r) \/ AskRefund(r) \/ AskExchange(r) \/ AskMethod(r) \/ AskVoid(r)
         \/ ClaimMethod(r) \/ Abort(r)
  PROVE  UNCHANGED <<sale, stock, holder, drawer, shift>>
BY DEF AskCreate, AskRefund, AskExchange, AskReturn, AskMethod, AskVoid, Ask, ClaimMethod, Abort

\* A property of two consecutive states of the shop holds of every step when it holds of the five
\* transactions and of the steps that leave bills and serials alone.
LEMMA ByTransaction ==
  ASSUME [Next]_vars, NEW P,
         \A r \in Requests : CommitCreate(r) => P, \A r \in Requests : CommitRefund(r) => P,
         \A r \in Requests : CommitExchange(r) => P, \A r \in Requests : CommitMethod(r) => P,
         \A r \in Requests : CommitVoid(r) => P,
         sale' = sale /\ holder' = holder => P
  PROVE  P
<1>1. ASSUME NEW r \in Requests,
             \/ AskCreate(r) \/ AskRefund(r) \/ AskExchange(r) \/ AskMethod(r) \/ AskVoid(r)
             \/ ClaimMethod(r) \/ Abort(r)
      PROVE  P
  BY <1>1, QuietStep
<1>2. CASE OpenShift \/ CloseShift \/ UNCHANGED vars
  BY <1>2 DEF OpenShift, CloseShift, vars
<1> QED BY <1>1, <1>2 DEF Next

\* The bill a transaction changes, as it was and as it is.
LEMMA CreatedBill ==
  ASSUME IInv, NEW r \in Requests, CommitCreate(r)
  PROVE  \E s \in Sales :
           /\ sale[s].status = "NONE" /\ sale[s].legs = {}
           /\ \A t \in Sales \ {s} : sale'[t] = sale[t]
           /\ SerialsFree(req[r].picks)
           /\ holder' = [x \in Serials |-> IF x \in req[r].picks THEN s ELSE holder[x]]
<1>1. PICK s \in Sales :
        /\ sale[s] = NoBill
        /\ sale' = [sale EXCEPT ![s] = NewBill(req[r], req[r].qty, req[r].legs, Lacking(req[r].qty, req[r].picks))]
        /\ holder' = [x \in Serials |-> IF x \in req[r].picks THEN s ELSE holder[x]]
  BY DEF CommitCreate
<1>2. sale[s].status = "NONE" /\ sale[s].legs = {}
  BY <1>1 DEF NoBill
<1>3. \A t \in Sales \ {s} : sale'[t] = sale[t]
  BY <1>1 DEF IInv, TypeOK
<1> QED BY <1>1, <1>2, <1>3 DEF CommitCreate

LEMMA ReturnedBill ==
  ASSUME IInv, NEW r \in Requests, CommitRefund(r) \/ CommitExchange(r)
  PROVE  LET s == req[r].sale IN
         /\ s \in Sales /\ sale[s].status \notin {"NONE", "VOIDED"} /\ sale'[s].legs = sale[s].legs
         /\ \A t \in Sales \ {s} : sale'[t] = sale[t] \/ (sale[t].status = "NONE" /\ sale[t].legs = {})
         /\ \E xs : holder' = FreeSerials(xs)
<1> DEFINE m == req[r]
           c == Refunded(sale[m.sale], m)
<1>1. m \in ReturnRequest /\ m.sale \in Sales /\ sale[m.sale] \in Bill /\ BillOK(sale[m.sale])
      /\ sale[m.sale].status # "NONE" /\ ValidRefund(sale[m.sale], m)
  BY ReturnAsked DEF CommitRefund, CommitExchange
<1>2. c.legs = sale[m.sale].legs
  BY <1>1, RefundedOK
<1>3. sale[m.sale].status # "VOIDED"
  BY <1>1 DEF ValidRefund
<1>4. NoBill.status = "NONE" /\ NoBill.legs = {}
  BY DEF NoBill
<1> HIDE DEF c
<1>5. CASE CommitRefund(r)
  <2>1. sale' = [sale EXCEPT ![m.sale] = c]
    BY <1>5 DEF CommitRefund, c
  <2>2. sale'[m.sale] = c /\ \A t \in Sales \ {m.sale} : sale'[t] = sale[t]
    BY <1>1, <2>1 DEF IInv, TypeOK
  <2> QED BY <1>1, <1>2, <1>3, <1>5, <2>2 DEF CommitRefund
<1>6. CASE CommitExchange(r)
  <2>0. PICK s \in Sales : \E b : sale[s] = NoBill /\ sale' = [sale EXCEPT ![m.sale] = c, ![s] = b]
    BY <1>6 DEF CommitExchange, c
  <2>1. PICK b : sale[s] = NoBill /\ sale' = [sale EXCEPT ![m.sale] = c, ![s] = b]
    BY <2>0
  <2>2. s # m.sale
    BY <1>1, <1>4, <2>1
  <2>3. sale'[m.sale] = c /\ \A t \in Sales \ {m.sale} : t = s \/ sale'[t] = sale[t]
    BY <1>1, <2>1, <2>2 DEF IInv, TypeOK
  <2> QED BY <1>1, <1>2, <1>3, <1>4, <1>6, <2>1, <2>3 DEF CommitExchange
<1> QED BY <1>5, <1>6

LEMMA MethodBill ==
  ASSUME IInv, NEW r \in Requests, CommitMethod(r)
  PROVE  LET s == req[r].sale IN
         /\ s \in Sales /\ sale[s].status = "COMPLETED" /\ holder' = holder
         /\ \A t \in Sales \ {s} : sale'[t] = sale[t]
<1>1. req[r] \in MethodRequest
  BY DEF CommitMethod, IInv, TypeOK, Request, Idle, CreateRequest, ReturnRequest, VoidRequest
<1> QED BY <1>1 DEF CommitMethod, MethodRequest, IInv, TypeOK, Asked

LEMMA VoidedBill ==
  ASSUME IInv, NEW r \in Requests, CommitVoid(r)
  PROVE  LET s == req[r].sale IN
         /\ s \in Sales /\ sale[s].status # "NONE" /\ sale'[s].legs = sale[s].legs
         /\ sale[s].status = "VOIDED" => sale'[s] = sale[s]
         /\ \A t \in Sales \ {s} : sale'[t] = sale[t]
         /\ holder' = FreeSerials({x \in Serials : holder[x] = s})
<1> DEFINE s == req[r].sale
           b == sale[s]
           c == [b EXCEPT !.status = "VOIDED"]
<1>1. req[r] \in VoidRequest /\ Asked(req[r])
  BY DEF CommitVoid, IInv, TypeOK, Request, Idle, CreateRequest, ReturnRequest, MethodRequest
<1>2. s \in Sales /\ b.status # "NONE" /\ b \in Bill /\ sale \in [Sales -> Bill]
  BY <1>1 DEF VoidRequest, Asked, OnBill, CommitVoid, IInv, TypeOK
<1>3. /\ sale' = [sale EXCEPT ![s] = c]
      /\ holder' = FreeSerials({x \in Serials : holder[x] = s})
  BY DEF CommitVoid
<1> HIDE DEF s
<1>4. c.legs = b.legs
  BY <1>2 DEF Bill
<1>5. b.status = "VOIDED" => c = b
  BY <1>2 DEF Bill
<1> HIDE DEF c
<1>6. sale'[s] = c /\ \A t \in Sales \ {s} : sale'[t] = sale[t]
  BY <1>2, <1>3
<1> QED BY <1>2, <1>3, <1>4, <1>5, <1>6 DEF s

\* No refund, exchange or method change that was under way when a void committed touches the voided
\* bill, and no serial is sold on it.
THEOREM VoidIsFinal == Spec => VoidedIsFinal
<1>1. ASSUME IInv, [Next]_vars, NEW s \in Sales, sale[s].status = "VOIDED"
      PROVE  sale'[s] = sale[s] /\ \A x \in Serials : holder'[x] = s => holder[x] = s
  <2> DEFINE P == sale'[s] = sale[s] /\ \A x \in Serials : holder'[x] = s => holder[x] = s
  <2>1. ASSUME NEW xs, holder' = FreeSerials(xs)
        PROVE  \A x \in Serials : holder'[x] = s => holder[x] = s
    BY <2>1, RowsAssumption DEF FreeSerials
  <2>2. ASSUME NEW r \in Requests, CommitCreate(r)
        PROVE  P
    BY <1>1, <2>2, CreatedBill
  <2>3. ASSUME NEW r \in Requests, CommitRefund(r) \/ CommitExchange(r)
        PROVE  P
    BY <1>1, <2>1, <2>3, ReturnedBill
  <2>4. ASSUME NEW r \in Requests, CommitMethod(r)
        PROVE  P
    BY <1>1, <2>4, MethodBill
  <2>5. ASSUME NEW r \in Requests, CommitVoid(r)
        PROVE  P
    <3>1. sale'[s] = sale[s]
      BY <1>1, <2>5, VoidedBill
    <3> QED BY <1>1, <2>1, <2>5, <3>1, VoidedBill
  <2>6. sale' = sale /\ holder' = holder => P
    OBVIOUS
  <2> HIDE DEF P
  <2>7. P
    BY <1>1, <2>2, <2>3, <2>4, <2>5, <2>6, ByTransaction
  <2> QED BY <2>7 DEF P
<1>2. IInv /\ [Next]_vars =>
        [\A s \in Sales : sale[s].status = "VOIDED" =>
           sale'[s] = sale[s] /\ \A x \in Serials : holder'[x] = s => holder[x] = s]_vars
  BY <1>1
<1> QED BY <1>2, Invariance, PTL DEF Spec, VoidedIsFinal

\* A phone one customer has is not sold to another before it has come back: two tills that ring up
\* the same IMEI cannot both commit.
THEOREM SoldFromStock == Spec => SerialSoldFromStock
<1>1. ASSUME IInv, [Next]_vars, NEW x \in Serials, holder[x] # Shop
      PROVE  holder'[x] \in {holder[x], Shop}
  <2> DEFINE P == holder'[x] \in {holder[x], Shop}
  <2>1. ASSUME NEW xs, holder' = FreeSerials(xs)
        PROVE  P
    BY <2>1 DEF FreeSerials
  <2>2. ASSUME NEW r \in Requests, CommitCreate(r)
        PROVE  P
    BY <1>1, <2>2, CreatedBill DEF SerialsFree
  <2>3. ASSUME NEW r \in Requests, CommitRefund(r) \/ CommitExchange(r)
        PROVE  P
    BY <1>1, <2>1, <2>3, ReturnedBill
  <2>4. ASSUME NEW r \in Requests, CommitMethod(r)
        PROVE  P
    BY <1>1, <2>4, MethodBill
  <2>5. ASSUME NEW r \in Requests, CommitVoid(r)
        PROVE  P
    BY <1>1, <2>1, <2>5, VoidedBill
  <2>6. sale' = sale /\ holder' = holder => P
    OBVIOUS
  <2> HIDE DEF P
  <2>7. P
    BY <1>1, <2>2, <2>3, <2>4, <2>5, <2>6, ByTransaction
  <2> QED BY <2>7 DEF P
<1>2. IInv /\ [Next]_vars => [\A x \in Serials : holder[x] # Shop => holder'[x] \in {holder[x], Shop}]_vars
  BY <1>1
<1> QED BY <1>2, Invariance, PTL DEF Spec, SerialSoldFromStock

-----------------------------------------------------------------------------
(* SaleBill implements BillLifecycle                                       *)

\* The fields of a bill that BillLifecycle tells apart
SameGoods(b, c) ==
  c.qty = b.qty /\ c.back = b.back /\ c.total = b.total /\ c.paidBack = b.paidBack

\* What a step may make of bill b
BillStep(b, c) ==
  \/ c.status = b.status /\ SameGoods(b, c)
  \/ b = NoBill /\ c \in Bill /\ c.status = "COMPLETED" /\ c.back = None /\ RefundTotal(c) = 0
  \/ b.status # "NONE" /\ \E m \in ReturnRequest : ValidRefund(b, m) /\ c = Refunded(b, m)
  \/ b.status # "NONE" /\ c.status = "VOIDED" /\ SameGoods(b, c)

\* Every bill takes one of those steps with each step of the shop.
LEMMA EveryBillSteps ==
  ASSUME IInv, [Next]_vars
  PROVE  \A s \in Sales : BillStep(sale[s], sale'[s])
<1>1. ASSUME sale' = sale
      PROVE  \A s \in Sales : BillStep(sale[s], sale'[s])
  BY <1>1 DEF BillStep, SameGoods
<1>2. ASSUME NEW r \in Requests, CommitCreate(r)
      PROVE  \A s \in Sales : BillStep(sale[s], sale'[s])
  <2> DEFINE m == req[r]
             bill == NewBill(m, m.qty, m.legs, Lacking(m.qty, m.picks))
  <2>1. PICK s \in Sales : sale[s] = NoBill /\ sale' = [sale EXCEPT ![s] = bill]
    BY <1>2 DEF CommitCreate
  <2>2. m \in CreateRequest /\ SerialsNamed(m.qty, m.picks)
    BY <1>2 DEF CommitCreate, IInv, TypeOK, Asked, Request, Idle, ReturnRequest, MethodRequest, VoidRequest
  <2>3. /\ m.qty \in Quantities /\ m.total \in Nat /\ m.legs \in SUBSET Leg /\ m.shift \in Nat
        /\ m.cashCounted \in BOOLEAN /\ Lacking(m.qty, m.picks) \in Quantities
    BY <2>2, LackingType DEF CreateRequest
  <2>4. bill \in Bill
    BY <2>3, NewBillType DEF NewBill
  <2>5. /\ bill.status = "COMPLETED" /\ bill.back = None
        /\ bill.paidBack = [y \in Methods |-> 0]
    BY DEF NewBill
  <2> HIDE DEF bill
  <2>6. RefundTotal(bill) = 0
    BY <2>5 DEF RefundTotal, Methods
  <2>7. \A x \in Sales : sale'[x] = IF x = s THEN bill ELSE sale[x]
    BY <2>1 DEF IInv, TypeOK
  <2> QED BY <2>1, <2>4, <2>5, <2>6, <2>7 DEF BillStep, SameGoods
<1>3. ASSUME NEW r \in Requests, CommitRefund(r)
      PROVE  \A s \in Sales : BillStep(sale[s], sale'[s])
  <2> DEFINE m == req[r]
             c == Refunded(sale[m.sale], m)
  <2>1. /\ m \in ReturnRequest /\ m.sale \in Sales /\ sale[m.sale].status # "NONE"
        /\ ValidRefund(sale[m.sale], m) /\ sale' = [sale EXCEPT ![m.sale] = c]
    BY <1>3, ReturnAsked DEF CommitRefund
  <2> HIDE DEF c
  <2>2. \A x \in Sales : sale'[x] = IF x = m.sale THEN c ELSE sale[x]
    BY <2>1 DEF IInv, TypeOK
  <2> QED BY <2>1, <2>2 DEF BillStep, SameGoods, c
<1>4. ASSUME NEW r \in Requests, CommitExchange(r)
      PROVE  \A s \in Sales : BillStep(sale[s], sale'[s])
  <2> DEFINE m == req[r]
             c == Refunded(sale[m.sale], m)
             leg == [n |-> 1, method |-> m.method, amount |-> m.total]
             bill == NewBill(m, m.take, {leg}, m.take)
  <2>1. /\ m \in ReturnRequest /\ m.sale \in Sales /\ sale[m.sale].status # "NONE"
        /\ ValidRefund(sale[m.sale], m)
    BY <1>4, ReturnAsked DEF CommitExchange
  <2>2. PICK s \in Sales :
          sale[s] = NoBill /\ sale' = [sale EXCEPT ![m.sale] = c, ![s] = bill]
    BY <1>4 DEF CommitExchange
  <2>3. /\ m.take \in Quantities /\ m.method \in Methods
        /\ m.total \in Nat /\ m.shift \in Nat /\ m.cashCounted \in BOOLEAN
    BY <2>1 DEF ReturnRequest
  <2>4. {leg} \in SUBSET Leg
    BY <2>3, ConstantsAssumption DEF Leg
  <2> HIDE DEF leg
  <2>5. bill \in Bill
    BY <2>3, <2>4, NewBillType DEF NewBill
  <2>6. /\ bill.status = "COMPLETED" /\ bill.back = None
        /\ bill.paidBack = [y \in Methods |-> 0]
    BY DEF NewBill
  <2> HIDE DEF bill, c
  <2>7. RefundTotal(bill) = 0
    BY <2>6 DEF RefundTotal, Methods
  <2>8. s # m.sale
    BY <2>1, <2>2 DEF NoBill
  <2>9. \A x \in Sales : sale'[x] = IF x = m.sale THEN c ELSE IF x = s THEN bill ELSE sale[x]
    BY <2>1, <2>2, <2>8 DEF IInv, TypeOK
  <2>10. BillStep(sale[m.sale], sale'[m.sale])
    BY <2>1, <2>9 DEF BillStep, c
  <2>11. BillStep(sale[s], sale'[s])
    BY <2>2, <2>5, <2>6, <2>7, <2>8, <2>9 DEF BillStep
  <2> QED BY <2>9, <2>10, <2>11 DEF BillStep, SameGoods
<1>5. ASSUME NEW r \in Requests, CommitMethod(r)
      PROVE  \A s \in Sales : BillStep(sale[s], sale'[s])
  <2> DEFINE m == req[r]
             leg == [n |-> m.leg.n + 1, method |-> m.method, amount |-> sale[m.sale].total]
             legs == (sale[m.sale].legs \ {m.leg}) \cup {leg}
             c == [sale[m.sale] EXCEPT !.legs = legs]
  <2>1. sale' = [sale EXCEPT ![m.sale] = c]
    BY <1>5 DEF CommitMethod
  <2> HIDE DEF legs
  <2>2. m \in MethodRequest
    BY <1>5 DEF CommitMethod, IInv, TypeOK, Request, Idle, CreateRequest, ReturnRequest, VoidRequest
  <2>3. sale[m.sale] \in Bill
    BY <2>2 DEF IInv, TypeOK, MethodRequest
  <2>4. c.status = sale[m.sale].status /\ SameGoods(sale[m.sale], c)
    BY <2>3 DEF SameGoods, Bill
  <2> HIDE DEF c
  <2>5. \A x \in Sales : sale'[x] = IF x = m.sale THEN c ELSE sale[x]
    BY <2>1 DEF IInv, TypeOK
  <2> QED BY <2>4, <2>5 DEF BillStep, SameGoods
<1>6. ASSUME NEW r \in Requests, CommitVoid(r)
      PROVE  \A s \in Sales : BillStep(sale[s], sale'[s])
  <2> DEFINE m == req[r]
             c == [sale[m.sale] EXCEPT !.status = "VOIDED"]
  <2>1. sale' = [sale EXCEPT ![m.sale] = c]
    BY <1>6 DEF CommitVoid
  <2>2. m \in VoidRequest /\ Asked(m)
    BY <1>6 DEF CommitVoid, IInv, TypeOK, Request, Idle, CreateRequest, ReturnRequest, MethodRequest
  <2>3. sale[m.sale] \in Bill /\ sale[m.sale].status # "NONE"
    BY <2>2 DEF IInv, TypeOK, VoidRequest, Asked, OnBill
  <2>4. c.status = "VOIDED" /\ SameGoods(sale[m.sale], c)
    BY <2>3 DEF SameGoods, Bill
  <2> HIDE DEF c
  <2>5. \A x \in Sales : sale'[x] = IF x = m.sale THEN c ELSE sale[x]
    BY <2>1 DEF IInv, TypeOK
  <2> QED BY <2>3, <2>4, <2>5 DEF BillStep, SameGoods
<1>7. ASSUME NEW r \in Requests,
             \/ AskCreate(r) \/ AskRefund(r) \/ AskExchange(r)
             \/ AskMethod(r) \/ AskVoid(r) \/ ClaimMethod(r) \/ Abort(r)
      PROVE  sale' = sale
  BY <1>7 DEF AskCreate, AskRefund, AskExchange, AskReturn, AskMethod, AskVoid, Ask, ClaimMethod, Abort
<1>8. ASSUME OpenShift \/ CloseShift \/ UNCHANGED vars
      PROVE  sale' = sale
  BY <1>8 DEF OpenShift, CloseShift, vars
<1> QED BY <1>1, <1>2, <1>3, <1>4, <1>5, <1>6, <1>7, <1>8 DEF Next

\* Units and money of a bill, as BillLifecycle sees them.
LEMMA BillNumbers ==
  ASSUME NEW b \in Bill, BillOK(b)
  PROVE  /\ Minus(b.qty, b.back) \in [Products -> Nat]
         /\ b.total - RefundTotal(b) \in Nat
<1>1. b.qty \in Quantities /\ b.back \in Quantities /\ \A p \in Products : b.back[p] <= b.qty[p]
  BY DEF Bill, BillOK
<1>2. \A p \in Products : b.qty[p] - b.back[p] \in Nat
  BY <1>1 DEF Quantities
<1>3. b.total \in Nat /\ RefundTotal(b) \in Nat /\ RefundTotal(b) <= b.total
  BY DEF Bill, BillOK, RefundTotal, Methods
<1> QED BY <1>2, <1>3 DEF Minus

\* What a bill's step means to BillLifecycle.
LEMMA BillStepKeeps ==
  ASSUME NEW b \in Bill, BillOK(b), NEW c \in Bill, BillOK(c), BillStep(b, c)
  PROVE  LET o == Minus(b.qty, b.back)
             n == Minus(c.qty, c.back)
             x == b.total - RefundTotal(b)
             y == c.total - RefundTotal(c)
         IN  \/ c.status = b.status /\ n = o /\ y = x
             \/ b.status = "NONE" /\ c.status = "COMPLETED"
             \/ /\ b.status \in {"COMPLETED", "PARTIAL_REFUND"}
                /\ \A p \in Products : n[p] <= o[p]
                /\ y \in 0..x
                /\ c.status = IF n = None THEN "REFUNDED" ELSE "PARTIAL_REFUND"
             \/ /\ b.status \in {"COMPLETED", "PARTIAL_REFUND", "REFUNDED"}
                /\ c.status = "VOIDED" /\ n = o /\ y = x
<1> DEFINE o == Minus(b.qty, b.back)
           n == Minus(c.qty, c.back)
           x == b.total - RefundTotal(b)
           y == c.total - RefundTotal(c)
<1>1. b.status \in Statuses
  BY DEF Bill
<1>2. ASSUME SameGoods(b, c)
      PROVE  n = o /\ y = x
  BY <1>2 DEF SameGoods, RefundTotal
<1>3. ASSUME b.status # "NONE", NEW m \in ReturnRequest, ValidRefund(b, m), c = Refunded(b, m)
      PROVE  /\ b.status \in {"COMPLETED", "PARTIAL_REFUND"}
             /\ \A p \in Products : n[p] <= o[p]
             /\ y \in 0..x
             /\ c.status = IF n = None THEN "REFUNDED" ELSE "PARTIAL_REFUND"
  <2>1. /\ c.status = IF c.back = c.qty THEN "REFUNDED" ELSE "PARTIAL_REFUND"
        /\ c.qty = b.qty /\ c.total = b.total /\ c.back = Plus(b.back, m.give)
        /\ RefundTotal(c) = RefundTotal(b) + m.amount
    BY <1>3, RefundedOK
  <2>2. b.status \in {"COMPLETED", "PARTIAL_REFUND"}
    BY <1>1, <1>3 DEF ValidRefund, Statuses
  <2>3. m.give \in Quantities /\ m.amount \in Nat
    BY <1>3 DEF ReturnRequest
  <2>4. b.qty \in Quantities /\ b.back \in Quantities /\ c.back \in Quantities
    BY DEF Bill
  <2>5. \A p \in Products : o[p] = b.qty[p] - b.back[p] /\ n[p] = b.qty[p] - (b.back[p] + m.give[p])
    BY <2>1 DEF Minus, Plus
  <2>6. \A p \in Products : n[p] <= o[p]
    BY <2>3, <2>4, <2>5 DEF Quantities
  <2>7. x \in Nat /\ y \in Nat
    BY BillNumbers
  <2>8. b.total \in Nat /\ RefundTotal(b) \in Int
    BY DEF Bill, RefundTotal, Methods
  <2>9. y \in 0..x
    BY <2>1, <2>3, <2>7, <2>8
  <2>10. n = None <=> c.back = c.qty
    <3>1. n = None <=> \A p \in Products : b.qty[p] - c.back[p] = 0
      BY <2>1 DEF Minus, None
    <3>2. \A p \in Products : b.qty[p] - c.back[p] = 0 <=> b.qty[p] = c.back[p]
      <4> TAKE p \in Products
      <4>1. b.qty[p] \in Int /\ c.back[p] \in Int
        BY <2>4 DEF Quantities
      <4> QED BY <4>1
    <3>3. c.back = c.qty <=> \A p \in Products : b.qty[p] = c.back[p]
      BY <2>1, <2>4 DEF Quantities
    <3> QED BY <3>1, <3>2, <3>3
  <2> QED BY <2>1, <2>2, <2>6, <2>9, <2>10
<1>4. b = NoBill => b.status = "NONE"
  BY DEF NoBill
<1>5. b.status # "NONE" /\ b.status # "VOIDED" =>
        b.status \in {"COMPLETED", "PARTIAL_REFUND", "REFUNDED"}
  BY <1>1 DEF Statuses
<1> HIDE DEF o, n, x, y
<1>6. CASE c.status = b.status /\ SameGoods(b, c)
  BY <1>2, <1>6 DEF o, n, x, y
<1>7. CASE b = NoBill /\ c.status = "COMPLETED"
  BY <1>4, <1>7
<1>8. CASE b.status # "NONE" /\ \E m \in ReturnRequest : ValidRefund(b, m) /\ c = Refunded(b, m)
  BY <1>3, <1>8 DEF o, n, x, y
<1>9. CASE b.status # "NONE" /\ c.status = "VOIDED" /\ SameGoods(b, c)
  BY <1>2, <1>5, <1>9 DEF o, n, x, y
<1> QED BY <1>6, <1>7, <1>8, <1>9 DEF BillStep

\* For any shop and any number of requests, every behaviour of SaleBill is one BillLifecycle allows:
\* units out and money left only shrink, REFUNDED means all is back, VOIDED is for good.
THEOREM Implements == Spec => KeepsPromise
<1>1. Init => Bills!Init
  <2> SUFFICES ASSUME Init
               PROVE  Bills!Init
    OBVIOUS
  <2>1. \A s \in Sales : sale[s] = NoBill
    BY DEF Init
  <2>2. NoBill.status = "NONE" /\ NoBill.total - RefundTotal(NoBill) = 0
    BY DEF NoBill, RefundTotal, Methods
  <2>3. Minus(NoBill.qty, NoBill.back) = [p \in Products |-> 0]
    BY DEF NoBill, Minus, None
  <2> QED BY <2>1, <2>2, <2>3 DEF Bills!Init, Bills!Nothing, Out
<1>2. IInv /\ IInv' /\ [Next]_vars => [Bills!Next]_Bills!vars
  <2> SUFFICES ASSUME IInv, IInv', [Next]_vars
               PROVE  Bills!Next
    OBVIOUS
  <2> SUFFICES ASSUME NEW s \in Sales
               PROVE  Bills!Stay(s) \/ Bills!Sell(s) \/ Bills!TakeBack(s) \/ Bills!Cancel(s)
    BY DEF Bills!Next
  <2> DEFINE b == sale[s]
             c == sale'[s]
             o == Minus(b.qty, b.back)
             n == Minus(c.qty, c.back)
             x == b.total - RefundTotal(b)
             y == c.total - RefundTotal(c)
  <2>1. b \in Bill /\ c \in Bill /\ BillOK(b) /\ BillOK(c) /\ BillStep(b, c)
    BY EveryBillSteps DEF IInv, TypeOK, BillOK, RefundTotal
  <2>2. n \in [Products -> Nat] /\ y \in Nat
    BY <2>1, BillNumbers
  <2>3. \/ c.status = b.status /\ n = o /\ y = x
        \/ b.status = "NONE" /\ c.status = "COMPLETED"
        \/ /\ b.status \in {"COMPLETED", "PARTIAL_REFUND"}
           /\ \A p \in Products : n[p] <= o[p]
           /\ y \in 0..x
           /\ c.status = IF n = None THEN "REFUNDED" ELSE "PARTIAL_REFUND"
        \/ /\ b.status \in {"COMPLETED", "PARTIAL_REFUND", "REFUNDED"}
           /\ c.status = "VOIDED" /\ n = o /\ y = x
    BY <2>1, BillStepKeeps
  <2>4. /\ [z \in Sales |-> sale[z].status][s] = b.status
        /\ [z \in Sales |-> sale[z].status]'[s] = c.status
        /\ [z \in Sales |-> Out(z)][s] = o
        /\ [z \in Sales |-> Out(z)]'[s] = n
        /\ [z \in Sales |-> sale[z].total - RefundTotal(sale[z])][s] = x
        /\ [z \in Sales |-> sale[z].total - RefundTotal(sale[z])]'[s] = y
    BY DEF Out, RefundTotal, Minus
  <2> HIDE DEF b, c, o, n, x, y
  <2>5. Bills!Nothing = None
    BY DEF Bills!Nothing, None
  <2> QED BY <2>2, <2>3, <2>4, <2>5 DEF Bills!Stay, Bills!Sell, Bills!TakeBack, Bills!Cancel
<1> QED BY <1>1, <1>2, Invariance, PTL DEF Spec, KeepsPromise, Bills!Spec
=============================================================================
