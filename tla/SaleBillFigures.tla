---------------------------- MODULE SaleBillFigures ----------------------------
(***************************************************************************)
(* Proofs about the figures of SaleBill: the money the ledger shows for a  *)
(* bill, the serials that follow its units, and the stock.  They rest on   *)
(* IInv of SaleBillProofs and on the sums of SumTheorems.                  *)
(***************************************************************************)
EXTENDS SaleBillProofs, SumTheorems

\* Rows with amounts that can be added up
Priced(E) == IsFiniteSet(E) /\ \A e \in E : e.amount \in Nat

\* What entries E put into the drawer, or take out, by one payment method
Moved(E, m, dir) == Total({e \in E : e.method = m /\ e.dir = dir})

\* What legs L come to, by one payment method
PaidBy(L, m) == Total({l \in L : l.method = m})

OwedBy(b, m) == IF b.cashCounted /\ m = "CASH" THEN 0 ELSE PaidBy(b.legs, m)

Alive(b) == b.status \notin {"NONE", "VOIDED"}

\* The next entry of bill b has a key of its own: refunds are numbered, and a bill that is paid one
\* way has had its earlier payments under lower numbers
KeysFit(b, E) ==
  /\ \A e \in E : e.src # "SALE_REFUND" /\ (e.src = "SALE_PAYMENT" <=> e.dir = "IN")
  /\ \A e \in E : e.src = "REFUND" => e.n <= b.refunds
  /\ \A e \in E, l \in b.legs : b.legs = {l} =>
       /\ e.src = "SALE_PAYMENT" => e.n <= l.n
       /\ e.src = "REVERSAL" => e.n < l.n

Balanced(b, E) ==
  /\ Total(b.legs) = b.total
  /\ \A m \in Methods : Moved(E, m, "IN") - Moved(E, m, "OUT") = OwedBy(b, m) - b.paidBack[m]

\* Bill b and its ledger entries E fit
BillFits(b, E) ==
  /\ IsFiniteSet(b.legs)
  /\ b.status = "NONE" => E = {}
  /\ Alive(b) => KeysFit(b, E) /\ Balanced(b, E)

-----------------------------------------------------------------------------
(* Sums over ledger entries                                                *)

LEMMA TotalIs == ASSUME NEW P PROVE Total(P) = SumAmounts(P)
BY DEF Total, SumAmounts

\* A part of priced rows is priced, and so is the union of two.
LEMMA PricedParts ==
  ASSUME NEW E, Priced(E), NEW F, Priced(F)
  PROVE  /\ Priced(E \cup F) /\ \A S \in SUBSET E : Priced(S)
         /\ Total(E) \in Nat /\ Total(F) \in Nat
<1>1. Priced(E \cup F)
  BY FS_Union DEF Priced
<1>2. \A S \in SUBSET E : Priced(S)
  BY FS_Subset DEF Priced
<1>3. Total(E) \in Nat /\ Total(F) \in Nat
  BY TotalIs, AmountsNat DEF Priced
<1> QED BY <1>1, <1>2, <1>3

\* Entries without a common one move what each of them moves.
LEMMA MovedTogether ==
  ASSUME NEW E, Priced(E), NEW F, Priced(F), E \cap F = {}, NEW m, NEW dir
  PROVE  /\ Moved(E \cup F, m, dir) = Moved(E, m, dir) + Moved(F, m, dir)
         /\ Moved(E, m, dir) \in Nat /\ Moved(F, m, dir) \in Nat
<1> DEFINE A == {e \in E : e.method = m /\ e.dir = dir}
           B == {e \in F : e.method = m /\ e.dir = dir}
<1>1. Priced(A) /\ Priced(B) /\ A \cap B = {} /\ {e \in E \cup F : e.method = m /\ e.dir = dir} = A \cup B
  BY PricedParts
<1> HIDE DEF A, B
<1>2. SumAmounts(A \cup B) = SumAmounts(A) + SumAmounts(B)
  BY <1>1, AmountsDisjoint DEF Priced
<1>3. SumAmounts(A) \in Nat /\ SumAmounts(B) \in Nat
  BY <1>1, AmountsNat DEF Priced
<1>4. Moved(E, m, dir) = SumAmounts(A) /\ Moved(F, m, dir) = SumAmounts(B)
  BY TotalIs DEF Moved, A, B
<1>5. Moved(E \cup F, m, dir) = SumAmounts(A \cup B)
  BY <1>1, TotalIs DEF Moved
<1> QED BY <1>2, <1>3, <1>4, <1>5

LEMMA MovedWhole ==
  ASSUME NEW E, NEW F, Priced(E) /\ Priced(F) /\ E \cap F = {}, NEW m
  PROVE  /\ Moved(E \cup F, m, "IN") = Moved(E, m, "IN") + Moved(F, m, "IN")
         /\ Moved(E \cup F, m, "OUT") = Moved(E, m, "OUT") + Moved(F, m, "OUT")
         /\ Moved(E, m, "IN") \in Nat /\ Moved(E, m, "OUT") \in Nat
BY MovedTogether

\* The amounts of nothing and of a single row.
LEMMA TotalOfOne ==
  ASSUME NEW x, x.amount \in Nat
  PROVE  Total({}) = 0 /\ Total({x}) = x.amount
<1>1. Total({}) = 0
  BY TotalIs, AmountsEmpty
<1>2. SumAmounts({} \cup {x}) = SumAmounts({}) + x.amount
  BY AmountsWith, FS_EmptySet
<1>3. {} \cup {x} = {x}
  OBVIOUS
<1> QED BY <1>1, <1>2, <1>3, TotalIs, AmountsEmpty

LEMMA MovedByOne ==
  ASSUME NEW x, x.amount \in Nat, NEW m, NEW dir
  PROVE  Priced({x}) /\ Moved({x}, m, dir) = IF x.method = m /\ x.dir = dir THEN x.amount ELSE 0
<1>1. Priced({x})
  BY FS_Singleton DEF Priced
<1>2. CASE x.method = m /\ x.dir = dir
  <2>1. {e \in {x} : e.method = m /\ e.dir = dir} = {x}
    BY <1>2
  <2> QED BY <1>1, <1>2, <2>1, TotalOfOne DEF Moved
<1>3. CASE ~(x.method = m /\ x.dir = dir)
  <2>1. {e \in {x} : e.method = m /\ e.dir = dir} = {}
    BY <1>3
  <2> QED BY <1>1, <1>3, <2>1, TotalOfOne DEF Moved
<1> QED BY <1>2, <1>3

\* The entries of payment legs move what the legs come to, in their direction.
LEMMA MovedByLegs ==
  ASSUME NEW L, L \subseteq Leg, IsFiniteSet(L), NEW src, NEW dir, NEW s, NEW m, NEW way
  PROVE  LET E == LegEntries(src, dir, s, L) IN
         /\ Priced(E)
         /\ \A e \in E : e.src = src /\ e.dir = dir /\ e.s = s /\ \E l \in L : e.n = l.n
         /\ Moved(E, m, way) = IF way = dir THEN PaidBy(L, m) ELSE 0
<1> DEFINE E == LegEntries(src, dir, s, L)
           h == [l \in L |-> Entry(src, s, l.n, dir, l.method, l.amount)]
           P == {l \in L : l.method = m}
           k == [l \in P |-> Entry(src, s, l.n, dir, l.method, l.amount)]
           R == {e \in E : e.method = m /\ e.dir = way}
<1>1. \A l \in L : l.amount \in Nat /\ l = [n |-> l.n, method |-> l.method, amount |-> l.amount]
  BY DEF Leg
<1>2. \A l \in L : /\ h[l].src = src /\ h[l].s = s /\ h[l].n = l.n /\ h[l].dir = dir
                   /\ h[l].method = l.method /\ h[l].amount = l.amount
  BY DEF Entry
<1>3. h = [l \in L |-> h[l]] /\ E = {h[l] : l \in L}
  BY DEF LegEntries
<1>4. k = [l \in P |-> k[l]] /\ \A l \in P : k[l] = h[l]
  OBVIOUS
<1> HIDE DEF E, h, k
<1>5. IsFiniteSet(E)
  BY <1>3, ImageFinite
<1>6. Priced(E)
  BY <1>1, <1>2, <1>3, <1>5 DEF Priced
<1>7. \A e \in E : e.src = src /\ e.dir = dir /\ e.s = s /\ \E l \in L : e.n = l.n
  BY <1>2, <1>3
<1>8. CASE way = dir
  <2>1. R = {k[l] : l \in P}
    <3>1. ASSUME NEW e \in R
          PROVE  e \in {k[l] : l \in P}
      <4>1. PICK l \in L : e = h[l]
        BY <1>3
      <4>2. l \in P
        BY <1>2, <4>1
      <4> QED BY <1>4, <4>1, <4>2
    <3>2. ASSUME NEW l \in P
          PROVE  k[l] \in R
      <4>1. k[l] = h[l] /\ h[l] \in E
        BY <1>3, <1>4
      <4> QED BY <1>2, <1>8, <4>1
    <3> HIDE DEF R, P
    <3> QED BY <3>1, <3>2
  <2>2. ASSUME NEW l \in P, NEW j \in P, k[l] = k[j]
        PROVE  l = j
    <3>1. l \in L /\ j \in L /\ h[l] = h[j]
      BY <1>4, <2>2
    <3>2. l.n = j.n /\ l.method = j.method /\ l.amount = j.amount
      BY <1>2, <3>1
    <3> QED BY <1>1, <3>1, <3>2
  <2>3. IsFiniteSet(P) /\ \A l \in P : l.amount \in Nat /\ k[l].amount = l.amount
    BY <1>1, <1>2, <1>4, FS_Subset
  <2> HIDE DEF P, R
  <2>4. SumAmounts(R) = SumAmounts(P)
    BY <1>4, <2>1, <2>2, <2>3, AmountsImage
  <2> QED BY <1>6, <1>7, <1>8, <2>4, TotalIs DEF Moved, PaidBy, E, R, P
<1>9. CASE way # dir
  <2>1. R = {}
    BY <1>7, <1>9
  <2>2. Moved(E, m, way) = 0
    BY <2>1, TotalIs, AmountsEmpty DEF Moved
  <2> QED BY <1>6, <1>7, <1>9, <2>2 DEF E
<1> QED BY <1>8, <1>9

\* The legs kept of a tender come to the total of the bill.
LEMMA AppliedLegsTotal ==
  ASSUME NEW t \in Tenders, NEW total \in Nat, total <= Paid(t)
  PROVE  IsFiniteSet(AppliedLegs(t, total)) /\ Total(AppliedLegs(t, total)) = total
<1> DEFINE legs == AppliedLegs(t, total)
           cash == Amount(t, "CASH")
           transfer == Amount(t, "TRANSFER")
           change == Paid(t) - total
           off == IF change < cash THEN change ELSE cash
           one == [n |-> 1, method |-> "CASH", amount |-> cash - off]
           two == [n |-> 2, method |-> "TRANSFER", amount |-> transfer - (change - off)]
<1>1. DOMAIN t \subseteq {"CASH", "TRANSFER"} /\ t \in [DOMAIN t -> Nat]
  BY ConstantsAssumption
<1>2. /\ cash \in Nat /\ transfer \in Nat /\ ("CASH" \notin DOMAIN t => cash = 0)
      /\ ("TRANSFER" \notin DOMAIN t => transfer = 0)
      /\ ("CASH" \in DOMAIN t => t["CASH"] = cash) /\ ("TRANSFER" \in DOMAIN t => t["TRANSFER"] = transfer)
  <2>1. CASE "CASH" \in DOMAIN t /\ "TRANSFER" \in DOMAIN t
    BY <1>1, <2>1 DEF Amount
  <2>2. CASE "CASH" \in DOMAIN t /\ "TRANSFER" \notin DOMAIN t
    BY <1>1, <2>2 DEF Amount
  <2>3. CASE "CASH" \notin DOMAIN t /\ "TRANSFER" \in DOMAIN t
    BY <1>1, <2>3 DEF Amount
  <2>4. CASE "CASH" \notin DOMAIN t /\ "TRANSFER" \notin DOMAIN t
    BY <1>1, <2>4 DEF Amount
  <2> QED BY <2>1, <2>2, <2>3, <2>4
<1>3. change = cash + transfer - total /\ change \in Nat
  BY <1>2 DEF Paid
<1> HIDE DEF cash, transfer, change
<1> DEFINE a == cash - off
           b == transfer - (change - off)
<1>4. a \in Nat /\ b \in Nat /\ a + b = total
  BY <1>2, <1>3
<1>5. ("CASH" \notin DOMAIN t => a = 0) /\ ("TRANSFER" \notin DOMAIN t => b = 0)
  BY <1>2, <1>3, <1>4
<1> DEFINE kept == [m \in DOMAIN t |-> IF m = "CASH" THEN t[m] - off ELSE t[m] - (change - off)]
           D == {x \in DOMAIN t : change = 0 \/ kept[x] > 0}
           k == [m \in D |-> [n |-> IF m = "CASH" THEN 1 ELSE 2, method |-> m, amount |-> kept[m]]]
<1>6. legs = {k[m] : m \in D}
  BY DEF AppliedLegs, cash, change
<1>7. ("CASH" \in DOMAIN t => kept["CASH"] = a) /\ ("TRANSFER" \in DOMAIN t => kept["TRANSFER"] = b)
  BY <1>2
<1>8. /\ "CASH" \in D => k["CASH"] = one
      /\ "TRANSFER" \in D => k["TRANSFER"] = two
      /\ D \subseteq {"CASH", "TRANSFER"}
      /\ "CASH" \notin D => a = 0
      /\ "TRANSFER" \notin D => b = 0
  <2>1. D \subseteq {"CASH", "TRANSFER"}
    BY <1>1
  <2>2. "CASH" \in D => k["CASH"] = one
    BY <1>7
  <2>3. "TRANSFER" \in D => k["TRANSFER"] = two
    BY <1>7
  <2>4. "CASH" \notin D => a = 0
    BY <1>4, <1>5, <1>7
  <2>5. "TRANSFER" \notin D => b = 0
    BY <1>4, <1>5, <1>7
  <2> QED BY <2>1, <2>2, <2>3, <2>4, <2>5
<1>9. one.amount = a /\ two.amount = b /\ one # two
  OBVIOUS
<1> HIDE DEF legs, one, two, a, b, D, k
<1>10. Total({}) = 0 /\ Total({one}) = a /\ Total({two}) = b /\ Total({one, two}) = total
  <2>1. Total({}) = 0 /\ Total({one}) = a /\ Total({two}) = b
    BY <1>4, <1>9, TotalOfOne
  <2>2. SumAmounts({one} \cup {two}) = SumAmounts({one}) + two.amount
    BY <1>4, <1>9, AmountsWith, FS_Singleton
  <2>3. {one} \cup {two} = {one, two}
    OBVIOUS
  <2> QED BY <1>4, <1>9, <2>1, <2>2, <2>3, TotalIs
<1>11. IsFiniteSet({one}) /\ IsFiniteSet({two}) /\ IsFiniteSet({one, two}) /\ IsFiniteSet({})
  <2>1. IsFiniteSet({one}) /\ IsFiniteSet({two}) /\ IsFiniteSet({})
    BY FS_Singleton, FS_EmptySet
  <2>2. {one, two} = {one} \cup {two}
    OBVIOUS
  <2> QED BY <2>1, <2>2, FS_AddElement
<1> SUFFICES IsFiniteSet(legs) /\ Total(legs) = total
  BY DEF legs
<1>12. CASE "CASH" \in D /\ "TRANSFER" \in D
  <2>0. D = {"CASH", "TRANSFER"}
    BY <1>8, <1>12
  <2>1. legs = {one, two}
    BY <1>6, <1>8, <2>0
  <2> QED BY <1>10, <1>11, <2>1
<1>13. CASE "CASH" \in D /\ "TRANSFER" \notin D
  <2>0. D = {"CASH"}
    BY <1>8, <1>13
  <2>1. legs = {one}
    BY <1>6, <1>8, <2>0
  <2> QED BY <1>4, <1>8, <1>10, <1>13, <1>11, <2>1
<1>14. CASE "CASH" \notin D /\ "TRANSFER" \in D
  <2>0. D = {"TRANSFER"}
    BY <1>8, <1>14
  <2>1. legs = {two}
    BY <1>6, <1>8, <2>0
  <2> QED BY <1>4, <1>8, <1>10, <1>14, <1>11, <2>1
<1>15. CASE "CASH" \notin D /\ "TRANSFER" \notin D
  <2>0. D = {}
    BY <1>8, <1>15
  <2>1. legs = {}
    BY <1>6, <2>0
  <2> QED BY <1>4, <1>8, <1>10, <1>15, <1>11, <2>1
<1> QED BY <1>12, <1>13, <1>14, <1>15

-----------------------------------------------------------------------------
(* One bill and its entries, transaction by transaction                    *)

\* What the legs of a bill come to is a number.
LEMMA PaidByNat ==
  ASSUME NEW L \in SUBSET Leg, IsFiniteSet(L), NEW m
  PROVE  PaidBy(L, m) \in Nat
<1> DEFINE A == {l \in L : l.method = m}
<1>1. IsFiniteSet(A) /\ \A l \in A : l.amount \in Nat
  BY FS_Subset DEF Leg
<1> HIDE DEF A
<1>2. Total(A) \in Nat
  BY <1>1, AmountsNat, TotalIs
<1> QED BY <1>2 DEF PaidBy, A

LEMMA PaidByOne ==
  ASSUME NEW l \in Leg, NEW m
  PROVE  PaidBy({l}, m) = IF m = l.method THEN l.amount ELSE 0
<1>1. l.amount \in Nat
  BY DEF Leg
<1>2. CASE m = l.method
  <2>1. {k \in {l} : k.method = m} = {l}
    BY <1>2
  <2> QED BY <1>1, <1>2, <2>1, TotalOfOne DEF PaidBy
<1>3. CASE m # l.method
  <2>1. {k \in {l} : k.method = m} = {}
    BY <1>3
  <2> QED BY <1>1, <1>3, <2>1, TotalOfOne DEF PaidBy
<1> QED BY <1>2, <1>3

\* A new bill: every payment that is counted has its entry, and nothing else has.
LEMMA NewBillFits ==
  ASSUME NEW b \in Bill, b.status = "COMPLETED", b.paidBack = [y \in Methods |-> 0],
         IsFiniteSet(b.legs), Total(b.legs) = b.total, NEW s
  PROVE  BillFits(b, LegEntries("SALE_PAYMENT", "IN", s, CountedLegs(b)))
<1> DEFINE L == CountedLegs(b)
           E == LegEntries("SALE_PAYMENT", "IN", s, L)
<1>1. b.legs \subseteq Leg /\ L \subseteq b.legs /\ L \subseteq Leg /\ IsFiniteSet(L)
  BY FS_Subset DEF Bill, CountedLegs
<1>2. ASSUME NEW m \in Methods
      PROVE  PaidBy(L, m) = OwedBy(b, m) /\ OwedBy(b, m) \in Nat
  <2>1. CASE b.cashCounted /\ m = "CASH"
    <3>1. {l \in L : l.method = m} = {}
      BY <2>1 DEF CountedLegs
    <3> QED BY <2>1, <3>1, TotalIs, AmountsEmpty DEF PaidBy, OwedBy
  <2>2. CASE ~(b.cashCounted /\ m = "CASH")
    <3>1. {l \in L : l.method = m} = {l \in b.legs : l.method = m}
      BY <2>2 DEF CountedLegs
    <3>2. PaidBy(b.legs, m) \in Nat
      BY <1>1, PaidByNat
    <3> QED BY <2>2, <3>1, <3>2 DEF PaidBy, OwedBy
  <2> QED BY <2>1, <2>2
<1> HIDE DEF L
<1>3. \A e \in E : e.src = "SALE_PAYMENT" /\ e.dir = "IN" /\ e.s = s /\ \E l \in L : e.n = l.n
  BY DEF LegEntries, Entry
<1>4. ASSUME NEW m \in Methods PROVE Moved(E, m, "IN") = PaidBy(L, m)
  BY <1>1, MovedByLegs
<1>5. ASSUME NEW m \in Methods PROVE Moved(E, m, "OUT") = 0
  BY <1>1, MovedByLegs
<1> HIDE DEF E
<1>6. KeysFit(b, E)
  <2>1. ASSUME NEW e \in E, NEW l \in b.legs, b.legs = {l}
        PROVE  e.n <= l.n
    <3>1. e.n = l.n /\ l.n \in Nat
      BY <1>1, <1>3, <2>1, ConstantsAssumption DEF Leg
    <3> QED BY <3>1
  <2> QED BY <1>3, <2>1 DEF KeysFit
<1>7. ASSUME NEW m \in Methods
      PROVE  Moved(E, m, "IN") - Moved(E, m, "OUT") = OwedBy(b, m) - b.paidBack[m]
  <2>1. b.paidBack[m] = 0
    OBVIOUS
  <2>2. Moved(E, m, "IN") = OwedBy(b, m) /\ Moved(E, m, "OUT") = 0 /\ OwedBy(b, m) \in Nat
    BY <1>2, <1>4, <1>5
  <2> QED BY <2>1, <2>2
<1>8. BillFits(b, E)
  BY <1>6, <1>7 DEF BillFits, Balanced, Alive
<1> QED BY <1>8 DEF E, L

\* A refund: its entry has a number no refund of the bill has had, and takes out what is paid back.
LEMMA RefundFits ==
  ASSUME NEW b \in Bill, NEW m \in ReturnRequest, NEW E \in SUBSET LedgerEntry, Priced(E),
         BillFits(b, E), Alive(b), NEW s, NEW x,
         x = Entry("REFUND", s, b.refunds + 1, "OUT", m.method, m.amount), NEW U, U = E \cup {x}
  PROVE  /\ \A e \in E : ~(e.src = x.src /\ e.n = x.n)
         /\ BillFits(Refunded(b, m), U)
<1> DEFINE c == Refunded(b, m)
           paid == [b.paidBack EXCEPT ![m.method] = @ + m.amount]
<1>1. /\ b.legs \subseteq Leg /\ b.refunds \in Nat /\ b.paidBack \in [Methods -> Nat]
      /\ m.method \in Methods /\ m.amount \in Nat
  BY DEF Bill, ReturnRequest
<1>2. /\ c.legs = b.legs /\ c.refunds = b.refunds + 1 /\ c.paidBack = paid /\ c.total = b.total
      /\ c.cashCounted = b.cashCounted /\ c.status \in {"REFUNDED", "PARTIAL_REFUND"}
  BY DEF Refunded, Bill
<1>3. /\ x.src = "REFUND" /\ x.n = b.refunds + 1 /\ x.dir = "OUT" /\ x.method = m.method
      /\ x.amount = m.amount
  BY DEF Entry
<1> HIDE DEF c
<1>4. KeysFit(b, E) /\ Balanced(b, E) /\ IsFiniteSet(b.legs)
  BY DEF BillFits
<1>5. \A e \in E : ~(e.src = x.src /\ e.n = x.n)
  <2> SUFFICES ASSUME NEW e \in E, e.src = "REFUND", e.n = b.refunds + 1
               PROVE  FALSE
    BY <1>3
  <2>1. b.refunds + 1 <= b.refunds
    BY <1>4 DEF KeysFit
  <2> QED BY <1>1, <2>1
<1>6. KeysFit(c, E \cup {x})
  <2>1. \A e \in E \cup {x} : e.src # "SALE_REFUND" /\ (e.src = "SALE_PAYMENT" <=> e.dir = "IN")
    BY <1>3, <1>4 DEF KeysFit
  <2>2. ASSUME NEW e \in E \cup {x}, e.src = "REFUND"
        PROVE  e.n <= c.refunds
    <3>1. CASE e = x
      BY <1>1, <1>2, <1>3, <3>1
    <3>2. CASE e \in E
      <4>1. e.n <= b.refunds /\ e.n \in Nat
        BY <1>4, <2>2, <3>2 DEF KeysFit, LedgerEntry
      <4> QED BY <1>1, <1>2, <4>1
    <3> QED BY <3>1, <3>2
  <2>3. \A e \in E \cup {x}, l \in c.legs : c.legs = {l} =>
          (e.src = "SALE_PAYMENT" => e.n <= l.n) /\ (e.src = "REVERSAL" => e.n < l.n)
    BY <1>2, <1>3, <1>4 DEF KeysFit
  <2> QED BY <2>1, <2>2, <2>3 DEF KeysFit
<1>7. Balanced(c, E \cup {x})
  <2>1. Total(c.legs) = c.total
    BY <1>2, <1>4 DEF Balanced
  <2>2. ASSUME NEW y \in Methods
        PROVE  Moved(E \cup {x}, y, "IN") - Moved(E \cup {x}, y, "OUT") = OwedBy(c, y) - c.paidBack[y]
    <3>1. E \cap {x} = {}
      BY <1>5
    <3>2. Priced({x}) /\ Moved({x}, y, "IN") = 0 /\ Moved({x}, y, "OUT") = IF y = m.method THEN m.amount ELSE 0
      <4>1. x.amount \in Nat
        BY <1>1, <1>3
      <4>2. /\ Priced({x})
            /\ Moved({x}, y, "IN") = IF x.method = y /\ x.dir = "IN" THEN x.amount ELSE 0
            /\ Moved({x}, y, "OUT") = IF x.method = y /\ x.dir = "OUT" THEN x.amount ELSE 0
        BY <4>1, MovedByOne
      <4> QED BY <1>3, <4>2
    <3>3. /\ Moved(E \cup {x}, y, "IN") = Moved(E, y, "IN") + Moved({x}, y, "IN")
          /\ Moved(E \cup {x}, y, "OUT") = Moved(E, y, "OUT") + Moved({x}, y, "OUT")
          /\ Moved(E, y, "IN") \in Nat /\ Moved(E, y, "OUT") \in Nat
      <4>1. Priced(E) /\ Priced({x}) /\ E \cap {x} = {}
        BY <3>1, <3>2
      <4> QED BY <4>1, MovedWhole
    <3>4. Moved(E, y, "IN") - Moved(E, y, "OUT") = OwedBy(b, y) - b.paidBack[y]
      BY <1>4 DEF Balanced
    <3>5. OwedBy(c, y) = OwedBy(b, y)
      BY <1>2 DEF OwedBy
    <3>6. c.paidBack[y] = IF y = m.method THEN b.paidBack[y] + m.amount ELSE b.paidBack[y]
      BY <1>1, <1>2
    <3>7. b.paidBack[y] \in Nat /\ OwedBy(b, y) \in Nat
      BY <1>1, <1>4, PaidByNat DEF OwedBy
    <3>8. CASE y = m.method
      BY <1>1, <3>2, <3>3, <3>4, <3>5, <3>6, <3>7, <3>8
    <3>9. CASE y # m.method
      BY <1>1, <3>2, <3>3, <3>4, <3>5, <3>6, <3>7, <3>9
    <3> QED BY <3>8, <3>9
  <2> QED BY <2>1, <2>2 DEF Balanced
<1>8. BillFits(c, E \cup {x})
  BY <1>2, <1>4, <1>6, <1>7 DEF BillFits
<1> QED BY <1>5, <1>8 DEF c

\* The entries of payment leg taken back from bill s, and of payment leg l taken instead
TakenBack(s, leg) == Entry("REVERSAL", s, leg.n, "OUT", leg.method, leg.amount)
NextLeg(b, leg, method) == [n |-> leg.n + 1, method |-> method, amount |-> b.total]
WithLeg(b, l) == [b EXCEPT !.legs = {l}]
TakenInstead(s, l) == Entry("SALE_PAYMENT", s, l.n, "IN", l.method, l.amount)

\* A change of payment method: the entries of the new payment, and of the old one taken back, have
\* numbers no entry of the bill has had.
LEMMA MethodFits ==
  ASSUME NEW b \in Bill, NEW leg \in Leg, b.legs = {leg}, leg.n < MaxLegs, NEW method \in Methods,
         ~b.cashCounted, NEW E \in SUBSET LedgerEntry, Priced(E), BillFits(b, E), Alive(b), NEW s
  PROVE  \A U : U = E \cup {TakenBack(s, leg), TakenInstead(s, NextLeg(b, leg, method))} =>
           /\ BillFits(WithLeg(b, NextLeg(b, leg, method)), U)
           /\ \A e \in E : /\ ~(e.src = "REVERSAL" /\ e.n = leg.n)
                          /\ ~(e.src = "SALE_PAYMENT" /\ e.n = leg.n + 1)
<1> DEFINE l == NextLeg(b, leg, method)
           x == TakenBack(s, leg)
           y == TakenInstead(s, l)
           c == WithLeg(b, l)
           U == E \cup {x, y}
<1>1. /\ leg.n \in Nat /\ leg.n >= 1 /\ leg.amount \in Nat /\ leg.method \in Methods /\ b.total \in Nat
      /\ b.paidBack \in [Methods -> Nat]
  BY ConstantsAssumption DEF Leg, Bill
<1>2. /\ c.legs = {l} /\ c.refunds = b.refunds /\ c.paidBack = b.paidBack /\ c.total = b.total
      /\ c.cashCounted = b.cashCounted /\ c.status = b.status
  BY DEF WithLeg, Bill
<1>3. /\ l.n = leg.n + 1 /\ l.method = method /\ l.amount = b.total
      /\ x.src = "REVERSAL" /\ x.n = leg.n /\ x.dir = "OUT" /\ x.method = leg.method /\ x.amount = leg.amount
      /\ y.src = "SALE_PAYMENT" /\ y.n = l.n /\ y.dir = "IN" /\ y.method = method /\ y.amount = b.total
  BY DEF TakenBack, TakenInstead, NextLeg, Entry
<1>4. l \in Leg
  <2>1. leg.n + 1 \in 1..MaxLegs
    BY <1>1, ConstantsAssumption
  <2> QED BY <1>1, <2>1 DEF NextLeg, Leg
<1> HIDE DEF l, x, y, c
<1>5. KeysFit(b, E) /\ Balanced(b, E) /\ IsFiniteSet({l})
  BY FS_Singleton DEF BillFits
<1>6. leg.amount = b.total
  <2>1. Total({leg}) = leg.amount
    BY <1>1, TotalOfOne
  <2> QED BY <1>5, <2>1 DEF Balanced
<1>7. \A e \in E : e.n \in Nat /\ (e.src = "SALE_PAYMENT" => e.n <= leg.n) /\ (e.src = "REVERSAL" => e.n < leg.n)
  BY <1>5 DEF KeysFit, LedgerEntry
<1>8. \A e \in E : ~(e.src = x.src /\ e.n = x.n) /\ ~(e.src = y.src /\ e.n = y.n)
  BY <1>1, <1>3, <1>7
<1>9. KeysFit(c, E \cup {x, y})
  <2>1. ASSUME NEW e \in E \cup {x, y}
        PROVE  /\ e.src # "SALE_REFUND" /\ (e.src = "SALE_PAYMENT" <=> e.dir = "IN")
               /\ e.src = "REFUND" => e.n <= c.refunds
    BY <1>2, <1>3, <1>5 DEF KeysFit
  <2>2. ASSUME NEW e \in E \cup {x, y}
        PROVE  (e.src = "SALE_PAYMENT" => e.n <= l.n) /\ (e.src = "REVERSAL" => e.n < l.n)
    <3>1. CASE e \in E
      BY <1>1, <1>3, <1>7, <3>1
    <3>2. CASE e = x
      BY <1>1, <1>3, <3>2
    <3>3. CASE e = y
      BY <1>1, <1>3, <3>3
    <3> QED BY <3>1, <3>2, <3>3
  <2>3. \A k \in c.legs : k = l
    BY <1>2
  <2> QED BY <2>1, <2>2, <2>3 DEF KeysFit
<1>10. Balanced(c, E \cup {x, y})
  <2>1. Total(c.legs) = c.total
    BY <1>1, <1>2, <1>3, TotalOfOne
  <2>2. ASSUME NEW z \in Methods
        PROVE  Moved(E \cup {x, y}, z, "IN") - Moved(E \cup {x, y}, z, "OUT") = OwedBy(c, z) - c.paidBack[z]
    <3>1. E \cap {x} = {} /\ (E \cup {x}) \cap {y} = {} /\ E \cup {x, y} = (E \cup {x}) \cup {y}
      BY <1>3, <1>8
    <3>2. /\ Priced({x})
          /\ Moved({x}, z, "IN") = IF x.method = z /\ x.dir = "IN" THEN x.amount ELSE 0
          /\ Moved({x}, z, "OUT") = IF x.method = z /\ x.dir = "OUT" THEN x.amount ELSE 0
      <4>1. x.amount \in Nat
        BY <1>1, <1>3
      <4> QED BY <4>1, MovedByOne
    <3>3. /\ Priced({y})
          /\ Moved({y}, z, "OUT") = IF y.method = z /\ y.dir = "OUT" THEN y.amount ELSE 0
          /\ Moved({y}, z, "IN") = IF y.method = z /\ y.dir = "IN" THEN y.amount ELSE 0
      <4>1. y.amount \in Nat
        BY <1>1, <1>3
      <4> QED BY <4>1, MovedByOne
    <3>4. Priced(E \cup {x})
      BY <3>2, PricedParts
    <3>5. /\ Moved({x}, z, "IN") = 0 /\ Moved({x}, z, "OUT") = IF z = leg.method THEN b.total ELSE 0
          /\ Moved({y}, z, "OUT") = 0 /\ Moved({y}, z, "IN") = IF z = method THEN b.total ELSE 0
      BY <1>3, <1>6, <3>2, <3>3
    <3>6. /\ Moved(E \cup {x}, z, "IN") = Moved(E, z, "IN") + Moved({x}, z, "IN")
          /\ Moved(E \cup {x}, z, "OUT") = Moved(E, z, "OUT") + Moved({x}, z, "OUT")
          /\ Moved(E, z, "IN") \in Nat /\ Moved(E, z, "OUT") \in Nat
      <4>1. Priced(E) /\ Priced({x}) /\ E \cap {x} = {}
        BY <3>1, <3>2
      <4> QED BY <4>1, MovedWhole
    <3>7. /\ Moved((E \cup {x}) \cup {y}, z, "IN") = Moved(E \cup {x}, z, "IN") + Moved({y}, z, "IN")
          /\ Moved((E \cup {x}) \cup {y}, z, "OUT") = Moved(E \cup {x}, z, "OUT") + Moved({y}, z, "OUT")
      <4> DEFINE F == E \cup {x}
                 G == {y}
      <4>1. Priced(F) /\ Priced(G) /\ F \cap G = {}
        BY <3>1, <3>3, <3>4
      <4> HIDE DEF F, G
      <4>2. /\ Moved(F \cup G, z, "IN") = Moved(F, z, "IN") + Moved(G, z, "IN")
            /\ Moved(F \cup G, z, "OUT") = Moved(F, z, "OUT") + Moved(G, z, "OUT")
        BY <4>1, MovedWhole
      <4> QED BY <4>2 DEF F, G
    <3>8. Moved(E, z, "IN") - Moved(E, z, "OUT") = OwedBy(b, z) - b.paidBack[z]
      BY <1>5 DEF Balanced
    <3>9. OwedBy(b, z) = IF z = leg.method THEN b.total ELSE 0
      BY <1>6, PaidByOne DEF OwedBy
    <3>10. OwedBy(c, z) = IF z = method THEN b.total ELSE 0
      BY <1>2, <1>3, <1>4, PaidByOne DEF OwedBy
    <3>11. c.paidBack[z] = b.paidBack[z] /\ b.paidBack[z] \in Nat
      BY <1>1, <1>2
    <3> DEFINE i == Moved(E, z, "IN")
               o == Moved(E, z, "OUT")
               old == IF z = leg.method THEN b.total ELSE 0
               new == IF z = method THEN b.total ELSE 0
    <3>12. Moved(U, z, "IN") = i + new /\ Moved(U, z, "OUT") = o + old
      <4>1. /\ Moved(U, z, "IN") = (i + 0) + new
            /\ Moved(U, z, "OUT") = (o + old) + 0
        BY <3>1, <3>5, <3>6, <3>7
      <4>2. i \in Nat /\ o \in Nat /\ old \in Nat /\ new \in Nat
        BY <1>1, <3>6
      <4> HIDE DEF i, o, old, new
      <4> QED BY <4>1, <4>2
    <3>13. i - o = old - c.paidBack[z] /\ c.paidBack[z] \in Nat /\ OwedBy(c, z) = new
      BY <3>8, <3>9, <3>10, <3>11
    <3>14. i \in Nat /\ o \in Nat /\ old \in Nat /\ new \in Nat
      BY <1>1, <3>6
    <3>15. Moved(U, z, "IN") - Moved(U, z, "OUT") = OwedBy(c, z) - c.paidBack[z]
      <4> HIDE DEF i, o, old, new
      <4> QED BY <3>12, <3>13, <3>14
    <3> QED BY <3>15
  <2> QED BY <2>1, <2>2 DEF Balanced
<1>11. BillFits(c, E \cup {x, y})
  BY <1>2, <1>5, <1>9, <1>10 DEF BillFits, Alive
<1>12. \A e \in E : ~(e.src = "REVERSAL" /\ e.n = leg.n) /\ ~(e.src = "SALE_PAYMENT" /\ e.n = leg.n + 1)
  BY <1>3, <1>8
<1> QED BY <1>11, <1>12 DEF l, x, y, c

-----------------------------------------------------------------------------
(* All bills and the ledger: an inductive invariant                        *)

EntriesOf(s) == {e \in drawer : e.s = s}

\* Shift n was opened, and is not open any more
PastShift(n) == n <= shift.no /\ ~ShiftOpen(n)

\* Bill b was paid one way, and the ledger has that payment
PaidOneWay(b) == ~b.cashCounted /\ \E l \in b.legs : b.legs = {l}

\* What a request under way may rely on, although it was read earlier: a payment is still the only
\* one of its bill and in the ledger, and a shift that was closed stays so
AskedFigures(m) ==
  /\ m.op = "create" => /\ IsFiniteSet(m.legs) /\ Total(m.legs) = m.total
                        /\ m.cashCounted => PastShift(m.shift)
  /\ m.op = "exchange" => ~m.cashCounted
  /\ m.op = "method" => PaidOneWay(sale[m.sale])
  /\ m.op = "void" => IsFiniteSet(m.legs)

BillsFit ==
  \A s \in Sales :
    /\ BillFits(sale[s], EntriesOf(s))
    /\ sale[s].cashCounted => PastShift(sale[s].shift)

Figures ==
  /\ IsFiniteSet(drawer)
  /\ BillsFit
  /\ \A r \in Requests : AskedFigures(req[r])

\* Entries with keys the ledger does not hold are all recorded.
LEMMA RecordNew ==
  ASSUME NEW L, NEW es, \A e \in es, x \in L : ~(x.src = e.src /\ x.n = e.n /\ x.s = e.s)
  PROVE  Record(L, es) = L \cup es
<1>1. ASSUME NEW e \in es, NEW x \in L
      PROVE  Key(x) # Key(e)
  <2>1. /\ Key(x).src = x.src /\ Key(x).n = x.n /\ Key(x).s = x.s
        /\ Key(e).src = e.src /\ Key(e).n = e.n /\ Key(e).s = e.s
    BY DEF Key
  <2> QED BY <2>1
<1> QED BY <1>1 DEF Record

\* Entries of the ledger are well formed, finitely many, and their amounts add up.
LEMMA EntriesType ==
  ASSUME IInv, Figures, NEW s
  PROVE  EntriesOf(s) \in SUBSET LedgerEntry /\ Priced(EntriesOf(s))
<1>1. drawer \subseteq LedgerEntry /\ IsFiniteSet(drawer)
  BY DEF IInv, TypeOK, Figures
<1>2. EntriesOf(s) \subseteq drawer
  BY DEF EntriesOf
<1>3. IsFiniteSet(EntriesOf(s))
  BY <1>1, <1>2, FS_Subset
<1>4. \A e \in EntriesOf(s) : e \in LedgerEntry /\ e.amount \in Nat
  BY <1>1, <1>2 DEF LedgerEntry
<1> QED BY <1>3, <1>4 DEF Priced

\* A request that read figures which hold keeps the invariant.
LEMMA AskFigures ==
  ASSUME IInv, Figures, NEW r \in Requests, NEW m, Ask(r, m), AskedFigures(m)
  PROVE  Figures'
<1>1. UNCHANGED <<sale, stock, holder, drawer, shift>> /\ req' = [req EXCEPT ![r] = m]
  BY DEF Ask
<1>2. IsFiniteSet(drawer)' /\ BillsFit'
  BY <1>1 DEF Figures, BillsFit, EntriesOf, PastShift, ShiftOpen
<1>3. ASSUME NEW x \in Requests
      PROVE  AskedFigures(req[x])'
  <2>1. req'[x] = IF x = r THEN m ELSE req[x]
    BY <1>1 DEF IInv, TypeOK
  <2>2. AskedFigures(req'[x])
    BY <2>1 DEF Figures
  <2> QED BY <2>2, <1>1 DEF AskedFigures, PastShift, ShiftOpen
<1> QED BY <1>2, <1>3 DEF Figures

\* A transaction keeps the invariant when every bill fits its entries, the new ones included.
LEMMA FiguresStep ==
  ASSUME IInv, Figures, NEW r \in Requests, Done(r), shift' = shift,
         NEW es, IsFiniteSet(es), drawer' = drawer \cup es,
         \A s \in Sales : BillFits(sale'[s], EntriesOf(s) \cup {e \in es : e.s = s}),
         \A s \in Sales : sale'[s].cashCounted => PastShift(sale'[s].shift),
         \A s \in Sales : sale[s].status # "NONE" /\ PaidOneWay(sale[s]) => PaidOneWay(sale'[s])
  PROVE  Figures'
<1>1. IsFiniteSet(drawer')
  BY FS_Union DEF Figures
<1>2. ASSUME NEW s \in Sales
      PROVE  EntriesOf(s)' = EntriesOf(s) \cup {e \in es : e.s = s}
  BY DEF EntriesOf
<1>3. ASSUME NEW s \in Sales
      PROVE  BillFits(sale'[s], EntriesOf(s)') /\ (sale'[s].cashCounted => PastShift(sale'[s].shift))
  BY <1>2
<1>4. \A n : PastShift(n)' <=> PastShift(n)
  BY DEF PastShift, ShiftOpen
<1>5. BillsFit'
  BY <1>3 DEF BillsFit, PastShift, ShiftOpen
<1>6. ASSUME NEW x \in Requests
      PROVE  AskedFigures(req[x])'
  <2>1. CASE x = r
    <3>1. req'[x] = Idle /\ Idle.op = "none"
      BY <2>1 DEF Done, IInv, TypeOK, Idle
    <3> QED BY <3>1 DEF AskedFigures
  <2>2. CASE x # r
    <3>1. req'[x] = req[x] /\ req[x] \in Request /\ Asked(req[x]) /\ AskedFigures(req[x])
      BY <2>2 DEF Done, IInv, TypeOK, Figures
    <3>2. req[x].op = "method" => req[x].sale \in Sales
      BY <3>1 DEF Request, Idle, CreateRequest, ReturnRequest, MethodRequest, VoidRequest
    <3>3. req[x].op = "method" => PaidOneWay(sale'[req[x].sale])
      BY <3>1, <3>2 DEF AskedFigures, Asked, OnBill
    <3>4. req[x].op = "create" => /\ IsFiniteSet(req[x].legs) /\ Total(req[x].legs) = req[x].total
                                  /\ req[x].cashCounted => (req[x].shift <= shift'.no /\ ~(shift'.open /\ shift'.no = req[x].shift))
      BY <3>1 DEF AskedFigures, PastShift, ShiftOpen
    <3>5. (req[x].op = "exchange" => ~req[x].cashCounted) /\ (req[x].op = "void" => IsFiniteSet(req[x].legs))
      BY <3>1 DEF AskedFigures
    <3> QED BY <3>1, <3>3, <3>4, <3>5 DEF AskedFigures, PastShift, ShiftOpen
  <2> QED BY <2>1, <2>2
<1> QED BY <1>1, <1>5, <1>6 DEF Figures

\* The same for a transaction on bill s alone.
LEMMA OneBillFigures ==
  ASSUME IInv, Figures, NEW r \in Requests, Done(r), shift' = shift,
         NEW es, IsFiniteSet(es), drawer' = drawer \cup es,
         NEW s \in Sales, \A e \in es : e.s = s, \A t \in Sales \ {s} : sale'[t] = sale[t],
         BillFits(sale'[s], EntriesOf(s) \cup es),
         sale'[s].cashCounted => PastShift(sale'[s].shift),
         sale[s].status # "NONE" /\ PaidOneWay(sale[s]) => PaidOneWay(sale'[s])
  PROVE  Figures'
<1>1. ASSUME NEW t \in Sales
      PROVE  BillFits(sale'[t], EntriesOf(t) \cup {e \in es : e.s = t})
  <2>1. CASE t = s
    <3>1. {e \in es : e.s = t} = es
      BY <2>1
    <3> QED BY <2>1, <3>1
  <2>2. CASE t # s
    <3>1. EntriesOf(t) \cup {e \in es : e.s = t} = EntriesOf(t)
      BY <2>2
    <3> QED BY <2>2, <3>1 DEF Figures, BillsFit
  <2> QED BY <2>1, <2>2
<1>2. ASSUME NEW t \in Sales, sale'[t].cashCounted
      PROVE  PastShift(sale'[t].shift)
  BY <1>2 DEF Figures, BillsFit
<1>3. \A t \in Sales : sale[t].status # "NONE" /\ PaidOneWay(sale[t]) => PaidOneWay(sale'[t])
  OBVIOUS
<1> QED BY <1>1, <1>2, <1>3, FiguresStep

\* The early checks: payments come to the total, and cash counts as counted in a closed shift only.
LEMMA AskCreateFigures ==
  ASSUME IInv, Figures, NEW r \in Requests, AskCreate(r)
  PROVE  Figures'
<1>1. PICK q \in Baskets, picks \in SUBSET Serials :
        \E d \in Discounts, t \in Tenders, total \in Money :
          /\ d + total = Value(q)
          /\ total <= Paid(t)
          /\ \E late \in BOOLEAN, n \in 1..shift.no :
               /\ IF late THEN "late" \in Ops /\ total > 0 ELSE ShiftOpen(n)
               /\ Ask(r, [op |-> "create", qty |-> q, total |-> total,
                          legs |-> AppliedLegs(t, total), picks |-> picks, shift |-> n,
                          cashCounted |-> late /\ ~ShiftOpen(n)])
  BY Zenon DEF AskCreate
<1>2. PICK t \in Tenders, total \in Money, late \in BOOLEAN, n \in 1..shift.no :
        /\ total <= Paid(t)
        /\ Ask(r, [op |-> "create", qty |-> q, total |-> total,
                   legs |-> AppliedLegs(t, total), picks |-> picks, shift |-> n,
                   cashCounted |-> late /\ ~ShiftOpen(n)])
  BY <1>1, Zenon
<1> DEFINE legs == AppliedLegs(t, total)
           counted == late /\ ~ShiftOpen(n)
           m == [op |-> "create", qty |-> q, total |-> total, legs |-> legs, picks |-> picks,
                 shift |-> n, cashCounted |-> counted]
<1>3. total \in Nat
  BY ConstantsAssumption
<1>4. IsFiniteSet(legs) /\ Total(legs) = total
  BY <1>2, <1>3, AppliedLegsTotal
<1>5. counted => PastShift(n)
  BY DEF PastShift, IInv, TypeOK
<1>6. Ask(r, m)
  BY <1>2
<1> HIDE DEF legs, counted
<1>7. AskedFigures(m)
  BY <1>4, <1>5 DEF AskedFigures
<1> HIDE DEF m
<1> QED BY <1>6, <1>7, AskFigures

LEMMA AskReturnFigures ==
  ASSUME IInv, Figures, NEW r \in Requests, AskRefund(r) \/ AskExchange(r)
  PROVE  Figures'
<1>0. PICK op \in {"refund", "exchange"} : \E s, take, total : AskReturn(r, op, s, take, total)
  BY DEF AskRefund, AskExchange
<1>1. PICK s, take, total : AskReturn(r, op, s, take, total)
  BY <1>0
<1>2. PICK give, method, amount, picks :
        Ask(r, [op |-> op, sale |-> s, give |-> give, amount |-> amount, picks |-> picks,
                method |-> method, take |-> take, total |-> total,
                shift |-> shift.no, cashCounted |-> FALSE])
  BY <1>1 DEF AskReturn
<1> DEFINE m == [op |-> op, sale |-> s, give |-> give, amount |-> amount, picks |-> picks,
                 method |-> method, take |-> take, total |-> total,
                 shift |-> shift.no, cashCounted |-> FALSE]
<1>3. AskedFigures(m)
  BY DEF AskedFigures
<1>4. Ask(r, m)
  BY <1>2
<1> HIDE DEF m
<1> QED BY <1>3, <1>4, AskFigures

LEMMA AskMethodFigures ==
  ASSUME IInv, Figures, NEW r \in Requests, AskMethod(r)
  PROVE  Figures'
<1>1. PICK s \in Sales : \E leg \in sale[s].legs, method \in Methods :
        /\ ShiftOpen(sale[s].shift)
        /\ sale[s].legs = {leg}
        /\ Ask(r, [op |-> "method", sale |-> s, leg |-> leg, method |-> method, claimed |-> FALSE])
  BY DEF AskMethod
<1>2. PICK leg \in sale[s].legs, method \in Methods :
        /\ ShiftOpen(sale[s].shift)
        /\ sale[s].legs = {leg}
        /\ Ask(r, [op |-> "method", sale |-> s, leg |-> leg, method |-> method, claimed |-> FALSE])
  BY <1>1
<1> DEFINE m == [op |-> "method", sale |-> s, leg |-> leg, method |-> method, claimed |-> FALSE]
<1>0. ~sale[s].cashCounted
  BY <1>2 DEF Figures, BillsFit, PastShift
<1>3. AskedFigures(m)
  BY <1>0, <1>2 DEF AskedFigures, PaidOneWay
<1>4. Ask(r, m)
  BY <1>2
<1> HIDE DEF m
<1> QED BY <1>3, <1>4, AskFigures

LEMMA ClaimMethodFigures ==
  ASSUME IInv, Figures, NEW r \in Requests, ClaimMethod(r)
  PROVE  Figures'
<1> DEFINE m == [req[r] EXCEPT !.claimed = TRUE]
<1>1. req[r] \in MethodRequest /\ AskedFigures(req[r])
  BY DEF ClaimMethod, Figures, IInv, TypeOK, Request, Idle, CreateRequest, ReturnRequest, VoidRequest
<1>2. m.op = "method" /\ m.sale = req[r].sale
  BY <1>1 DEF MethodRequest
<1>3. Ask(r, m)
  BY DEF ClaimMethod, Ask
<1>4. PaidOneWay(sale[req[r].sale])
  BY <1>1 DEF AskedFigures, MethodRequest
<1> HIDE DEF m
<1>5. AskedFigures(m)
  BY <1>2, <1>4 DEF AskedFigures
<1> QED BY <1>3, <1>5, AskFigures

LEMMA AskVoidFigures ==
  ASSUME IInv, Figures, NEW r \in Requests, AskVoid(r)
  PROVE  Figures'
<1>1. PICK s \in Sales :
        Ask(r, [op |-> "void", sale |-> s, back |-> sale[s].back, legs |-> sale[s].legs])
  BY DEF AskVoid
<1> DEFINE m == [op |-> "void", sale |-> s, back |-> sale[s].back, legs |-> sale[s].legs]
<1>2. IsFiniteSet(sale[s].legs)
  BY DEF Figures, BillsFit, BillFits
<1>3. AskedFigures(m)
  BY <1>2 DEF AskedFigures
<1>4. Ask(r, m)
  BY <1>1
<1> HIDE DEF m
<1> QED BY <1>3, <1>4, AskFigures

\* A shift that is over stays over.
LEMMA ShiftFigures ==
  ASSUME IInv, Figures, OpenShift \/ CloseShift
  PROVE  Figures'
<1>1. UNCHANGED <<sale, stock, holder, drawer, req>>
  BY DEF OpenShift, CloseShift
<1>2. ASSUME NEW n \in Nat, PastShift(n)
      PROVE  PastShift(n)'
  <2>1. CASE OpenShift
    BY <1>2, <2>1 DEF OpenShift, PastShift, ShiftOpen, IInv, TypeOK
  <2>2. CASE CloseShift
    BY <1>2, <2>2 DEF CloseShift, PastShift, ShiftOpen, IInv, TypeOK
  <2> QED BY <2>1, <2>2
<1>3. BillsFit'
  <2> SUFFICES ASSUME NEW s \in Sales
               PROVE  (BillFits(sale[s], EntriesOf(s)) /\ (sale[s].cashCounted => PastShift(sale[s].shift)))'
    BY DEF BillsFit
  <2>1. BillFits(sale[s], EntriesOf(s)) /\ (sale[s].cashCounted => PastShift(sale[s].shift)) /\ sale[s].shift \in Nat
    BY DEF Figures, BillsFit, IInv, TypeOK, Bill
  <2>2. sale'[s].cashCounted => (PastShift(sale[s].shift))'
    BY <1>1, <1>2, <2>1
  <2> QED BY <1>1, <2>1, <2>2 DEF EntriesOf
<1>4. ASSUME NEW x \in Requests
      PROVE  AskedFigures(req[x])'
  <2>1. AskedFigures(req[x]) /\ req[x] \in Request
    BY DEF Figures, IInv, TypeOK
  <2>2. req[x].op = "create" => req[x].shift \in Nat
    BY <2>1 DEF Request, Idle, CreateRequest, ReturnRequest, MethodRequest, VoidRequest
  <2>3. req[x].op = "create" /\ req[x].cashCounted => PastShift(req[x].shift)'
    BY <1>1, <1>2, <2>1, <2>2 DEF AskedFigures
  <2> QED BY <1>1, <2>1, <2>3 DEF AskedFigures
<1> QED BY <1>1, <1>3, <1>4 DEF Figures

-----------------------------------------------------------------------------
(* The transactions                                                        *)

\* What a new bill looks like to the ledger.
LEMMA NewBillFigures ==
  ASSUME IInv, Figures, NEW s \in Sales, sale[s] = NoBill,
         NEW b \in Bill, b.status = "COMPLETED", b.paidBack = [y \in Methods |-> 0],
         IsFiniteSet(b.legs), Total(b.legs) = b.total,
         NEW es, es = LegEntries("SALE_PAYMENT", "IN", s, CountedLegs(b))
  PROVE  /\ BillFits(b, es) /\ EntriesOf(s) = {}
         /\ IsFiniteSet(es) /\ \A e \in es : e.s = s
<1>1. EntriesOf(s) = {}
  BY DEF Figures, BillsFit, BillFits, NoBill
<1>2. BillFits(b, es)
  BY NewBillFits
<1>3. CountedLegs(b) \in SUBSET Leg /\ IsFiniteSet(CountedLegs(b))
  BY FS_Subset DEF Bill, CountedLegs
<1>4. Priced(LegEntries("SALE_PAYMENT", "IN", s, CountedLegs(b)))
  <2> DEFINE L == CountedLegs(b)
  <2>1. L \in SUBSET Leg /\ IsFiniteSet(L)
    BY <1>3
  <2> HIDE DEF L
  <2>2. Priced(LegEntries("SALE_PAYMENT", "IN", s, L))
    BY <2>1, MovedByLegs
  <2> QED BY <2>2 DEF L
<1>5. \A e \in es : e.s = s
  BY DEF LegEntries, Entry
<1> QED BY <1>1, <1>2, <1>4, <1>5 DEF Priced

\* What a refund looks like to the ledger.
LEMMA RefundFigures ==
  ASSUME IInv, Figures, NEW r \in Requests, CommitRefund(r) \/ CommitExchange(r)
  PROVE  LET m == req[r]
             s == m.sale
             x == RefundEntry(m)
         IN
         /\ BillFits(Refunded(sale[s], m), EntriesOf(s) \cup {x}) /\ x.s = s
         /\ \A e \in drawer : ~(e.src = x.src /\ e.n = x.n /\ e.s = x.s)
         /\ Refunded(sale[s], m).legs = sale[s].legs
         /\ Refunded(sale[s], m).cashCounted = sale[s].cashCounted
         /\ Refunded(sale[s], m).shift = sale[s].shift
<1> DEFINE m == req[r]
           s == m.sale
           b == sale[s]
           x == RefundEntry(m)
           c == Refunded(b, m)
<1>1. /\ m \in ReturnRequest /\ s \in Sales /\ b \in Bill /\ b.status # "NONE" /\ ValidRefund(b, m)
  BY ReturnAsked DEF CommitRefund, CommitExchange
<1>2. Alive(b) /\ BillFits(b, EntriesOf(s))
  BY <1>1 DEF Alive, ValidRefund, Figures, BillsFit
<1>3. EntriesOf(s) \in SUBSET LedgerEntry /\ Priced(EntriesOf(s))
  BY EntriesType
<1>4. x = Entry("REFUND", s, b.refunds + 1, "OUT", m.method, m.amount)
  BY DEF RefundEntry
<1>5. c.legs = b.legs /\ c.cashCounted = b.cashCounted /\ c.shift = b.shift
  BY <1>1 DEF Refunded, Bill
<1>6. x.s = s
  BY <1>4 DEF Entry
<1> HIDE DEF m, s, x, b, c
<1>7. /\ \A e \in EntriesOf(s) : ~(e.src = x.src /\ e.n = x.n)
      /\ BillFits(Refunded(b, m), EntriesOf(s) \cup {x})
  <2> DEFINE E == EntriesOf(s)
             U == E \cup {x}
  <2>1. E \in SUBSET LedgerEntry /\ Priced(E) /\ BillFits(b, E) /\ U = E \cup {x}
    BY <1>2, <1>3
  <2> HIDE DEF E, U
  <2>2. (\A e \in E : ~(e.src = x.src /\ e.n = x.n)) /\ BillFits(Refunded(b, m), U)
    BY <1>1, <1>2, <1>4, <2>1, RefundFits, Zenon
  <2> QED BY <2>2 DEF E, U
<1>8. \A e \in drawer : ~(e.src = x.src /\ e.n = x.n /\ e.s = x.s)
  BY <1>6, <1>7 DEF EntriesOf
<1>9. /\ BillFits(c, EntriesOf(s) \cup {x}) /\ x.s = s
      /\ \A e \in drawer : ~(e.src = x.src /\ e.n = x.n /\ e.s = x.s)
      /\ c.legs = b.legs /\ c.cashCounted = b.cashCounted /\ c.shift = b.shift
  BY <1>5, <1>6, <1>7, <1>8 DEF c
<1> QED BY <1>9 DEF c, m, s, x, b

LEMMA CommitCreateFigures ==
  ASSUME IInv, Figures, NEW r \in Requests, CommitCreate(r)
  PROVE  Figures'
<1> DEFINE m == req[r]
           bill == NewBill(m, m.qty, m.legs, Lacking(m.qty, m.picks))
<1>1. m \in CreateRequest /\ SerialsNamed(m.qty, m.picks)
  BY DEF CommitCreate, IInv, TypeOK, Asked, Request, Idle, ReturnRequest, MethodRequest, VoidRequest
<1>2. /\ m.qty \in Quantities /\ m.total \in Nat /\ m.legs \in SUBSET Leg /\ m.shift \in Nat
      /\ m.cashCounted \in BOOLEAN /\ Lacking(m.qty, m.picks) \in Quantities
  BY <1>1, LackingType DEF CreateRequest
<1>3. PICK s \in Sales :
        /\ sale[s] = NoBill
        /\ sale' = [sale EXCEPT ![s] = bill]
        /\ drawer' = Record(drawer, LegEntries("SALE_PAYMENT", "IN", s, CountedLegs(bill)))
  BY DEF CommitCreate
<1>4. IsFiniteSet(m.legs) /\ Total(m.legs) = m.total /\ (m.cashCounted => PastShift(m.shift))
  BY DEF CommitCreate, Figures, AskedFigures
<1>5. /\ bill \in Bill /\ bill.status = "COMPLETED" /\ bill.paidBack = [y \in Methods |-> 0]
      /\ IsFiniteSet(bill.legs) /\ Total(bill.legs) = bill.total
      /\ bill.cashCounted => PastShift(bill.shift)
  BY <1>2, <1>4, NewBillType DEF NewBill
<1>6. Done(r) /\ shift' = shift /\ sale[s].status = "NONE"
  BY <1>3 DEF CommitCreate, NoBill
<1> HIDE DEF bill
<1> DEFINE es == LegEntries("SALE_PAYMENT", "IN", s, CountedLegs(bill))
<1>7. drawer' = Record(drawer, es) /\ es = LegEntries("SALE_PAYMENT", "IN", s, CountedLegs(bill))
  BY <1>3
<1> HIDE DEF es
<1>8. /\ BillFits(bill, es) /\ EntriesOf(s) = {} /\ EntriesOf(s) \cup es = es
      /\ IsFiniteSet(es) /\ \A e \in es : e.s = s
  BY <1>3, <1>5, <1>7, NewBillFigures
<1>9. drawer' = drawer \cup es
  BY <1>7, <1>8, RecordNew DEF EntriesOf
<1>10. sale'[s] = bill /\ \A t \in Sales \ {s} : sale'[t] = sale[t]
  BY <1>3 DEF IInv, TypeOK
<1> QED BY <1>5, <1>6, <1>8, <1>9, <1>10, OneBillFigures

LEMMA CommitRefundFigures ==
  ASSUME IInv, Figures, NEW r \in Requests, CommitRefund(r)
  PROVE  Figures'
<1> DEFINE m == req[r]
           s == m.sale
           c == Refunded(sale[s], m)
           x == RefundEntry(m)
<1>1. s \in Sales /\ Done(r) /\ shift' = shift
  BY ReturnAsked DEF CommitRefund
<1>2. sale' = [sale EXCEPT ![s] = c] /\ drawer' = Record(drawer, {x})
  BY DEF CommitRefund
<1>3. /\ BillFits(c, EntriesOf(s) \cup {x}) /\ x.s = s
      /\ \A e \in drawer : ~(e.src = x.src /\ e.n = x.n /\ e.s = x.s)
      /\ c.legs = sale[s].legs /\ c.cashCounted = sale[s].cashCounted /\ c.shift = sale[s].shift
  BY RefundFigures
<1> HIDE DEF m, s, c, x
<1>4. drawer' = drawer \cup {x} /\ IsFiniteSet({x}) /\ \A e \in {x} : e.s = s
  <2>1. Record(drawer, {x}) = drawer \cup {x}
    BY <1>3, RecordNew
  <2> QED BY <1>2, <1>3, <2>1, FS_Singleton
<1>5. sale'[s] = c /\ \A t \in Sales \ {s} : sale'[t] = sale[t]
  BY <1>1, <1>2 DEF IInv, TypeOK
<1>6. sale[s].cashCounted => PastShift(sale[s].shift)
  BY <1>1 DEF Figures, BillsFit
<1>7. PaidOneWay(sale[s]) => PaidOneWay(sale'[s])
  BY <1>3, <1>5 DEF PaidOneWay
<1> QED BY <1>1, <1>3, <1>4, <1>5, <1>6, <1>7, OneBillFigures

\* An exchange is a refund of one bill and a new bill, paid one way.
LEMMA CommitExchangeFigures ==
  ASSUME IInv, Figures, NEW r \in Requests, CommitExchange(r)
  PROVE  Figures'
<1> DEFINE m == req[r]
           b == sale[m.sale]
           c == Refunded(b, m)
           x == RefundEntry(m)
           leg == [n |-> 1, method |-> m.method, amount |-> m.total]
           bill == NewBill(m, m.take, {leg}, m.take)
<1>1. /\ m \in ReturnRequest /\ m.sale \in Sales /\ b.status # "NONE"
      /\ m.take \in Quantities /\ m.method \in Methods /\ m.total \in Nat /\ m.shift \in Nat
      /\ m.cashCounted \in BOOLEAN
  BY ReturnAsked DEF CommitExchange, ReturnRequest
<1>2. ~m.cashCounted
  BY DEF CommitExchange, Figures, AskedFigures
<1>3. PICK s \in Sales :
        /\ sale[s] = NoBill
        /\ sale' = [sale EXCEPT ![m.sale] = c, ![s] = bill]
        /\ drawer' = Record(drawer, {x} \cup LegEntries("SALE_PAYMENT", "IN", s, bill.legs))
  BY DEF CommitExchange
<1>4. Done(r) /\ shift' = shift
  BY DEF CommitExchange
<1>5. leg \in Leg /\ leg.amount = m.total
  BY <1>1, ConstantsAssumption DEF Leg
<1> HIDE DEF leg
<1>6. /\ bill \in Bill /\ bill.status = "COMPLETED" /\ bill.paidBack = [y \in Methods |-> 0]
      /\ bill.legs = {leg} /\ bill.total = m.total /\ ~bill.cashCounted
  BY <1>1, <1>2, <1>5, NewBillType DEF NewBill
<1>7. IsFiniteSet(bill.legs) /\ Total(bill.legs) = bill.total /\ CountedLegs(bill) = bill.legs
  <2>1. Total({leg}) = leg.amount
    BY <1>1, <1>5, TotalOfOne
  <2>2. IsFiniteSet({leg})
    BY FS_Singleton
  <2> QED BY <1>5, <1>6, <2>1, <2>2 DEF CountedLegs
<1> DEFINE es == LegEntries("SALE_PAYMENT", "IN", s, CountedLegs(bill))
<1>8. /\ BillFits(c, EntriesOf(m.sale) \cup {x}) /\ x.s = m.sale
      /\ \A e \in drawer : ~(e.src = x.src /\ e.n = x.n /\ e.s = x.s)
      /\ c.legs = b.legs /\ c.cashCounted = b.cashCounted /\ c.shift = b.shift
  BY RefundFigures
<1> HIDE DEF bill
<1>9. drawer' = Record(drawer, {x} \cup es)
  BY <1>3, <1>7
<1>10. s # m.sale /\ sale[s] = NoBill /\ es = LegEntries("SALE_PAYMENT", "IN", s, CountedLegs(bill))
  BY <1>1, <1>3 DEF NoBill
<1> HIDE DEF c, x, es, b, m
<1>11. /\ BillFits(bill, es) /\ EntriesOf(s) = {} /\ EntriesOf(s) \cup es = es
       /\ IsFiniteSet(es) /\ \A e \in es : e.s = s
  BY <1>6, <1>7, <1>10, NewBillFigures
<1>12. drawer' = drawer \cup ({x} \cup es) /\ IsFiniteSet({x} \cup es)
  <2>1. \A e \in drawer : e.s # s
    BY <1>11 DEF EntriesOf
  <2>2. Record(drawer, {x} \cup es) = drawer \cup ({x} \cup es)
    BY <1>8, <1>11, <2>1, RecordNew
  <2>3. IsFiniteSet({x} \cup es)
    BY <1>11, FS_Singleton, FS_Union
  <2> QED BY <1>9, <2>2, <2>3
<1>13. /\ sale'[m.sale] = c /\ sale'[s] = bill
       /\ \A t \in Sales : t = s \/ t = m.sale \/ sale'[t] = sale[t]
  BY <1>1, <1>3, <1>10 DEF IInv, TypeOK
<1>14. ASSUME NEW t \in Sales
       PROVE  BillFits(sale'[t], EntriesOf(t) \cup {e \in {x} \cup es : e.s = t})
  <2>1. CASE t = s
    <3>1. {e \in {x} \cup es : e.s = t} = es
      BY <1>8, <1>10, <1>11, <2>1
    <3> QED BY <1>11, <1>13, <2>1, <3>1
  <2>2. CASE t = m.sale
    <3>1. {e \in {x} \cup es : e.s = t} = {x}
      BY <1>8, <1>10, <1>11, <2>2
    <3> QED BY <1>8, <1>13, <2>2, <3>1
  <2>3. CASE t # s /\ t # m.sale
    <3>1. EntriesOf(t) \cup {e \in {x} \cup es : e.s = t} = EntriesOf(t)
      BY <1>8, <1>11, <2>3
    <3> QED BY <1>13, <2>3, <3>1 DEF Figures, BillsFit
  <2> QED BY <2>1, <2>2, <2>3
<1>15. ASSUME NEW t \in Sales, sale'[t].cashCounted
       PROVE  PastShift(sale'[t].shift)
  BY <1>1, <1>6, <1>8, <1>13, <1>15 DEF Figures, BillsFit, b
<1>16. ASSUME NEW t \in Sales, sale[t].status # "NONE", PaidOneWay(sale[t])
       PROVE  PaidOneWay(sale'[t])
  <2>1. sale[s].status = "NONE"
    BY <1>3 DEF NoBill
  <2>2. sale'[t].legs = sale[t].legs /\ sale'[t].cashCounted = sale[t].cashCounted
    BY <1>8, <1>13, <1>16, <2>1 DEF b
  <2> QED BY <1>16, <2>2 DEF PaidOneWay
<1> DEFINE new == {x} \cup es
<1>17. /\ IsFiniteSet(new) /\ drawer' = drawer \cup new
       /\ \A t \in Sales : BillFits(sale'[t], EntriesOf(t) \cup {e \in new : e.s = t})
  BY <1>12, <1>14
<1> HIDE DEF new
<1> QED BY <1>4, <1>15, <1>16, <1>17, FiguresStep

\* The payment read is the only one, so it is the one that is taken back; its shift was open when the
\* change was asked for, so its cash is in the ledger - also when the shift has been closed since.
LEMMA CommitMethodFigures ==
  ASSUME IInv, Figures, NEW r \in Requests, CommitMethod(r)
  PROVE  Figures'
<1> DEFINE m == req[r]
           s == m.sale
           b == sale[s]
           l == NextLeg(b, m.leg, m.method)
           x == TakenBack(s, m.leg)
           y == TakenInstead(s, l)
           c == WithLeg(b, l)
           E == EntriesOf(s)
           U == E \cup {x, y}
<1>1. m \in MethodRequest
  BY DEF CommitMethod, IInv, TypeOK, Request, Idle, CreateRequest, ReturnRequest, VoidRequest
<1>2. s \in Sales /\ m.leg \in Leg /\ m.leg.n < MaxLegs /\ m.method \in Methods /\ b \in Bill
  BY <1>1 DEF MethodRequest, IInv, TypeOK
<1>3. b.legs = {m.leg} /\ b.status = "COMPLETED"
  BY MethodBill DEF CommitMethod, Figures, AskedFigures, PaidOneWay
<1>4. ~b.cashCounted
  BY DEF CommitMethod, Figures, AskedFigures, PaidOneWay
<1>5. /\ sale' = [sale EXCEPT ![s] = [@ EXCEPT !.legs = (b.legs \ {m.leg}) \cup {l}]]
      /\ drawer' = Record(drawer, LegEntries("REVERSAL", "OUT", s, {m.leg})
                                  \cup LegEntries("SALE_PAYMENT", "IN", s, {l}))
      /\ Done(r) /\ shift' = shift
  BY DEF CommitMethod, NextLeg
<1>6. x.s = s /\ y.s = s
  BY DEF TakenBack, TakenInstead, Entry
<1>7. E \in SUBSET LedgerEntry /\ Priced(E) /\ BillFits(b, E) /\ Alive(b)
  BY <1>2, <1>3, EntriesType DEF Figures, BillsFit, Alive
<1>8. LegEntries("REVERSAL", "OUT", s, {m.leg}) \cup LegEntries("SALE_PAYMENT", "IN", s, {l}) = {x, y}
  BY DEF LegEntries, TakenBack, TakenInstead
<1>9. (b.legs \ {m.leg}) \cup {l} = {l}
  BY <1>3
<1>10. /\ l = NextLeg(b, m.leg, m.method)
       /\ x = TakenBack(s, m.leg)
       /\ y = TakenInstead(s, l)
       /\ c = WithLeg(b, l) /\ U = E \cup {x, y}
  OBVIOUS
<1>11. sale' = [sale EXCEPT ![s] = c] /\ drawer' = Record(drawer, {x, y})
  BY <1>5, <1>8, <1>9 DEF WithLeg
<1>12. c.legs = {l} /\ c.cashCounted = b.cashCounted
  BY <1>2 DEF WithLeg, Bill
<1> HIDE DEF l, x, y, c, E, U, b, s, m
<1>13. /\ \A e \in E : ~(e.src = x.src /\ e.n = x.n) /\ ~(e.src = y.src /\ e.n = y.n)
       /\ BillFits(c, U)
  <2>1. /\ b \in Bill /\ m.leg \in Leg /\ b.legs = {m.leg} /\ m.leg.n < MaxLegs /\ m.method \in Methods
        /\ ~b.cashCounted /\ E \in SUBSET LedgerEntry /\ Priced(E) /\ BillFits(b, E) /\ Alive(b)
    BY <1>2, <1>3, <1>4, <1>7
  <2>2. U = E \cup {TakenBack(s, m.leg), TakenInstead(s, NextLeg(b, m.leg, m.method))}
    BY <1>10
  <2>3. /\ BillFits(WithLeg(b, NextLeg(b, m.leg, m.method)), U)
        /\ \A e \in E : /\ ~(e.src = "REVERSAL" /\ e.n = m.leg.n)
                       /\ ~(e.src = "SALE_PAYMENT" /\ e.n = m.leg.n + 1)
    BY <2>1, <2>2, MethodFits, Zenon
  <2>4. x.src = "REVERSAL" /\ x.n = m.leg.n /\ y.src = "SALE_PAYMENT" /\ y.n = m.leg.n + 1
    BY <1>10 DEF TakenBack, TakenInstead, NextLeg, Entry
  <2> QED BY <1>10, <2>3, <2>4
<1>14. drawer' = drawer \cup {x, y}
  <2>1. \A e \in {x, y}, z \in drawer : ~(z.src = e.src /\ z.n = e.n /\ z.s = e.s)
    BY <1>6, <1>13 DEF E, EntriesOf
  <2>2. Record(drawer, {x, y}) = drawer \cup {x, y}
    BY <2>1, RecordNew
  <2> QED BY <1>11, <2>2
<1>15. IsFiniteSet({x, y})
  <2>1. {x, y} = {x} \cup {y}
    OBVIOUS
  <2>2. IsFiniteSet({x})
    BY FS_Singleton
  <2> QED BY <2>1, <2>2, FS_AddElement
<1>16. sale'[s] = c /\ \A t \in Sales \ {s} : sale'[t] = sale[t]
  BY <1>2, <1>11 DEF IInv, TypeOK
<1>17. PaidOneWay(sale'[s]) /\ ~sale'[s].cashCounted
  BY <1>4, <1>12, <1>16 DEF PaidOneWay
<1> DEFINE es == {x, y}
<1>18. IsFiniteSet(es) /\ drawer' = drawer \cup es /\ (\A e \in es : e.s = s) /\ BillFits(sale'[s], EntriesOf(s) \cup es)
  BY <1>6, <1>10, <1>13, <1>14, <1>15, <1>16 DEF E
<1> HIDE DEF es
<1> QED BY <1>2, <1>5, <1>16, <1>17, <1>18, OneBillFigures

LEMMA CommitVoidFigures ==
  ASSUME IInv, Figures, NEW r \in Requests, CommitVoid(r)
  PROVE  Figures'
<1> DEFINE m == req[r]
           s == m.sale
           b == sale[s]
           c == [b EXCEPT !.status = "VOIDED"]
           es == {e \in VoidEntries(m) : \A x \in drawer : Key(x) # Key(e)}
<1>1. m \in VoidRequest
  BY DEF CommitVoid, IInv, TypeOK, Request, Idle, CreateRequest, ReturnRequest, MethodRequest
<1>2. s \in Sales /\ m.legs \in SUBSET Leg /\ b \in Bill /\ IsFiniteSet(m.legs)
  BY <1>1 DEF VoidRequest, IInv, TypeOK, Figures, AskedFigures
<1>3. sale' = [sale EXCEPT ![s] = c] /\ drawer' = drawer \cup es /\ Done(r) /\ shift' = shift
  BY DEF CommitVoid, Record
<1>4. c.legs = b.legs /\ c.cashCounted = b.cashCounted /\ c.shift = b.shift /\ c.status = "VOIDED"
  BY <1>2 DEF Bill
<1>5. \A e \in es : e.s = s
  BY DEF VoidEntries, LegEntries, Entry
<1>6. IsFiniteSet(VoidEntries(m))
  <2> DEFINE L == m.legs
  <2>1. L \in SUBSET Leg /\ IsFiniteSet(L)
    BY <1>2
  <2> HIDE DEF L
  <2>2. Priced(LegEntries("SALE_REFUND", "OUT", s, L))
    BY <2>1, MovedByLegs
  <2> QED BY <2>2 DEF L, VoidEntries, Priced
<1>7. IsFiniteSet(es)
  BY <1>6, FS_Subset
<1>8. sale'[s] = c /\ \A t \in Sales \ {s} : sale'[t] = sale[t]
  BY <1>2, <1>3 DEF IInv, TypeOK
<1>9. IsFiniteSet(b.legs) /\ (b.cashCounted => PastShift(b.shift))
  BY <1>2 DEF Figures, BillsFit, BillFits
<1>10. BillFits(c, EntriesOf(s) \cup es)
  BY <1>4, <1>9 DEF BillFits, Alive
<1>11. PaidOneWay(b) => PaidOneWay(c)
  BY <1>4 DEF PaidOneWay
<1> HIDE DEF c, es, m
<1> QED BY <1>2, <1>3, <1>4, <1>5, <1>7, <1>8, <1>9, <1>10, <1>11, OneBillFigures

LEMMA AbortFigures ==
  ASSUME IInv, Figures, NEW r \in Requests, Abort(r)
  PROVE  Figures'
<1>1. Done(r) /\ UNCHANGED <<sale, drawer, shift>> /\ IsFiniteSet({}) /\ drawer' = drawer \cup {}
  BY FS_EmptySet DEF Abort
<1>2. \A s \in Sales : EntriesOf(s) \cup {e \in {} : e.s = s} = EntriesOf(s)
  OBVIOUS
<1>3. \A s \in Sales : BillFits(sale'[s], EntriesOf(s) \cup {e \in {} : e.s = s})
  BY <1>1, <1>2 DEF Figures, BillsFit
<1>4. \A s \in Sales : sale'[s].cashCounted => PastShift(sale'[s].shift)
  BY <1>1 DEF Figures, BillsFit
<1> QED BY <1>1, <1>3, <1>4, FiguresStep

-----------------------------------------------------------------------------

LEMMA FiguresInitially == Init => Figures
<1> SUFFICES ASSUME Init
             PROVE  Figures
  OBVIOUS
<1>1. IsFiniteSet(drawer) /\ \A s \in Sales : EntriesOf(s) = {}
  BY FS_EmptySet DEF Init, EntriesOf
<1>2. ASSUME NEW s \in Sales
      PROVE  BillFits(sale[s], EntriesOf(s)) /\ ~sale[s].cashCounted
  BY <1>1, FS_EmptySet DEF Init, NoBill, BillFits, Alive
<1>3. \A r \in Requests : AskedFigures(req[r])
  BY DEF Init, Idle, AskedFigures
<1> QED BY <1>1, <1>2, <1>3 DEF Figures, BillsFit

LEMMA FiguresInductive == IInv /\ Figures /\ [Next]_vars => Figures'
<1> SUFFICES ASSUME IInv, Figures, [Next]_vars
             PROVE  Figures'
  OBVIOUS
<1>1. ASSUME NEW r \in Requests,
             AskCreate(r) \/ AskRefund(r) \/ AskExchange(r) \/ AskMethod(r) \/ AskVoid(r)
      PROVE  Figures'
  BY <1>1, AskCreateFigures, AskReturnFigures, AskMethodFigures, AskVoidFigures
<1>2. ASSUME NEW r \in Requests, CommitCreate(r)
      PROVE  Figures'
  BY <1>2, CommitCreateFigures
<1>3. ASSUME NEW r \in Requests, CommitRefund(r)
      PROVE  Figures'
  BY <1>3, CommitRefundFigures
<1>4. ASSUME NEW r \in Requests, CommitExchange(r)
      PROVE  Figures'
  BY <1>4, CommitExchangeFigures
<1>5. ASSUME NEW r \in Requests, CommitMethod(r)
      PROVE  Figures'
  BY <1>5, CommitMethodFigures
<1>6. ASSUME NEW r \in Requests, CommitVoid(r)
      PROVE  Figures'
  BY <1>6, CommitVoidFigures
<1>7. ASSUME NEW r \in Requests, Abort(r)
      PROVE  Figures'
  BY <1>7, AbortFigures
<1>8. CASE OpenShift \/ CloseShift
  BY <1>8, ShiftFigures
<1>10. ASSUME NEW r \in Requests, ClaimMethod(r)
       PROVE  Figures'
  BY <1>10, ClaimMethodFigures
<1>9. CASE UNCHANGED vars
  <2>1. UNCHANGED <<sale, drawer, shift, req>>
    BY <1>9 DEF vars
  <2>2. BillsFit'
    BY <2>1 DEF Figures, BillsFit, EntriesOf, PastShift, ShiftOpen
  <2>3. (\A r \in Requests : AskedFigures(req[r]))'
    BY <2>1 DEF Figures, AskedFigures, PastShift, ShiftOpen
  <2> QED BY <2>1, <2>2, <2>3 DEF Figures
<1> QED BY <1>1, <1>2, <1>3, <1>4, <1>5, <1>6, <1>7, <1>8, <1>9, <1>10 DEF Next

LEMMA FiguresInvariance == Spec => [](IInv /\ Figures)
<1>1. Init => IInv /\ Figures
  BY Initially, FiguresInitially
<1>2. IInv /\ Figures /\ [Next]_vars => (IInv /\ Figures)'
  BY Inductive, FiguresInductive
<1> QED BY <1>1, <1>2, PTL DEF Spec

\* The ledger shows for every bill that is not voided what the bill was paid less what was paid
\* back, by payment method, however refunds, exchanges and method changes interleave.
THEOREM LedgerShowsBill == Spec => []LedgerMatchesBill
<1>1. IInv /\ Figures => LedgerMatchesBill
  <2> SUFFICES ASSUME IInv, Figures, NEW s \in Sales, Live(s)
               PROVE  /\ Total(sale[s].legs) = sale[s].total
                      /\ \A m \in Methods :
                           Booked(s, m, "IN") - Booked(s, m, "OUT") = Owed(s, m) - sale[s].paidBack[m]
    BY DEF LedgerMatchesBill
  <2>1. Balanced(sale[s], EntriesOf(s))
    BY DEF Figures, BillsFit, BillFits, Alive, Live
  <2>2. ASSUME NEW m \in Methods, NEW dir
        PROVE  Booked(s, m, dir) = Moved(EntriesOf(s), m, dir)
    <3>1. {e \in drawer : e.s = s /\ e.method = m /\ e.dir = dir}
            = {e \in EntriesOf(s) : e.method = m /\ e.dir = dir}
      BY DEF EntriesOf
    <3> QED BY <3>1 DEF Booked, Moved
  <2>3. \A m \in Methods : Owed(s, m) = OwedBy(sale[s], m)
    BY DEF Owed, OwedBy, PaidBy
  <2> QED BY <2>1, <2>2, <2>3 DEF Balanced
<1> QED BY <1>1, FiguresInvariance, PTL

-----------------------------------------------------------------------------
(* Serials: a line sold by IMEI has the serials of the units still out     *)

\* Units of product p of bill b that have a serial with the customer
Held(b, p) ==
  IF Alive(b) /\ b.qty[p] - b.back[p] > b.lacking[p] THEN b.qty[p] - b.back[p] - b.lacking[p] ELSE 0

SerialsRight ==
  \A s \in Sales, p \in Products : SerialsOf[p] # {} => Cardinality(Linked(s, p)) = Held(sale[s], p)

\* Serials of one product, as the stored rows h have them: those on bill s
OnBillOf(h, s, p) == {x \in SerialsOf[p] : h[x] = s}

LEMMA SerialsFinite ==
  ASSUME NEW p \in Products, NEW S, S \subseteq SerialsOf[p]
  PROVE  IsFiniteSet(S) /\ Cardinality(S) \in Nat
<1>1. SerialsOf[p] \subseteq Serials
  BY ConstantsAssumption
<1>2. IsFiniteSet(S)
  BY <1>1, FS_Subset, RowsAssumption
<1> QED BY <1>2, FS_CardinalityType

LEMMA CardWithout ==
  ASSUME NEW A, IsFiniteSet(A), NEW B, B \subseteq A
  PROVE  Cardinality(A \ B) = Cardinality(A) - Cardinality(B)
<1>1. A \cap B = B
  OBVIOUS
<1>2. Cardinality(A \ B) = Cardinality(A) - Cardinality(A \cap B)
  BY FS_Difference
<1> QED BY <1>1, <1>2

\* The serials that come back are all of the bill that comes back, and of each product no more and
\* no fewer stay on it than units.
LEMMA ReturnedSerials ==
  ASSUME IInv, SerialsRight, NEW r \in Requests, CommitRefund(r) \/ CommitExchange(r),
         NEW p \in Products, SerialsOf[p] # {}
  PROVE  LET m == req[r]
             s == m.sale
         IN
         /\ Cardinality(OnBillOf(holder', s, p)) = Held(Refunded(sale[s], m), p)
         /\ \A t \in Sales \ {s} : OnBillOf(holder', t, p) = Linked(t, p)
<1> DEFINE m == req[r]
           s == m.sale
           b == sale[s]
           c == Refunded(b, m)
           freed == UNION {SerialsBack(m, q) : q \in Products}
           back == SerialsBack(m, p)
<1>1. /\ m \in ReturnRequest /\ s \in Sales /\ b \in Bill /\ BillOK(b) /\ b.status # "NONE"
      /\ ValidRefund(b, m)
  BY ReturnAsked DEF CommitRefund, CommitExchange
<1>2. /\ \A q \in Products : SerialsKnown(m, q)
      /\ holder' = FreeSerials(freed)
  BY DEF CommitRefund, CommitExchange
<1>3. /\ b.qty \in Quantities /\ b.back \in Quantities /\ m.give \in Quantities /\ s # Shop
      /\ holder \in [Serials -> Sales \cup {Shop}]
  BY <1>1, RowsAssumption DEF Bill, ReturnRequest, IInv, TypeOK
<1>4. /\ c.qty = b.qty /\ c.back = Plus(b.back, m.give) /\ c.lacking = b.lacking /\ Alive(c) /\ Alive(b)
  <2>1. /\ c.qty = b.qty /\ c.back = Plus(b.back, m.give) /\ c.lacking = b.lacking
        /\ c.status \in {"REFUNDED", "PARTIAL_REFUND"}
    BY <1>1 DEF Refunded, Bill
  <2>2. b.status \notin {"NONE", "VOIDED"}
    BY <1>1 DEF ValidRefund
  <2> HIDE DEF c
  <2> QED BY <2>1, <2>2 DEF Alive
<1>5. \A q \in Products : SerialsOf[q] \subseteq Serials /\ \A x \in SerialsOf[q] : q # p => x \notin SerialsOf[p]
  BY ConstantsAssumption, RowsAssumption
<1>6. ASSUME NEW q \in Products
      PROVE  SerialsBack(m, q) \subseteq Linked(s, q)
  <2>1. SerialsBack(m, q) \subseteq SerialsOf[q]
    BY DEF SerialsBack, Of, Linked
  <2>2. CASE SerialsOf[q] = {} \/ m.give[q] = 0
    BY <2>1, <2>2 DEF SerialsBack
  <2>3. CASE SerialsOf[q] # {} /\ m.give[q] > 0
    BY <1>2, <2>3 DEF SerialsBack, SerialsKnown
  <2> QED BY <1>3, <2>2, <2>3 DEF Quantities
<1>7. ASSUME NEW x \in SerialsOf[p]
      PROVE  holder'[x] = IF x \in back THEN Shop ELSE holder[x]
  <2>1. x \in freed <=> x \in back
    <3>1. ASSUME NEW q \in Products, x \in SerialsBack(m, q)
          PROVE  q = p
      BY <1>5, <1>6, <3>1 DEF Linked
    <3> QED BY <3>1
  <2> QED BY <1>2, <1>5, <2>1 DEF FreeSerials
<1>8. back \subseteq Linked(s, p)
  BY <1>6
<1>9. OnBillOf(holder', s, p) = Linked(s, p) \ back
  BY <1>3, <1>7, <1>8 DEF OnBillOf, Linked
<1>10. ASSUME NEW t \in Sales \ {s}
       PROVE  OnBillOf(holder', t, p) = Linked(t, p)
  BY <1>7, <1>8, RowsAssumption DEF OnBillOf, Linked
<1>11. Cardinality(Linked(s, p)) = Held(b, p)
  BY <1>1 DEF SerialsRight
<1>12. Cardinality(Linked(s, p) \ back) = Cardinality(Linked(s, p)) - Cardinality(back)
  <2>1. Linked(s, p) \subseteq SerialsOf[p]
    BY DEF Linked
  <2> QED BY <1>8, <2>1, SerialsFinite, CardWithout
<1>13. /\ b.qty[p] \in Nat /\ b.back[p] \in Nat /\ m.give[p] \in Nat /\ c.back[p] = b.back[p] + m.give[p]
       /\ m.give[p] <= b.qty[p] - b.back[p]
  BY <1>1, <1>3, <1>4 DEF Quantities, Plus, ValidRefund
<1> DEFINE out == b.qty[p] - b.back[p]
           lacking == b.lacking[p]
<1>14. Held(b, p) = (IF out > lacking THEN out - lacking ELSE 0) /\ out \in Nat /\ lacking \in Nat
  BY <1>1, <1>4, <1>13 DEF Held, Bill, Quantities
<1>15. Held(c, p) = IF out - m.give[p] > lacking THEN out - m.give[p] - lacking ELSE 0
  BY <1>4, <1>13 DEF Held
<1>16. Cardinality({}) = 0 /\ (Cardinality(Linked(s, p)) = 0 => Linked(s, p) = {})
  <2>1. IsFiniteSet(Linked(s, p))
    BY SerialsFinite DEF Linked
  <2> QED BY <2>1, FS_EmptySet
<1>19. Cardinality(back) <= Cardinality(Linked(s, p)) /\ Cardinality(back) \in Nat
  <2>1. IsFiniteSet(Linked(s, p))
    BY SerialsFinite DEF Linked
  <2> HIDE DEF back
  <2> QED BY <1>8, <2>1, FS_Subset, FS_CardinalityType
<1> HIDE DEF c, b, s, m, back, freed, out, lacking
<1>17. Cardinality(Linked(s, p)) - Cardinality(back) = Held(c, p)
  <2>1. CASE m.give[p] = 0
    <3>1. back = {}
      BY <2>1 DEF back, SerialsBack
    <3> QED BY <1>11, <1>13, <1>14, <1>15, <1>16, <2>1, <3>1
  <2>2. CASE m.give[p] > 0 /\ Of(m.picks, p) # {}
    <3>1. Cardinality(back) = m.give[p]
      BY <1>2, <2>2 DEF SerialsKnown, back, SerialsBack
    <3> QED BY <1>11, <1>13, <1>14, <1>15, <1>19, <2>2, <3>1
  <2>3. CASE m.give[p] > 0 /\ Of(m.picks, p) = {}
    <3>1. Cardinality(Linked(s, p)) - Cardinality(back) = 0
      BY <1>11, <1>14, <2>3 DEF s, back, SerialsBack
    <3>2. out - m.give[p] = 0 \/ Held(b, p) = m.give[p]
      BY <1>2, <1>11, <1>13, <2>3 DEF SerialsKnown, b, s, out
    <3> QED BY <1>13, <1>14, <1>15, <2>3, <3>1, <3>2
  <2> QED BY <1>13, <2>1, <2>2, <2>3
<1>18. Cardinality(OnBillOf(holder', s, p)) = Held(c, p)
  BY <1>9, <1>12, <1>17
<1> QED BY <1>10, <1>18 DEF c, b, s, m

LEMMA CommitCreateSerials ==
  ASSUME IInv, SerialsRight, NEW r \in Requests, CommitCreate(r)
  PROVE  SerialsRight'
<1> DEFINE m == req[r]
           bill == NewBill(m, m.qty, m.legs, Lacking(m.qty, m.picks))
<1>1. m \in CreateRequest /\ SerialsNamed(m.qty, m.picks) /\ SerialsFree(m.picks)
  BY DEF CommitCreate, IInv, TypeOK, Asked, Request, Idle, ReturnRequest, MethodRequest, VoidRequest
<1>2. PICK s \in Sales :
        /\ sale[s] = NoBill
        /\ sale' = [sale EXCEPT ![s] = bill]
        /\ holder' = [x \in Serials |-> IF x \in m.picks THEN s ELSE holder[x]]
  BY DEF CommitCreate
<1>3. m.qty \in Quantities /\ Lacking(m.qty, m.picks) \in Quantities
  BY <1>1, LackingType DEF CreateRequest
<1>4. \A p \in Products : Held(bill, p) = Cardinality(Of(m.picks, p)) /\ Held(NoBill, p) = 0
  <2> SUFFICES ASSUME NEW p \in Products
               PROVE  Held(bill, p) = Cardinality(Of(m.picks, p)) /\ Held(NoBill, p) = 0
    OBVIOUS
  <2> DEFINE k == Cardinality(Of(m.picks, p))
  <2>1. k \in Nat
    BY SerialsFinite DEF Of
  <2>2. /\ bill.status = "COMPLETED" /\ bill.qty[p] = m.qty[p] /\ bill.back[p] = 0
        /\ bill.lacking[p] = m.qty[p] - k /\ NoBill.status = "NONE"
    BY DEF NewBill, NoBill, None, Lacking
  <2>3. m.qty[p] \in Nat /\ m.qty[p] - k \in Nat
    BY <1>3 DEF Quantities, Lacking
  <2> HIDE DEF k, bill, m
  <2> QED BY <2>1, <2>2, <2>3 DEF Held, Alive, k
<1> HIDE DEF bill
<1>5. \A t \in Sales : sale'[t] = IF t = s THEN bill ELSE sale[t]
  BY <1>2 DEF IInv, TypeOK
<1>6. ASSUME NEW t \in Sales, NEW p \in Products, SerialsOf[p] # {}
      PROVE  Cardinality(OnBillOf(holder', t, p)) = Held(sale'[t], p)
  <2>1. SerialsOf[p] \subseteq Serials
    BY ConstantsAssumption
  <2>2. Cardinality(Linked(t, p)) = Held(sale[t], p)
    BY <1>6 DEF SerialsRight
  <2>3. CASE t = s
    <3>1. Linked(s, p) = {}
      <4>1. IsFiniteSet(Linked(s, p))
        BY SerialsFinite DEF Linked
      <4> QED BY <1>2, <1>4, <2>2, <2>3, <4>1, FS_EmptySet
    <3>2. OnBillOf(holder', s, p) = Of(m.picks, p)
      BY <1>2, <2>1, <3>1 DEF OnBillOf, Of, Linked
    <3> QED BY <1>4, <1>5, <2>3, <3>2
  <2>4. CASE t # s
    <3>1. \A x \in m.picks : holder[x] # t
      BY <1>1, RowsAssumption DEF SerialsFree
    <3>2. OnBillOf(holder', t, p) = Linked(t, p)
      BY <1>2, <2>1, <2>4, <3>1 DEF OnBillOf, Linked
    <3> QED BY <1>5, <2>2, <2>4, <3>2
  <2> QED BY <2>3, <2>4
<1> QED BY <1>6 DEF SerialsRight, Linked, OnBillOf

LEMMA CommitRefundSerials ==
  ASSUME IInv, SerialsRight, NEW r \in Requests, CommitRefund(r)
  PROVE  SerialsRight'
<1> DEFINE s == req[r].sale
           c == Refunded(sale[s], req[r])
<1>1. s \in Sales /\ sale' = [sale EXCEPT ![s] = c]
  BY ReturnAsked DEF CommitRefund
<1>2. \A t \in Sales : sale'[t] = IF t = s THEN c ELSE sale[t]
  BY <1>1 DEF IInv, TypeOK
<1> HIDE DEF c
<1>3. ASSUME NEW t \in Sales, NEW p \in Products, SerialsOf[p] # {}
      PROVE  Cardinality(OnBillOf(holder', t, p)) = Held(sale'[t], p)
  <2>1. Cardinality(OnBillOf(holder', s, p)) = Held(c, p)
    BY <1>3, ReturnedSerials DEF c
  <2>2. t # s => OnBillOf(holder', t, p) = Linked(t, p)
    BY <1>3, ReturnedSerials
  <2>3. Cardinality(Linked(t, p)) = Held(sale[t], p)
    BY <1>3 DEF SerialsRight
  <2> QED BY <1>2, <2>1, <2>2, <2>3
<1> QED BY <1>3 DEF SerialsRight, Linked, OnBillOf

\* No serial moves to the bill an exchange makes.
LEMMA CommitExchangeSerials ==
  ASSUME IInv, SerialsRight, NEW r \in Requests, CommitExchange(r)
  PROVE  SerialsRight'
<1> DEFINE m == req[r]
           b == m.sale
           c == Refunded(sale[b], req[r])
           bill(leg) == NewBill(m, m.take, {leg}, m.take)
<1>1. b \in Sales /\ sale[b].status # "NONE" /\ m.take \in Quantities
  BY ReturnAsked DEF CommitExchange, ReturnRequest
<1>2. PICK s \in Sales : \E leg : sale[s] = NoBill /\ sale' = [sale EXCEPT ![b] = c, ![s] = bill(leg)]
  BY DEF CommitExchange
<1>3. PICK leg : sale[s] = NoBill /\ sale' = [sale EXCEPT ![b] = c, ![s] = bill(leg)]
  BY <1>2
<1> DEFINE new == bill(leg)
<1>4. \A p \in Products : Held(new, p) = 0 /\ Held(NoBill, p) = 0
  <2> SUFFICES ASSUME NEW p \in Products
               PROVE  Held(new, p) = 0 /\ Held(NoBill, p) = 0
    OBVIOUS
  <2>1. new.qty[p] = m.take[p] /\ new.back[p] = 0 /\ new.lacking[p] = m.take[p] /\ NoBill.status = "NONE"
    BY DEF NewBill, NoBill, None
  <2>2. m.take[p] \in Nat
    BY <1>1 DEF Quantities
  <2> HIDE DEF new, m
  <2> QED BY <2>1, <2>2 DEF Held, Alive
<1> HIDE DEF c, new
<1>5. s # b
  BY <1>1, <1>3 DEF NoBill
<1>6. \A t \in Sales : sale'[t] = IF t = b THEN c ELSE IF t = s THEN new ELSE sale[t]
  BY <1>1, <1>3, <1>5 DEF IInv, TypeOK, new
<1>7. ASSUME NEW t \in Sales, NEW p \in Products, SerialsOf[p] # {}
      PROVE  Cardinality(OnBillOf(holder', t, p)) = Held(sale'[t], p)
  <2>1. Cardinality(OnBillOf(holder', b, p)) = Held(c, p)
    BY <1>7, ReturnedSerials DEF c
  <2>2. t # b => OnBillOf(holder', t, p) = Linked(t, p)
    BY <1>7, ReturnedSerials
  <2>3. Cardinality(Linked(t, p)) = Held(sale[t], p)
    BY <1>7 DEF SerialsRight
  <2> QED BY <1>3, <1>4, <1>6, <2>1, <2>2, <2>3
<1> QED BY <1>7 DEF SerialsRight, Linked, OnBillOf

LEMMA CommitMethodSerials ==
  ASSUME IInv, SerialsRight, NEW r \in Requests, CommitMethod(r)
  PROVE  SerialsRight'
<1>1. \A p \in Products, t \in Sales : Held(sale'[t], p) = Held(sale[t], p)
  <2> DEFINE s == req[r].sale
  <2>1. s \in Sales /\ \A t \in Sales \ {s} : sale'[t] = sale[t]
    BY MethodBill
  <2>2. PICK legs : sale' = [sale EXCEPT ![s] = [@ EXCEPT !.legs = legs]]
    BY DEF CommitMethod
  <2> HIDE DEF s
  <2>3. sale[s] \in Bill /\ sale'[s] = [sale[s] EXCEPT !.legs = legs]
    BY <2>1, <2>2 DEF IInv, TypeOK
  <2>4. /\ sale'[s].status = sale[s].status /\ sale'[s].lacking = sale[s].lacking
        /\ sale'[s].qty = sale[s].qty /\ sale'[s].back = sale[s].back
    BY <2>3 DEF Bill
  <2> QED BY <2>1, <2>4 DEF Held, Alive
<1>2. holder' = holder
  BY DEF CommitMethod
<1>3. ASSUME NEW t \in Sales, NEW p \in Products, SerialsOf[p] # {}
      PROVE  Cardinality(OnBillOf(holder', t, p)) = Held(sale'[t], p)
  <2>1. OnBillOf(holder', t, p) = Linked(t, p)
    BY <1>2 DEF OnBillOf, Linked
  <2> QED BY <1>1, <1>3, <2>1 DEF SerialsRight
<1> QED BY <1>3 DEF SerialsRight, Linked, OnBillOf

\* A void frees the serials of its bill, those its snapshot did not know too.
LEMMA CommitVoidSerials ==
  ASSUME IInv, SerialsRight, NEW r \in Requests, CommitVoid(r)
  PROVE  SerialsRight'
<1> DEFINE s == req[r].sale
<1>1. s \in Sales /\ \A t \in Sales \ {s} : sale'[t] = sale[t]
  BY VoidedBill
<1>2. holder' = FreeSerials({x \in Serials : holder[x] = s})
  BY DEF CommitVoid
<1>3. sale'[s].status = "VOIDED"
  <2>1. sale' = [sale EXCEPT ![s] = [@ EXCEPT !.status = "VOIDED"]]
    BY DEF CommitVoid
  <2> HIDE DEF s
  <2> QED BY <1>1, <2>1 DEF IInv, TypeOK, Bill
<1>4. ASSUME NEW t \in Sales, NEW p \in Products, SerialsOf[p] # {}
      PROVE  Cardinality(OnBillOf(holder', t, p)) = Held(sale'[t], p)
  <2>1. SerialsOf[p] \subseteq Serials
    BY ConstantsAssumption
  <2> HIDE DEF s
  <2>2. CASE t = s
    <3>1. OnBillOf(holder', t, p) = {}
      BY <1>2, <2>1, <2>2, RowsAssumption DEF OnBillOf, FreeSerials
    <3>2. Held(sale'[t], p) = 0
      BY <1>3, <2>2 DEF Held, Alive
    <3> QED BY <3>1, <3>2, FS_EmptySet
  <2>3. CASE t # s
    <3>1. OnBillOf(holder', t, p) = Linked(t, p)
      BY <1>2, <2>1, <2>3, RowsAssumption DEF OnBillOf, FreeSerials, Linked
    <3> QED BY <1>1, <1>4, <2>3, <3>1 DEF SerialsRight
  <2> QED BY <2>2, <2>3
<1> QED BY <1>4 DEF SerialsRight, Linked, OnBillOf

LEMMA SerialsInitially == Init => SerialsRight
<1> SUFFICES ASSUME Init
             PROVE  SerialsRight
  OBVIOUS
<1>1. ASSUME NEW s \in Sales, NEW p \in Products
      PROVE  Cardinality(Linked(s, p)) = Held(sale[s], p)
  <2>1. SerialsOf[p] \subseteq Serials
    BY ConstantsAssumption
  <2>2. Linked(s, p) = {}
    BY <2>1, RowsAssumption DEF Init, Linked
  <2>3. Held(sale[s], p) = 0
    BY DEF Init, NoBill, Held, Alive
  <2> QED BY <2>2, <2>3, FS_EmptySet
<1> QED BY <1>1 DEF SerialsRight

LEMMA SerialsInductive == IInv /\ SerialsRight /\ [Next]_vars => SerialsRight'
<1> SUFFICES ASSUME IInv, SerialsRight, [Next]_vars
             PROVE  SerialsRight'
  OBVIOUS
<1>1. ASSUME NEW r \in Requests,
             \/ AskCreate(r) \/ AskRefund(r) \/ AskExchange(r) \/ AskMethod(r) \/ AskVoid(r)
             \/ ClaimMethod(r) \/ Abort(r)
      PROVE  SerialsRight'
  <2>1. UNCHANGED <<sale, holder>>
    BY <1>1, QuietStep
  <2> QED BY <2>1 DEF SerialsRight, Linked
<1>2. ASSUME NEW r \in Requests, CommitCreate(r)
      PROVE  SerialsRight'
  BY <1>2, CommitCreateSerials
<1>3. ASSUME NEW r \in Requests, CommitRefund(r)
      PROVE  SerialsRight'
  BY <1>3, CommitRefundSerials
<1>4. ASSUME NEW r \in Requests, CommitExchange(r)
      PROVE  SerialsRight'
  BY <1>4, CommitExchangeSerials
<1>5. ASSUME NEW r \in Requests, CommitMethod(r)
      PROVE  SerialsRight'
  BY <1>5, CommitMethodSerials
<1>6. ASSUME NEW r \in Requests, CommitVoid(r)
      PROVE  SerialsRight'
  BY <1>6, CommitVoidSerials
<1>7. CASE OpenShift \/ CloseShift \/ UNCHANGED vars
  <2>1. UNCHANGED <<sale, holder>>
    BY <1>7 DEF OpenShift, CloseShift, vars
  <2> QED BY <2>1 DEF SerialsRight, Linked
<1> QED BY <1>1, <1>2, <1>3, <1>4, <1>5, <1>6, <1>7 DEF Next

LEMMA SerialsInvariance == Spec => [](IInv /\ SerialsRight)
<1>1. Init => IInv /\ SerialsRight
  BY Initially, SerialsInitially
<1>2. IInv /\ SerialsRight /\ [Next]_vars => (IInv /\ SerialsRight)'
  BY Inductive, SerialsInductive
<1> QED BY <1>1, <1>2, PTL DEF Spec

\* A line sold by IMEI has exactly the serials of the units still out, less the units sold without a
\* serial of their own, whichever refunds, exchanges and voids raced on it: the serials picked come
\* back, or all that are left.
THEOREM SerialsMatchUnits == Spec => []SerialsFollowUnits
<1>1. IInv /\ SerialsRight => SerialsFollowUnits
  <2> SUFFICES ASSUME IInv, SerialsRight, NEW s \in Sales, NEW p \in Products, SerialsOf[p] # {}
               PROVE  Cardinality(Linked(s, p)) =
                        IF Live(s) /\ Out(s)[p] > sale[s].lacking[p]
                        THEN Out(s)[p] - sale[s].lacking[p] ELSE 0
    BY DEF SerialsFollowUnits
  <2>1. Cardinality(Linked(s, p)) = Held(sale[s], p)
    BY DEF SerialsRight
  <2>2. Out(s)[p] = sale[s].qty[p] - sale[s].back[p]
    BY DEF Out, Minus
  <2> QED BY <2>1, <2>2 DEF Held, Alive, Live
<1> QED BY <1>1, SerialsInvariance, PTL

-----------------------------------------------------------------------------
(* Voids run alone: what was read before a void is so in its transaction   *)

VoidAlone ==
  \A r \in Requests : req[r].op = "void" =>
    LET b == sale[req[r].sale] IN
    /\ \A q \in Requests \ {r} : req[q] = Idle
    /\ Alive(b) /\ ~b.cashCounted /\ req[r].legs = b.legs /\ req[r].back = b.back

\* The entries of a voided bill come to what its refunds paid out
Undone(b, E) == \A m \in Methods : Moved(E, m, "OUT") - Moved(E, m, "IN") = b.paidBack[m]

VoidsUndone == \A s \in Sales : sale[s].status = "VOIDED" => Undone(sale[s], EntriesOf(s))

\* A request that ends leaves no void under way: either it was the void, or there was none.
LEMMA NoVoidLeft ==
  ASSUME IInv, VoidAlone, NEW r \in Requests, req[r] # Idle, Done(r)
  PROVE  \A x \in Requests : req'[x].op # "void"
<1> SUFFICES ASSUME NEW x \in Requests
             PROVE  req'[x].op # "void"
  OBVIOUS
<1>1. req'[x] = IF x = r THEN Idle ELSE req[x]
  BY DEF Done, IInv, TypeOK
<1>2. x # r => req[x].op # "void"
  BY DEF VoidAlone
<1> QED BY <1>1, <1>2 DEF Idle

\* No request comes in while a void is under way, and a void comes in only when none is.
LEMMA NoVoidUnderWay ==
  ASSUME "void" \in Exclusive, IInv, NEW r \in Requests, NEW op, Ready(r, op)
  PROVE  (\A x \in Requests : req[x].op # "void") /\ (op = "void" => \A x \in Requests : req[x] = Idle)
<1>1. ASSUME NEW x \in Requests, req[x].op = "void"
      PROVE  FALSE
  <2>1. req[x] # Idle
    BY <1>1 DEF Idle
  <2>2. x \in Busy
    BY <2>1 DEF Busy
  <2> QED BY <1>1, <2>2 DEF Ready
<1>2. ASSUME op = "void", NEW x \in Requests
      PROVE  req[x] = Idle
  BY <1>2 DEF Ready, Busy
<1> QED BY <1>1, <1>2

LEMMA AskAlone ==
  ASSUME "void" \in Exclusive, IInv, Figures, NEW r \in Requests,
         AskCreate(r) \/ AskRefund(r) \/ AskExchange(r) \/ AskMethod(r) \/ AskVoid(r)
  PROVE  VoidAlone'
<1>1. CASE AskVoid(r)
  <2>1. \A x \in Requests : req[x] = Idle
    BY <1>1, NoVoidUnderWay DEF AskVoid
  <2>2. PICK s \in Sales :
          /\ sale[s].status \notin {"NONE", "VOIDED"}
          /\ ShiftOpen(sale[s].shift)
          /\ Ask(r, [op |-> "void", sale |-> s, back |-> sale[s].back, legs |-> sale[s].legs])
    BY <1>1 DEF AskVoid
  <2> DEFINE m == [op |-> "void", sale |-> s, back |-> sale[s].back, legs |-> sale[s].legs]
  <2>3. m.sale = s /\ m.back = sale[s].back /\ m.legs = sale[s].legs
    OBVIOUS
  <2>4. req' = [req EXCEPT ![r] = m] /\ sale' = sale
    BY <2>2 DEF Ask
  <2>5. Alive(sale[s]) /\ ~sale[s].cashCounted
    BY <2>2 DEF Alive, Figures, BillsFit, PastShift
  <2> HIDE DEF m
  <2>6. req'[r] = m /\ \A x \in Requests \ {r} : req'[x] = Idle
    BY <2>1, <2>4 DEF IInv, TypeOK
  <2>7. \A x \in Requests : req'[x].op = "void" => x = r
    BY <2>6 DEF Idle
  <2> QED BY <2>3, <2>4, <2>5, <2>6, <2>7 DEF VoidAlone
<1>2. CASE AskCreate(r) \/ AskRefund(r) \/ AskExchange(r) \/ AskMethod(r)
  <2>1. \A x \in Requests : req[x].op # "void"
    BY <1>2, NoVoidUnderWay DEF AskCreate, AskRefund, AskExchange, AskMethod
  <2>2. \E m : m.op # "void" /\ Ask(r, m)
    <3>1. CASE AskRefund(r) \/ AskExchange(r)
      <4>0. PICK op \in {"refund", "exchange"} : \E s, take, total : AskReturn(r, op, s, take, total)
        BY <3>1 DEF AskRefund, AskExchange
      <4>1. PICK s, take, total : AskReturn(r, op, s, take, total)
        BY <4>0
      <4>2. PICK give, method, amount, picks :
              Ask(r, [op |-> op, sale |-> s, give |-> give, amount |-> amount, picks |-> picks,
                      method |-> method, take |-> take, total |-> total,
                      shift |-> shift.no, cashCounted |-> FALSE])
        BY <4>1 DEF AskReturn
      <4> DEFINE m == [op |-> op, sale |-> s, give |-> give, amount |-> amount, picks |-> picks,
                       method |-> method, take |-> take, total |-> total,
                       shift |-> shift.no, cashCounted |-> FALSE]
      <4>3. m.op # "void" /\ Ask(r, m)
        BY <4>2
      <4> HIDE DEF m
      <4> QED BY <4>3
    <3>2. CASE AskMethod(r)
      <4>1. PICK s, leg, method : Ask(r, [op |-> "method", sale |-> s, leg |-> leg, method |-> method,
                                                    claimed |-> FALSE])
        BY <3>2 DEF AskMethod
      <4> QED BY <4>1
    <3>3. CASE AskCreate(r)
      <4>1. PICK q, total, legs, picks, n, counted :
              Ask(r, [op |-> "create", qty |-> q, total |-> total, legs |-> legs, picks |-> picks,
                      shift |-> n, cashCounted |-> counted])
        BY <3>3, Zenon DEF AskCreate
      <4> QED BY <4>1
    <3> QED BY <1>2, <3>1, <3>2, <3>3
  <2>3. PICK m : m.op # "void" /\ Ask(r, m)
    BY <2>2
  <2>4. \A x \in Requests : req'[x] = IF x = r THEN m ELSE req[x]
    BY <2>3 DEF Ask, IInv, TypeOK
  <2>5. \A x \in Requests : req'[x].op # "void"
    BY <2>1, <2>3, <2>4
  <2> QED BY <2>5 DEF VoidAlone
<1> QED BY <1>1, <1>2

LEMMA AloneInductive ==
  ASSUME "void" \in Exclusive, IInv, Figures, VoidAlone, [Next]_vars
  PROVE  VoidAlone'
<1>1. ASSUME NEW r \in Requests,
             AskCreate(r) \/ AskRefund(r) \/ AskExchange(r) \/ AskMethod(r) \/ AskVoid(r)
      PROVE  VoidAlone'
  BY <1>1, AskAlone
<1>2. ASSUME NEW r \in Requests, CommitCreate(r) \/ CommitRefund(r) \/ CommitExchange(r)
                                 \/ CommitMethod(r) \/ CommitVoid(r) \/ Abort(r)
      PROVE  VoidAlone'
  <2>0. req[r] # Idle /\ Done(r)
    <3>1. CASE Abort(r)
      BY <3>1 DEF Abort
    <3>2. CASE CommitCreate(r)
      <4>1. req[r].op = "create" /\ Done(r)
        BY <3>2, Zenon DEF CommitCreate
      <4> QED BY <4>1 DEF Idle
    <3>3. CASE CommitRefund(r)
      <4>1. req[r].op = "refund" /\ Done(r)
        BY <3>3, Zenon DEF CommitRefund
      <4> QED BY <4>1 DEF Idle
    <3>4. CASE CommitExchange(r)
      <4>1. req[r].op = "exchange" /\ Done(r)
        BY <3>4, Zenon DEF CommitExchange
      <4> QED BY <4>1 DEF Idle
    <3>5. CASE CommitMethod(r)
      <4>1. req[r].op = "method" /\ Done(r)
        BY <3>5, Zenon DEF CommitMethod
      <4> QED BY <4>1 DEF Idle
    <3>6. CASE CommitVoid(r)
      <4>1. req[r].op = "void" /\ Done(r)
        BY <3>6, Zenon DEF CommitVoid
      <4> QED BY <4>1 DEF Idle
    <3> QED BY <1>2, <3>1, <3>2, <3>3, <3>4, <3>5, <3>6
  <2>3. \A x \in Requests : req'[x].op # "void"
    BY <2>0, NoVoidLeft
  <2> QED BY <2>3 DEF VoidAlone
<1>3. CASE OpenShift \/ CloseShift \/ UNCHANGED vars
  <2>1. UNCHANGED <<sale, req>>
    BY <1>3 DEF OpenShift, CloseShift, vars
  <2> QED BY <2>1 DEF VoidAlone
<1>4. ASSUME NEW r \in Requests, ClaimMethod(r)
      PROVE  VoidAlone'
  <2>1. req[r].op = "method" /\ req' = [req EXCEPT ![r] = [@ EXCEPT !.claimed = TRUE]]
    BY <1>4 DEF ClaimMethod
  <2>2. \A x \in Requests : req[x].op # "void"
    BY <2>1 DEF VoidAlone, Idle
  <2>3. req[r] \in MethodRequest
    BY <2>1 DEF IInv, TypeOK, Request, Idle, CreateRequest, ReturnRequest, VoidRequest
  <2>4. req'[r].op = "method" /\ \A x \in Requests \ {r} : req'[x] = req[x]
    BY <2>1, <2>3 DEF MethodRequest, IInv, TypeOK
  <2> QED BY <2>2, <2>4 DEF VoidAlone
<1> QED BY <1>1, <1>2, <1>3, <1>4 DEF Next

-----------------------------------------------------------------------------
(* What each transaction does to stock and bills                           *)

\* Units of product p the customer of bill b has
Units(b, p) == IF Alive(b) THEN b.qty[p] - b.back[p] ELSE 0

\* Only bill s and its entries change, and its units come from stock and go back there
OneBillStep(s) ==
  /\ \A t \in Sales \ {s} : sale'[t] = sale[t] /\ {e \in drawer' : e.s = t} = EntriesOf(t)
  /\ \A p \in Products : stock'[p] + Units(sale'[s], p) = stock[p] + Units(sale[s], p)

LEMMA CreateUnits ==
  ASSUME IInv, NEW r \in Requests, CommitCreate(r)
  PROVE  \E s \in Sales : OneBillStep(s) /\ sale[s].status = "NONE" /\ sale'[s].status = "COMPLETED"
<1> DEFINE m == req[r]
           bill == NewBill(m, m.qty, m.legs, Lacking(m.qty, m.picks))
<1>1. m \in CreateRequest
  BY DEF CommitCreate, IInv, TypeOK, Request, Idle, ReturnRequest, MethodRequest, VoidRequest
<1>2. m.qty \in Quantities /\ stock \in Quantities
  BY <1>1 DEF CreateRequest, IInv, TypeOK, Quantities
<1>3. PICK s \in Sales :
        /\ sale[s] = NoBill
        /\ sale' = [sale EXCEPT ![s] = bill]
        /\ drawer' = Record(drawer, LegEntries("SALE_PAYMENT", "IN", s, CountedLegs(bill)))
  BY DEF CommitCreate
<1>4. stock' = Minus(stock, m.qty)
  BY DEF CommitCreate
<1>5. bill.status = "COMPLETED" /\ \A p \in Products : Units(bill, p) = m.qty[p] /\ Units(NoBill, p) = 0
  <2>1. bill.status = "COMPLETED" /\ bill.qty = m.qty /\ bill.back = None /\ NoBill.status = "NONE"
    BY DEF NewBill, NoBill
  <2>2. \A p \in Products : None[p] = 0 /\ m.qty[p] \in Nat
    BY <1>2 DEF None, Quantities
  <2> HIDE DEF bill, m
  <2> QED BY <2>1, <2>2 DEF Units, Alive
<1> HIDE DEF bill
<1> DEFINE es == LegEntries("SALE_PAYMENT", "IN", s, CountedLegs(bill))
<1>6. \A e \in es : e.s = s
  BY DEF LegEntries, Entry
<1>7. drawer' = Record(drawer, es) /\ \A e \in es : e.s = s
  BY <1>3, <1>6
<1> HIDE DEF es, m
<1>8. sale'[s] = bill /\ \A t \in Sales \ {s} : sale'[t] = sale[t]
  BY <1>3 DEF IInv, TypeOK
<1>9. \A t \in Sales \ {s} : {e \in drawer' : e.s = t} = EntriesOf(t)
  BY <1>7 DEF Record, EntriesOf
<1>10. ASSUME NEW p \in Products
       PROVE  stock'[p] + Units(sale'[s], p) = stock[p] + Units(sale[s], p)
  <2>1. stock'[p] = stock[p] - m.qty[p] /\ stock[p] \in Nat /\ m.qty[p] \in Nat
    BY <1>2, <1>4 DEF Minus, Quantities
  <2> QED BY <1>3, <1>5, <1>8, <2>1
<1>11. sale[s].status = "NONE"
  BY <1>3 DEF NoBill
<1> QED BY <1>5, <1>8, <1>9, <1>10, <1>11 DEF OneBillStep

\* A return: the bill lives on with fewer units, and as many are back.
LEMMA ReturnUnits ==
  ASSUME IInv, NEW r \in Requests, CommitRefund(r) \/ CommitExchange(r)
  PROVE  LET m == req[r]
             b == sale[m.sale]
             c == Refunded(b, m)
         IN
         /\ m.sale \in Sales /\ Alive(b) /\ Alive(c)
         /\ stock \in Quantities /\ m.give \in Quantities /\ m.take \in Quantities
         /\ RefundEntry(m).s = m.sale
         /\ \A p \in Products : /\ Units(b, p) \in Nat /\ Units(c, p) \in Nat
                                /\ Units(c, p) = Units(b, p) - m.give[p]
<1> DEFINE m == req[r]
           b == sale[m.sale]
           c == Refunded(b, m)
<1>1. /\ m \in ReturnRequest /\ m.sale \in Sales /\ b \in Bill /\ b.status # "NONE"
      /\ ValidRefund(b, m)
  BY ReturnAsked DEF CommitRefund, CommitExchange
<1>2. /\ b.qty \in Quantities /\ b.back \in Quantities /\ m.give \in Quantities /\ m.take \in Quantities
      /\ stock \in Quantities
  BY <1>1 DEF Bill, ReturnRequest, IInv, TypeOK, Quantities
<1>3. /\ c.qty = b.qty /\ c.back = Plus(b.back, m.give) /\ c.status \in {"REFUNDED", "PARTIAL_REFUND"}
  BY <1>1 DEF Refunded, Bill
<1>4. Alive(b)
  BY <1>1 DEF ValidRefund, Alive
<1>5. RefundEntry(m).s = m.sale
  BY DEF RefundEntry, Entry
<1>6. \A p \in Products : m.give[p] <= b.qty[p] - b.back[p]
  BY <1>1 DEF ValidRefund
<1> HIDE DEF c, b, m
<1>7. Alive(c)
  BY <1>3 DEF Alive
<1>8. ASSUME NEW p \in Products
      PROVE  Units(b, p) \in Nat /\ Units(c, p) \in Nat /\ Units(c, p) = Units(b, p) - m.give[p]
  <2>1. /\ b.qty[p] \in Nat /\ b.back[p] \in Nat /\ m.give[p] \in Nat
        /\ c.back[p] = b.back[p] + m.give[p] /\ c.qty[p] = b.qty[p]
    BY <1>2, <1>3 DEF Quantities, Plus
  <2>2. Units(b, p) = b.qty[p] - b.back[p] /\ Units(c, p) = b.qty[p] - (b.back[p] + m.give[p])
    BY <1>4, <1>7, <2>1 DEF Units
  <2> QED BY <1>6, <2>1, <2>2
<1>9. /\ m.sale \in Sales /\ Alive(b) /\ Alive(c)
      /\ stock \in Quantities /\ m.give \in Quantities /\ m.take \in Quantities
      /\ RefundEntry(m).s = m.sale
      /\ \A p \in Products : /\ Units(b, p) \in Nat /\ Units(c, p) \in Nat
                             /\ Units(c, p) = Units(b, p) - m.give[p]
  BY <1>1, <1>2, <1>4, <1>5, <1>7, <1>8
<1> QED BY <1>9 DEF c, b, m

LEMMA RefundUnits ==
  ASSUME IInv, NEW r \in Requests, CommitRefund(r)
  PROVE  LET s == req[r].sale IN
         s \in Sales /\ OneBillStep(s) /\ Alive(sale[s]) /\ Alive(sale'[s])
<1> DEFINE m == req[r]
           s == m.sale
           b == sale[s]
           c == Refunded(b, m)
           x == RefundEntry(m)
<1>1. /\ s \in Sales /\ Alive(b) /\ Alive(c) /\ stock \in Quantities /\ m.give \in Quantities /\ x.s = s
      /\ \A p \in Products : Units(b, p) \in Nat /\ Units(c, p) = Units(b, p) - m.give[p]
  BY ReturnUnits
<1>2. sale' = [sale EXCEPT ![s] = c] /\ drawer' = Record(drawer, {x}) /\ stock' = Plus(stock, m.give)
  BY DEF CommitRefund
<1> HIDE DEF c, x, m, s, b
<1>3. sale'[s] = c /\ \A t \in Sales \ {s} : sale'[t] = sale[t]
  BY <1>1, <1>2 DEF IInv, TypeOK
<1>4. \A t \in Sales \ {s} : {e \in drawer' : e.s = t} = EntriesOf(t)
  BY <1>1, <1>2 DEF Record, EntriesOf
<1>5. ASSUME NEW p \in Products
      PROVE  stock'[p] + Units(sale'[s], p) = stock[p] + Units(b, p)
  <2>1. stock'[p] = stock[p] + m.give[p] /\ stock[p] \in Nat /\ m.give[p] \in Nat
    BY <1>1, <1>2 DEF Plus, Quantities
  <2> QED BY <1>1, <1>3, <2>1
<1>6. s \in Sales /\ OneBillStep(s) /\ Alive(sale[s]) /\ Alive(sale'[s])
  BY <1>1, <1>3, <1>4, <1>5 DEF OneBillStep, b
<1> QED BY <1>6 DEF s, m

\* An exchange: one bill gives units back, another takes what it sells.
LEMMA ExchangeUnits ==
  ASSUME IInv, NEW r \in Requests, CommitExchange(r)
  PROVE  \E s, n \in Sales :
           /\ s # n /\ Alive(sale[s]) /\ Alive(sale'[s])
           /\ sale[n].status = "NONE" /\ sale'[n].status = "COMPLETED"
           /\ \A t \in Sales \ {s, n} : sale'[t] = sale[t]
           /\ \A t \in Sales \ {s, n} : {e \in drawer' : e.s = t} = EntriesOf(t)
           /\ \A p \in Products :
                stock'[p] + Units(sale'[s], p) + Units(sale'[n], p) =
                  stock[p] + Units(sale[s], p) + Units(sale[n], p)
<1> DEFINE m == req[r]
           s == m.sale
           b == sale[s]
           c == Refunded(b, m)
           x == RefundEntry(m)
           leg == [n |-> 1, method |-> m.method, amount |-> m.total]
           bill == NewBill(m, m.take, {leg}, m.take)
<1>1. /\ s \in Sales /\ Alive(b) /\ Alive(c) /\ stock \in Quantities /\ m.give \in Quantities
      /\ m.take \in Quantities /\ x.s = s
      /\ \A p \in Products : Units(b, p) \in Nat /\ Units(c, p) = Units(b, p) - m.give[p]
  BY ReturnUnits
<1>2. PICK n \in Sales :
        /\ sale[n] = NoBill
        /\ sale' = [sale EXCEPT ![s] = c, ![n] = bill]
        /\ drawer' = Record(drawer, {x} \cup LegEntries("SALE_PAYMENT", "IN", n, bill.legs))
  BY DEF CommitExchange
<1>3. stock' = Minus(Plus(stock, m.give), m.take)
  BY DEF CommitExchange
<1>4. bill.status = "COMPLETED" /\ \A p \in Products : Units(bill, p) = m.take[p] /\ Units(NoBill, p) = 0
  <2>1. bill.status = "COMPLETED" /\ bill.qty = m.take /\ bill.back = None /\ NoBill.status = "NONE"
    BY DEF NewBill, NoBill
  <2>2. \A p \in Products : None[p] = 0 /\ m.take[p] \in Nat
    BY <1>1 DEF None, Quantities
  <2> HIDE DEF bill, m
  <2> QED BY <2>1, <2>2 DEF Units, Alive
<1>5. sale[n].status = "NONE" /\ n # s
  BY <1>1, <1>2 DEF NoBill, Alive
<1> HIDE DEF bill, leg
<1> DEFINE es == LegEntries("SALE_PAYMENT", "IN", n, bill.legs)
<1>6. \A e \in es : e.s = n
  BY DEF LegEntries, Entry
<1>7. drawer' = Record(drawer, {x} \cup es)
  BY <1>2
<1> HIDE DEF es, m, s, b, c, x
<1>8. sale'[s] = c /\ sale'[n] = bill /\ \A t \in Sales \ {s, n} : sale'[t] = sale[t]
  BY <1>1, <1>2, <1>5 DEF IInv, TypeOK
<1>9. \A t \in Sales \ {s, n} : {e \in drawer' : e.s = t} = EntriesOf(t)
  BY <1>1, <1>6, <1>7 DEF Record, EntriesOf
<1>10. ASSUME NEW p \in Products
       PROVE  stock'[p] + Units(sale'[s], p) + Units(sale'[n], p) =
                stock[p] + Units(sale[s], p) + Units(sale[n], p)
  <2>1. /\ stock'[p] = stock[p] + m.give[p] - m.take[p]
        /\ stock[p] \in Nat /\ m.give[p] \in Nat /\ m.take[p] \in Nat
    BY <1>1, <1>3 DEF Plus, Minus, Quantities
  <2>2. Units(sale[s], p) \in Nat /\ Units(sale'[s], p) = Units(sale[s], p) - m.give[p]
    BY <1>1, <1>8 DEF b
  <2>3. Units(sale[n], p) = 0 /\ Units(sale'[n], p) = m.take[p]
    BY <1>2, <1>4, <1>8
  <2> QED BY <2>1, <2>2, <2>3
<1> QED BY <1>1, <1>4, <1>5, <1>8, <1>9, <1>10 DEF b

\* A change of payment method moves no goods.
LEMMA MethodUnits ==
  ASSUME IInv, NEW r \in Requests, CommitMethod(r)
  PROVE  LET s == req[r].sale IN
         s \in Sales /\ OneBillStep(s) /\ Alive(sale[s]) /\ Alive(sale'[s])
<1> DEFINE m == req[r]
           s == m.sale
           leg == [n |-> m.leg.n + 1, method |-> m.method, amount |-> sale[s].total]
           es == LegEntries("REVERSAL", "OUT", s, {m.leg}) \cup LegEntries("SALE_PAYMENT", "IN", s, {leg})
<1>1. s \in Sales /\ sale[s].status = "COMPLETED" /\ \A t \in Sales \ {s} : sale'[t] = sale[t]
  BY MethodBill
<1>2. stock' = stock /\ drawer' = Record(drawer, es)
  BY DEF CommitMethod
<1>3. PICK legs : sale' = [sale EXCEPT ![s] = [@ EXCEPT !.legs = legs]]
  BY DEF CommitMethod
<1> HIDE DEF leg, m, s
<1>4. \A e \in es : e.s = s
  BY DEF LegEntries, Entry
<1> HIDE DEF es
<1>5. \A t \in Sales \ {s} : {e \in drawer' : e.s = t} = EntriesOf(t)
  BY <1>2, <1>4 DEF Record, EntriesOf
<1>6. sale[s] \in Bill /\ sale'[s] = [sale[s] EXCEPT !.legs = legs]
  BY <1>1, <1>3 DEF IInv, TypeOK
<1>7. sale'[s].status = sale[s].status /\ sale'[s].qty = sale[s].qty /\ sale'[s].back = sale[s].back
  BY <1>6 DEF Bill
<1>8. \A p \in Products : stock'[p] + Units(sale'[s], p) = stock[p] + Units(sale[s], p)
  BY <1>2, <1>7 DEF Units, Alive
<1>9. s \in Sales /\ OneBillStep(s) /\ Alive(sale[s]) /\ Alive(sale'[s])
  BY <1>1, <1>5, <1>7, <1>8 DEF OneBillStep, Alive
<1> QED BY <1>9 DEF s, m

\* A void that read what is still so puts back the units that are out, and takes out the payments.
LEMMA VoidUnits ==
  ASSUME IInv, Figures, VoidAlone, NEW r \in Requests, CommitVoid(r)
  PROVE  LET s == req[r].sale IN
         s \in Sales /\ OneBillStep(s) /\ Undone(sale'[s], {e \in drawer' : e.s = s})
<1> DEFINE m == req[r]
           s == m.sale
           b == sale[s]
           c == [b EXCEPT !.status = "VOIDED"]
           L == b.legs
           E == EntriesOf(s)
           es == LegEntries("SALE_REFUND", "OUT", s, L)
<1>1. m \in VoidRequest
  BY DEF CommitVoid, IInv, TypeOK, Request, Idle, CreateRequest, ReturnRequest, MethodRequest
<1>2. s \in Sales /\ b \in Bill /\ BillOK(b)
  BY <1>1 DEF VoidRequest, IInv, TypeOK
<1>3. Alive(b) /\ ~b.cashCounted /\ m.legs = L /\ m.back = b.back
  BY DEF CommitVoid, VoidAlone
<1>4. sale' = [sale EXCEPT ![s] = c] /\ stock' = Plus(stock, Minus(b.qty, b.back)) /\ drawer' = Record(drawer, es)
  BY <1>3 DEF CommitVoid, Restored, VoidEntries
<1>5. c.status = "VOIDED" /\ c.paidBack = b.paidBack
  BY <1>2 DEF Bill
<1>6. L \in SUBSET Leg /\ IsFiniteSet(L) /\ BillFits(b, E) /\ E \in SUBSET LedgerEntry /\ Priced(E)
  BY <1>2, EntriesType DEF Bill, Figures, BillsFit, BillFits
<1>7. KeysFit(b, E) /\ Balanced(b, E) /\ b.paidBack \in [Methods -> Nat]
  BY <1>2, <1>3, <1>6 DEF BillFits, Bill
<1>8. b.qty \in Quantities /\ b.back \in Quantities /\ stock \in Quantities
  BY <1>2 DEF Bill, IInv, TypeOK, Quantities
<1> HIDE DEF c, E, s, m, b
<1>9. sale'[s] = c /\ \A t \in Sales \ {s} : sale'[t] = sale[t]
  BY <1>2, <1>4 DEF IInv, TypeOK
<1>10. Priced(es) /\ \A e \in es : e.src = "SALE_REFUND" /\ e.s = s
  <2> HIDE DEF L
  <2>1. Priced(LegEntries("SALE_REFUND", "OUT", s, L))
    BY <1>6, MovedByLegs
  <2>2. \A e \in es : e.src = "SALE_REFUND" /\ e.s = s
    BY DEF LegEntries, Entry
  <2> QED BY <2>1, <2>2
<1>11. ASSUME NEW y \in Methods
       PROVE  Moved(es, y, "IN") = 0 /\ Moved(es, y, "OUT") = PaidBy(L, y)
  <2> HIDE DEF L
  <2> QED BY <1>6, MovedByLegs
<1> HIDE DEF es
<1>12. drawer' = drawer \cup es
  <2>1. \A e \in es, x \in drawer : ~(x.src = e.src /\ x.n = e.n /\ x.s = e.s)
    BY <1>7, <1>10 DEF KeysFit, E, EntriesOf
  <2> QED BY <1>4, <2>1, RecordNew
<1>13. /\ {e \in drawer' : e.s = s} = E \cup es /\ E \cap es = {}
       /\ \A t \in Sales \ {s} : {e \in drawer' : e.s = t} = EntriesOf(t)
  BY <1>7, <1>10, <1>12 DEF KeysFit, E, EntriesOf
<1>14. ASSUME NEW y \in Methods
       PROVE  Moved(E \cup es, y, "OUT") - Moved(E \cup es, y, "IN") = c.paidBack[y]
  <2>1. /\ Moved(E \cup es, y, "IN") = Moved(E, y, "IN") + Moved(es, y, "IN")
        /\ Moved(E \cup es, y, "OUT") = Moved(E, y, "OUT") + Moved(es, y, "OUT")
        /\ Moved(E, y, "IN") \in Nat /\ Moved(E, y, "OUT") \in Nat
    <3>1. Priced(E) /\ Priced(es) /\ E \cap es = {}
      BY <1>6, <1>10, <1>13
    <3> QED BY <3>1, MovedWhole
  <2>2. Moved(E, y, "IN") - Moved(E, y, "OUT") = PaidBy(L, y) - b.paidBack[y]
    BY <1>3, <1>7 DEF Balanced, OwedBy
  <2>3. PaidBy(L, y) \in Nat
    <3> HIDE DEF L
    <3> QED BY <1>6, PaidByNat
  <2>4. b.paidBack[y] \in Nat /\ c.paidBack[y] = b.paidBack[y]
    BY <1>5, <1>7
  <2> QED BY <1>11, <2>1, <2>2, <2>3, <2>4
<1>15. Undone(sale'[s], {e \in drawer' : e.s = s})
  BY <1>9, <1>13, <1>14 DEF Undone
<1>16. ASSUME NEW p \in Products
       PROVE  stock'[p] + Units(sale'[s], p) = stock[p] + Units(sale[s], p)
  <2>1. /\ stock'[p] = stock[p] + (b.qty[p] - b.back[p])
        /\ stock[p] \in Nat /\ b.qty[p] \in Nat /\ b.back[p] \in Nat
    BY <1>4, <1>8 DEF Plus, Minus, Quantities
  <2>2. Units(sale'[s], p) = 0 /\ Units(sale[s], p) = b.qty[p] - b.back[p]
    BY <1>3, <1>5, <1>9 DEF Units, Alive, b
  <2> QED BY <2>1, <2>2
<1>17. s \in Sales /\ OneBillStep(s) /\ Undone(sale'[s], {e \in drawer' : e.s = s})
  BY <1>2, <1>9, <1>13, <1>15, <1>16 DEF OneBillStep
<1> QED BY <1>17 DEF s, m

-----------------------------------------------------------------------------
(* A void that runs alone loses nothing                                    *)

UnitsOut(p) == [s \in Sales |-> Units(sale[s], p)]

Conserved ==
  \A p \in Products : stock[p] + SumFunctionOnSet(UnitsOut(p), Sales) = InitialStock[p]

\* What the customer has of a line is a number.
LEMMA UnitsNat ==
  ASSUME NEW b \in Bill, BillOK(b), NEW p \in Products
  PROVE  Units(b, p) \in Nat
<1>1. b.qty[p] \in Nat /\ b.back[p] \in Nat /\ b.back[p] <= b.qty[p]
  BY DEF Bill, Quantities, BillOK
<1>2. b.qty[p] - b.back[p] \in Nat
  BY <1>1
<1> QED BY <1>2 DEF Units

\* Voids are undone, and no unit is lost, when one bill changes.
LEMMA OneBillKeeps ==
  ASSUME IInv, IInv', VoidsUndone, Conserved, NEW s \in Sales, OneBillStep(s),
         sale'[s].status = "VOIDED" => Undone(sale'[s], {e \in drawer' : e.s = s})
  PROVE  VoidsUndone' /\ Conserved'
<1>1. ASSUME NEW t \in Sales, sale'[t].status = "VOIDED"
      PROVE  Undone(sale'[t], {e \in drawer' : e.s = t})
  <2>1. CASE t = s
    BY <1>1, <2>1
  <2>2. CASE t # s
    <3>1. sale'[t] = sale[t] /\ {e \in drawer' : e.s = t} = EntriesOf(t)
      BY <2>2 DEF OneBillStep
    <3>2. Undone(sale[t], EntriesOf(t))
      BY <1>1, <3>1 DEF VoidsUndone
    <3> QED BY <3>1, <3>2
  <2> QED BY <2>1, <2>2
<1>2. VoidsUndone'
  BY <1>1 DEF VoidsUndone, EntriesOf
<1>3. ASSUME NEW p \in Products
      PROVE  stock'[p] + SumFunctionOnSet([t \in Sales |-> Units(sale'[t], p)], Sales) = InitialStock[p]
  <2> DEFINE f == UnitsOut(p)
             g == [t \in Sales |-> Units(sale'[t], p)]
  <2>1. \A t \in Sales : f[t] = Units(sale[t], p) /\ g[t] = Units(sale'[t], p)
    BY DEF UnitsOut
  <2>2. \A t \in Sales : Units(sale[t], p) \in Nat /\ Units(sale'[t], p) \in Nat
    BY UnitsNat DEF IInv, TypeOK
  <2>3. /\ stock[p] + SumFunctionOnSet(f, Sales) = InitialStock[p]
        /\ stock[p] \in Nat /\ stock'[p] \in Nat /\ InitialStock[p] \in Nat
    BY ConstantsAssumption DEF Conserved, IInv, TypeOK
  <2>4. /\ \A t \in Sales \ {s} : sale'[t] = sale[t]
        /\ stock'[p] + Units(sale'[s], p) = stock[p] + Units(sale[s], p)
    BY DEF OneBillStep
  <2> HIDE DEF f, g
  <2>5. \A t \in Sales \ {s} : f[t] = g[t]
    BY <2>1, <2>4
  <2>6. SumFunctionOnSet(f, Sales) + g[s] = SumFunctionOnSet(g, Sales) + f[s]
    BY <2>1, <2>2, <2>5, RowsAssumption, SumChange
  <2>7. SumFunctionOnSet(f, Sales) \in Nat /\ SumFunctionOnSet(g, Sales) \in Nat
    BY <2>1, <2>2, RowsAssumption, SumNat
  <2>8. stock'[p] + g[s] = stock[p] + f[s] /\ g[s] \in Nat /\ f[s] \in Nat
    BY <2>1, <2>2, <2>4
  <2>9. stock'[p] + SumFunctionOnSet(g, Sales) = InitialStock[p]
    BY <2>3, <2>6, <2>7, <2>8
  <2> QED BY <2>9 DEF g
<1>4. Conserved'
  BY <1>3 DEF Conserved, UnitsOut
<1> QED BY <1>2, <1>4

\* Neither is any when an exchange changes two.
LEMMA ExchangeKeeps ==
  ASSUME IInv, IInv', VoidsUndone, Conserved, NEW r \in Requests, CommitExchange(r)
  PROVE  VoidsUndone' /\ Conserved'
<1>1. PICK s, n \in Sales :
        /\ s # n /\ Alive(sale[s]) /\ Alive(sale'[s])
        /\ sale[n].status = "NONE" /\ sale'[n].status = "COMPLETED"
        /\ \A t \in Sales \ {s, n} : sale'[t] = sale[t]
        /\ \A t \in Sales \ {s, n} : {e \in drawer' : e.s = t} = EntriesOf(t)
        /\ \A p \in Products :
             stock'[p] + Units(sale'[s], p) + Units(sale'[n], p) =
               stock[p] + Units(sale[s], p) + Units(sale[n], p)
  BY ExchangeUnits
<1>2. ASSUME NEW t \in Sales, sale'[t].status = "VOIDED"
      PROVE  Undone(sale'[t], {e \in drawer' : e.s = t})
  <2>1. t # s /\ t # n
    BY <1>1, <1>2 DEF Alive
  <2>2. sale'[t] = sale[t] /\ {e \in drawer' : e.s = t} = EntriesOf(t)
    BY <1>1, <2>1
  <2>3. Undone(sale[t], EntriesOf(t))
    BY <1>2, <2>2 DEF VoidsUndone
  <2> QED BY <2>2, <2>3
<1>3. VoidsUndone'
  BY <1>2 DEF VoidsUndone, EntriesOf
<1>4. ASSUME NEW p \in Products
      PROVE  stock'[p] + SumFunctionOnSet([t \in Sales |-> Units(sale'[t], p)], Sales) = InitialStock[p]
  <2> DEFINE f == UnitsOut(p)
             g == [t \in Sales |-> Units(sale'[t], p)]
             h == [t \in Sales |-> IF t = s THEN g[s] ELSE f[t]]
  <2>1. \A t \in Sales : f[t] = Units(sale[t], p) /\ g[t] = Units(sale'[t], p)
    BY DEF UnitsOut
  <2>2. \A t \in Sales : Units(sale[t], p) \in Nat /\ Units(sale'[t], p) \in Nat
    BY UnitsNat DEF IInv, TypeOK
  <2>3. /\ stock[p] + SumFunctionOnSet(f, Sales) = InitialStock[p]
        /\ stock[p] \in Nat /\ stock'[p] \in Nat /\ InitialStock[p] \in Nat
    BY ConstantsAssumption DEF Conserved, IInv, TypeOK
  <2>4. h[s] = g[s] /\ \A t \in Sales \ {s} : h[t] = f[t]
    OBVIOUS
  <2> HIDE DEF f, g, h
  <2>5. \A t \in Sales : f[t] \in Nat /\ g[t] \in Nat /\ h[t] \in Nat
    BY <2>1, <2>2, <2>4
  <2>6. (\A t \in Sales \ {s} : f[t] = h[t]) /\ (\A t \in Sales \ {n} : h[t] = g[t]) /\ h[n] = f[n]
    BY <1>1, <2>1, <2>4
  <2>7. SumFunctionOnSet(f, Sales) + h[s] = SumFunctionOnSet(h, Sales) + f[s]
    BY <2>5, <2>6, RowsAssumption, SumChange
  <2>8. SumFunctionOnSet(h, Sales) + g[n] = SumFunctionOnSet(g, Sales) + h[n]
    BY <2>5, <2>6, RowsAssumption, SumChange
  <2>9. /\ SumFunctionOnSet(f, Sales) \in Nat /\ SumFunctionOnSet(g, Sales) \in Nat
        /\ SumFunctionOnSet(h, Sales) \in Nat
    BY <2>5, RowsAssumption, SumNat
  <2>10. stock'[p] + g[s] + g[n] = stock[p] + f[s] + f[n]
    BY <1>1, <2>1
  <2>11. g[s] \in Nat /\ f[s] \in Nat /\ g[n] \in Nat /\ f[n] \in Nat
    BY <2>5
  <2>12. stock'[p] + SumFunctionOnSet(g, Sales) = InitialStock[p]
    <3> DEFINE F == SumFunctionOnSet(f, Sales)
               G == SumFunctionOnSet(g, Sales)
               H == SumFunctionOnSet(h, Sales)
    <3>1. F + g[s] = H + f[s] /\ H + g[n] = G + f[n] /\ stock[p] + F = InitialStock[p]
      BY <2>3, <2>4, <2>6, <2>7, <2>8
    <3>2. F \in Nat /\ G \in Nat /\ H \in Nat
      BY <2>9
    <3> HIDE DEF F, G, H
    <3>3. stock'[p] + G = InitialStock[p]
      <4> DEFINE k == stock'[p]
                 i == stock[p]
                 n1 == g[s]
                 n2 == g[n]
                 o1 == f[s]
                 o2 == f[n]
      <4>1. /\ k \in Nat /\ i \in Nat /\ n1 \in Nat /\ n2 \in Nat /\ o1 \in Nat /\ o2 \in Nat
            /\ k + n1 + n2 = i + o1 + o2 /\ F + n1 = H + o1 /\ H + n2 = G + o2
            /\ i + F = InitialStock[p]
        BY <2>3, <2>10, <2>11, <3>1
      <4> HIDE DEF k, i, n1, n2, o1, o2
      <4>2. k + G = i + F
        BY <3>2, <4>1
      <4> QED BY <4>1, <4>2 DEF k
    <3> QED BY <3>3 DEF G
  <2> QED BY <2>12 DEF g
<1>5. Conserved'
  BY <1>4 DEF Conserved, UnitsOut
<1> QED BY <1>3, <1>5

LEMMA QuietKeeps ==
  ASSUME VoidsUndone, Conserved, UNCHANGED <<sale, stock, drawer>>
  PROVE  VoidsUndone' /\ Conserved'
BY DEF VoidsUndone, Conserved, EntriesOf, UnitsOut

NothingLost == VoidAlone /\ VoidsUndone /\ Conserved

LEMMA NothingLostInductive ==
  ASSUME "void" \in Exclusive, IInv, Figures, NothingLost, [Next]_vars
  PROVE  NothingLost'
<1>1. VoidAlone /\ VoidsUndone /\ Conserved /\ VoidAlone' /\ IInv'
  BY AloneInductive, Inductive DEF NothingLost
<1>2. ASSUME NEW r \in Requests, CommitCreate(r)
      PROVE  VoidsUndone' /\ Conserved'
  <2>1. PICK s \in Sales : OneBillStep(s) /\ sale[s].status = "NONE" /\ sale'[s].status = "COMPLETED"
    BY <1>2, CreateUnits
  <2> QED BY <1>1, <2>1, OneBillKeeps
<1>3. ASSUME NEW r \in Requests, CommitRefund(r) \/ CommitMethod(r)
      PROVE  VoidsUndone' /\ Conserved'
  <2>1. \E s \in Sales : OneBillStep(s) /\ Alive(sale'[s])
    <3>1. CASE CommitRefund(r)
      BY <1>1, <3>1, RefundUnits, Zenon
    <3>2. CASE CommitMethod(r)
      BY <1>1, <3>2, MethodUnits, Zenon
    <3> QED BY <1>3, <3>1, <3>2
  <2>2. PICK s \in Sales : OneBillStep(s) /\ Alive(sale'[s])
    BY <2>1
  <2>3. sale'[s].status # "VOIDED"
    BY <2>2 DEF Alive
  <2> QED BY <1>1, <2>2, <2>3, OneBillKeeps
<1>4. ASSUME NEW r \in Requests, CommitExchange(r)
      PROVE  VoidsUndone' /\ Conserved'
  BY <1>1, <1>4, ExchangeKeeps
<1>5. ASSUME NEW r \in Requests, CommitVoid(r)
      PROVE  VoidsUndone' /\ Conserved'
  <2>1. PICK s \in Sales : OneBillStep(s) /\ Undone(sale'[s], {e \in drawer' : e.s = s})
    BY <1>1, <1>5, VoidUnits
  <2>2. sale'[s].status = "VOIDED" => Undone(sale'[s], {e \in drawer' : e.s = s})
    BY <2>1
  <2> QED BY <1>1, <2>1, <2>2, OneBillKeeps, Zenon
<1>6. ASSUME NEW r \in Requests,
             \/ AskCreate(r) \/ AskRefund(r) \/ AskExchange(r) \/ AskMethod(r) \/ AskVoid(r)
             \/ ClaimMethod(r) \/ Abort(r)
      PROVE  VoidsUndone' /\ Conserved'
  <2>1. UNCHANGED <<sale, stock, drawer>>
    BY <1>6, QuietStep
  <2> QED BY <1>1, <2>1, QuietKeeps
<1>7. ASSUME OpenShift \/ CloseShift \/ UNCHANGED vars
      PROVE  VoidsUndone' /\ Conserved'
  <2>1. UNCHANGED <<sale, stock, drawer>>
    BY <1>7 DEF OpenShift, CloseShift, vars
  <2> QED BY <1>1, <2>1, QuietKeeps
<1>8. VoidsUndone' /\ Conserved'
  BY <1>2, <1>3, <1>4, <1>5, <1>6, <1>7 DEF Next
<1> QED BY <1>1, <1>8 DEF NothingLost

LEMMA NothingLostInitially == Init => NothingLost
<1> SUFFICES ASSUME Init
             PROVE  NothingLost
  OBVIOUS
<1>1. VoidAlone
  BY DEF Init, VoidAlone, Idle
<1>2. VoidsUndone
  BY DEF Init, VoidsUndone, NoBill
<1>3. Conserved
  <2> SUFFICES ASSUME NEW p \in Products
               PROVE  stock[p] + SumFunctionOnSet(UnitsOut(p), Sales) = InitialStock[p]
    BY DEF Conserved
  <2> DEFINE f == UnitsOut(p)
  <2>1. \A s \in Sales : f[s] = 0
    BY DEF Init, UnitsOut, Units, NoBill, Alive
  <2>2. stock[p] = InitialStock[p] /\ InitialStock[p] \in Nat
    BY ConstantsAssumption DEF Init
  <2> HIDE DEF f
  <2>3. SumFunctionOnSet(f, Sales) = 0
    BY <2>1, RowsAssumption, SumOfZeros
  <2>4. stock[p] + SumFunctionOnSet(f, Sales) = InitialStock[p]
    BY <2>2, <2>3
  <2> QED BY <2>4 DEF f
<1> QED BY <1>1, <1>2, <1>3 DEF NothingLost

LEMMA NothingLostInvariance ==
  ASSUME "void" \in Exclusive
  PROVE  Spec => [](IInv /\ Figures /\ NothingLost)
<1>1. Init => IInv /\ Figures /\ NothingLost
  BY Initially, FiguresInitially, NothingLostInitially
<1>2. IInv /\ Figures /\ NothingLost /\ [Next]_vars => (IInv /\ Figures /\ NothingLost)'
  BY Inductive, FiguresInductive, NothingLostInductive
<1> QED BY <1>1, <1>2, PTL DEF Spec

\* With voids run alone, stock and what the customers of live bills hold come to what there was,
\* through every race of sales, refunds and exchanges.
THEOREM NoUnitLost ==
  ASSUME "void" \in Exclusive
  PROVE  Spec => []StockConserved
<1>1. IInv /\ Figures /\ NothingLost => StockConserved
  <2> SUFFICES ASSUME IInv, NothingLost, NEW p \in Products
               PROVE  stock[p] + SumFunction([s \in Sales |-> IF Live(s) THEN Out(s)[p] ELSE 0])
                        = InitialStock[p]
    BY DEF StockConserved
  <2> DEFINE f == [s \in Sales |-> IF Live(s) THEN Out(s)[p] ELSE 0]
  <2>1. \A s \in Sales : (IF Live(s) THEN Out(s)[p] ELSE 0) = Units(sale[s], p)
    BY DEF Live, Out, Minus, Units, Alive
  <2>2. f = UnitsOut(p)
    BY <2>1 DEF UnitsOut
  <2>3. SumFunction(f) = SumFunctionOnSet(f, Sales)
    BY DEF SumFunction, SumFunctionOnSet, FoldFunction
  <2> QED BY <2>2, <2>3 DEF NothingLost, Conserved
<1> QED BY <1>1, NothingLostInvariance, PTL

\* With voids run alone, a void reverses the payments in full and leaves out of account what refunds
\* had paid back: the ledger of a voided bill ends below nothing by exactly that.
THEOREM VoidPaysAgain ==
  ASSUME "void" \in Exclusive
  PROVE  Spec => []VoidReversesInFull
<1>1. IInv /\ Figures /\ NothingLost => VoidReversesInFull
  <2> SUFFICES ASSUME NothingLost, NEW s \in Sales, NEW m \in Methods, sale[s].status = "VOIDED"
               PROVE  Booked(s, m, "OUT") - Booked(s, m, "IN") = sale[s].paidBack[m]
    BY DEF VoidReversesInFull
  <2>1. Undone(sale[s], EntriesOf(s))
    BY DEF NothingLost, VoidsUndone
  <2>2. ASSUME NEW dir
        PROVE  Booked(s, m, dir) = Moved(EntriesOf(s), m, dir)
    <3>1. {e \in drawer : e.s = s /\ e.method = m /\ e.dir = dir}
            = {e \in EntriesOf(s) : e.method = m /\ e.dir = dir}
      BY DEF EntriesOf
    <3> QED BY <3>1 DEF Booked, Moved
  <2> QED BY <2>1, <2>2 DEF Undone
<1> QED BY <1>1, NothingLostInvariance, PTL

-----------------------------------------------------------------------------
(* Serials for the units in stock                                          *)

\* The serials of a product are in stock or on a bill.
LEMMA SerialsSplit ==
  ASSUME IInv, NEW p \in Products
  PROVE  LET held == [s \in Sales |-> Cardinality(Linked(s, p))] IN
         /\ SumFunctionOnSet(held, Sales) \in Nat
         /\ Cardinality({x \in SerialsOf[p] : holder[x] = Shop}) =
              Cardinality(SerialsOf[p]) - SumFunctionOnSet(held, Sales)
<1> DEFINE A == SerialsOf[p]
           out == {x \in A : holder[x] \in Sales}
           held == [s \in Sales |-> Cardinality(Linked(s, p))]
           in == {x \in A : holder[x] = Shop}
<1>1. IsFiniteSet(A) /\ A \subseteq Serials
  BY SerialsFinite, ConstantsAssumption
<1>2. \A s \in Sales : held[s] = Cardinality({x \in A : holder[x] = s})
  BY DEF Linked
<1>3. in = A \ out /\ out \subseteq A
  BY <1>1, RowsAssumption DEF IInv, TypeOK
<1> HIDE DEF held
<1>4. SumFunctionOnSet(held, Sales) = Cardinality(out)
  <2>1. IsFiniteSet(Sales)
    BY RowsAssumption
  <2>2. \A s \in Sales : held[s] = Cardinality(ClassOf(holder, A, s))
    BY <1>2 DEF ClassOf
  <2>3. out = Classed(holder, A, Sales)
    BY DEF Classed
  <2> HIDE DEF A, out
  <2> QED BY <1>1, <2>1, <2>2, <2>3, SumOfClasses
<1> HIDE DEF A, out, in
<1>5. Cardinality(in) = Cardinality(A) - Cardinality(out)
  BY <1>1, <1>3, CardWithout
<1>6. Cardinality(out) \in Nat
  BY <1>1, <1>3, FS_Subset, FS_CardinalityType
<1> QED BY <1>4, <1>5, <1>6 DEF A, in, held

\* With voids run alone, and serials recorded for the units there were, every unit counted in stock
\* has a serial to sell it by.
THEOREM StockHasSerials ==
  ASSUME "void" \in Exclusive,
         \A p \in Products : SerialsOf[p] # {} => InitialStock[p] <= Cardinality(SerialsOf[p])
  PROVE  Spec => []SerialsCoverStock
<1>1. IInv /\ SerialsRight /\ NothingLost => SerialsCoverStock
  <2> SUFFICES ASSUME IInv, SerialsRight, NothingLost, NEW p \in Products, SerialsOf[p] # {}
               PROVE  stock[p] <= Cardinality({x \in SerialsOf[p] : holder[x] = Shop})
    BY DEF SerialsCoverStock
  <2> DEFINE held == [s \in Sales |-> Cardinality(Linked(s, p))]
             units == UnitsOut(p)
             k == Cardinality({x \in SerialsOf[p] : holder[x] = Shop})
             n == Cardinality(SerialsOf[p])
  <2>1. SumFunctionOnSet(held, Sales) \in Nat /\ k = n - SumFunctionOnSet(held, Sales)
    BY SerialsSplit
  <2>2. stock[p] + SumFunctionOnSet(units, Sales) = InitialStock[p]
    BY DEF NothingLost, Conserved
  <2>3. InitialStock[p] <= n /\ n \in Nat /\ stock[p] \in Nat /\ InitialStock[p] \in Nat
    BY SerialsFinite, ConstantsAssumption DEF IInv, TypeOK
  <2>4. ASSUME NEW s \in Sales
        PROVE  held[s] \in Nat /\ units[s] \in Nat /\ held[s] <= units[s]
    <3>1. held[s] = Held(sale[s], p) /\ units[s] = Units(sale[s], p)
      BY DEF SerialsRight, UnitsOut
    <3>2. Units(sale[s], p) \in Nat
      BY UnitsNat DEF IInv, TypeOK
    <3> HIDE DEF held, units
    <3>3. sale[s].lacking[p] \in Nat /\ sale[s].qty[p] \in Nat /\ sale[s].back[p] \in Nat
      BY DEF IInv, TypeOK, Bill, Quantities
    <3>4. Held(sale[s], p) \in Nat /\ Held(sale[s], p) <= Units(sale[s], p)
      BY <3>2, <3>3 DEF Held, Units
    <3> QED BY <3>1, <3>2, <3>4
  <2> HIDE DEF held, units, k, n
  <2>5. SumFunctionOnSet(held, Sales) <= SumFunctionOnSet(units, Sales)
    BY <2>4, RowsAssumption, SumAtMost
  <2>6. SumFunctionOnSet(units, Sales) \in Nat
    BY <2>4, RowsAssumption, SumNat
  <2>7. stock[p] <= k
    BY <2>1, <2>2, <2>3, <2>5, <2>6
  <2> QED BY <2>7 DEF k
<1> QED BY <1>1, SerialsInvariance, NothingLostInvariance, PTL

-----------------------------------------------------------------------------
(* What the disagreement about voids that a run finds comes from           *)

\* Run alone, a void does what the comment in voidSale says: it puts back the units that are out.
\* That it may fail to otherwise is therefore due to what runs between its reads and its
\* transaction, and to nothing else.
THEOREM VoidAloneRestores ==
  ASSUME "void" \in Exclusive
  PROVE  Spec => VoidRestoresWhatIsOut
<1>1. ASSUME IInv, Figures, NothingLost, NEW r \in Requests, NEW p \in Products, CommitVoid(r)
      PROVE  stock'[p] - stock[p] = IF Live(req[r].sale) THEN Out(req[r].sale)[p] ELSE 0
  <2> DEFINE s == req[r].sale
  <2>1. Alive(sale[s]) /\ req[r].back = sale[s].back
    BY <1>1 DEF CommitVoid, NothingLost, VoidAlone
  <2>2. req[r] \in VoidRequest
    BY <1>1 DEF CommitVoid, IInv, TypeOK, Request, Idle, CreateRequest, ReturnRequest, MethodRequest
  <2>3. s \in Sales /\ sale[s] \in Bill
    BY <1>1, <2>2 DEF VoidRequest, IInv, TypeOK
  <2>4. stock' = Plus(stock, Minus(sale[s].qty, sale[s].back))
    BY <1>1, <2>1 DEF CommitVoid, Restored
  <2>5. stock[p] \in Nat /\ sale[s].qty[p] \in Nat /\ sale[s].back[p] \in Nat
    BY <1>1, <2>3 DEF Bill, Quantities, IInv, TypeOK
  <2>6. stock'[p] = stock[p] + (sale[s].qty[p] - sale[s].back[p])
    BY <2>4 DEF Plus, Minus
  <2>7. Live(s) /\ Out(s)[p] = sale[s].qty[p] - sale[s].back[p]
    BY <2>1 DEF Live, Alive, Out, Minus
  <2> HIDE DEF s
  <2>8. stock'[p] - stock[p] = IF Live(s) THEN Out(s)[p] ELSE 0
    BY <2>5, <2>6, <2>7
  <2> QED BY <2>8 DEF s
<1>2. (IInv /\ Figures /\ NothingLost) /\ [Next]_vars =>
        [\A r \in Requests, p \in Products : CommitVoid(r) =>
           stock'[p] - stock[p] = IF Live(req[r].sale) THEN Out(req[r].sale)[p] ELSE 0]_vars
  BY <1>1
<1> QED BY <1>2, NothingLostInvariance, PTL DEF Spec, VoidRestoresWhatIsOut
=============================================================================
