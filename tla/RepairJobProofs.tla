--------------------------- MODULE RepairJobProofs ---------------------------
(***************************************************************************)
(* Proofs about RepairJob, for any prices, payments, parts and requests.   *)
(*                                                                         *)
(* The inductive invariant has two layers.  Base holds whatever happens:   *)
(* the rows are well formed, parts and additional payments have numbers of *)
(* their own, no ledger entry bears the number of a round or a payment     *)
(* that is still to come, and a request relies only on what cannot change. *)
(* Clean holds until a transaction has relied on something that had        *)
(* changed (overtaken): status, payments, parts and ledger agree.          *)
(***************************************************************************)
EXTENDS RepairJob, SumTheorems

LedgerEntries == [src : Sources, n : Nat, dir : {"IN", "OUT"}, amount : Nat]
Quick == {"quick", "quickDone", "quickPay"}
RefundSources == {"REPAIR_DEPOSIT_REFUND", "REPAIR_FINAL_PAYMENT_REFUND",
                  "REPAIR_ADDITIONAL_PAYMENT_REFUND"}

\* The additional payments are numbered from 1 to how many there are
Numbered(adds) ==
  /\ \A a \in adds : a.n \in 1..Cardinality(adds)
  /\ \A a, b \in adds : a.n = b.n => a = b

\* The rows of the job
JobOK(j) ==
  /\ j \in Job
  /\ IsFiniteSet(j.parts) /\ IsFiniteSet(j.adds)
  /\ \A x \in j.parts : x.n <= j.taken
  /\ Numbered(j.adds)

\* Its ledger: no entry is ahead of the round or of the payments of the job
LedgerOK(ledger, rounds, payments) ==
  /\ ledger \subseteq LedgerEntries
  /\ IsFiniteSet(ledger)
  /\ \A e \in ledger :
       /\ e.src = "REPAIR_FINAL_PAYMENT" => e.n <= rounds
       /\ e.src = "REVERSAL" => e.n < rounds
       /\ e.src = "REPAIR_ADDITIONAL_PAYMENT" => e.n <= payments

\* What a request under way may rely on: the deposit cannot change any more
AskedOK(m, deposit) ==
  /\ m.op = "cancel" => IsFiniteSet(m.parts)
  /\ m.op = "refund" => IsFiniteSet(m.adds)
  /\ m.op \in Quick => deposit = 0
  /\ m.op \in {"pay", "quickPay"} => m.partial \/ m.total - deposit <= m.received

\* Before intake there is nothing
Blank ==
  repair.status = "NONE" =>
    repair = NoRepair /\ drawer = {} /\ \A r \in Requests : req[r] = Idle

Base ==
  /\ JobOK(repair)
  /\ LedgerOK(drawer, repair.rounds, Cardinality(repair.adds))
  /\ stock \in [Products -> Nat]
  /\ req \in [Requests -> Request]
  /\ overtaken \in BOOLEAN
  /\ \A r \in Requests : AskedOK(req[r], repair.deposit)
  /\ Blank

\* Status, payment and the numbers of the ledger's entries agree
PaymentsFit(j, ledger) ==
  /\ j.status = "DELIVERED" <=> j.pay # "PENDING"
  /\ j.pay = "PENDING" => j.paid = 0
  /\ j.status # "CANCELLED" => \A a \in j.adds : a.kept
  /\ \A e \in ledger :
       /\ e.src = "REPAIR_FINAL_PAYMENT" /\ e.n = j.rounds => j.status = "DELIVERED"
       /\ e.src \in RefundSources => j.status = "CANCELLED"
  /\ j.status = "CANCELLED" /\ j.deposit > 0 =>
       \E e \in ledger : Key(e) = Key(Entry("REPAIR_DEPOSIT_REFUND", 0, "OUT", 0))

PartsFit(j, shelf) ==
  /\ \A p \in Products : shelf[p] + Back(p, j.parts) = InitialStock[p]
  /\ j.status = "CANCELLED" => j.parts = {}

HeldBy(j) ==
  (IF j.status = "CANCELLED" THEN 0 ELSE j.deposit)
    + j.paid + Total({a \in j.adds : a.kept})

Clean ==
  ~overtaken =>
    /\ PaymentsFit(repair, drawer)
    /\ PartsFit(repair, stock)
    /\ Net(drawer) = HeldBy(repair)

IInv == Base /\ Clean

-----------------------------------------------------------------------------
(* Sums of the ledger                                                      *)

LEMMA TotalIsSum == ASSUME NEW P PROVE Total(P) = SumAmounts(P)
BY DEF Total, SumAmounts

LEMMA TotalNat ==
  ASSUME NEW P, IsFiniteSet(P), \A p \in P : p.amount \in Nat
  PROVE  Total(P) \in Nat
BY TotalIsSum, AmountsNat

LEMMA TotalWith ==
  ASSUME NEW P, IsFiniteSet(P), \A p \in P : p.amount \in Nat,
         NEW x, x \notin P, x.amount \in Nat
  PROVE  Total(P \cup {x}) = Total(P) + x.amount
BY TotalIsSum, AmountsWith

\* What the ledger holds of one direction
Side(ledger, dir) == Total({e \in ledger : e.dir = dir})

LEMMA SideNat ==
  ASSUME NEW ledger, ledger \subseteq LedgerEntries, IsFiniteSet(ledger), NEW dir
  PROVE  Side(ledger, dir) \in Nat
<1>1. IsFiniteSet({e \in ledger : e.dir = dir})
  BY FS_Subset
<1>2. \A e \in {x \in ledger : x.dir = dir} : e.amount \in Nat
  BY DEF LedgerEntries
<1> QED BY <1>1, <1>2, TotalNat DEF Side

\* A set of entries whose keys are new, all of one direction, adds its amounts to that side and
\* nothing to the other.
LEMMA SideAdds ==
  ASSUME NEW ledger, ledger \subseteq LedgerEntries, IsFiniteSet(ledger),
         NEW entries, entries \subseteq LedgerEntries, IsFiniteSet(entries),
         ledger \cap entries = {}, NEW dir, \A e \in entries : e.dir = dir
  PROVE  /\ Side(ledger \cup entries, dir) = Side(ledger, dir) + Total(entries)
         /\ \A d : d # dir => Side(ledger \cup entries, d) = Side(ledger, d)
<1> DEFINE S == {e \in ledger : e.dir = dir}
<1>1. IsFiniteSet(S) /\ S \cap entries = {} /\ \A e \in S \cup entries : e.amount \in Nat
  BY FS_Subset DEF LedgerEntries
<1>2. {e \in ledger \cup entries : e.dir = dir} = S \cup entries
  OBVIOUS
<1>3. \A d : d # dir => {e \in ledger \cup entries : e.dir = d} = {e \in ledger : e.dir = d}
  OBVIOUS
<1>4. Total(S \cup entries) = Total(S) + Total(entries)
  <2> HIDE DEF S
  <2> QED BY <1>1, TotalIsSum, AmountsDisjoint
<1> QED BY <1>2, <1>3, <1>4 DEF Side

LEMMA NetIsSides == ASSUME NEW l PROVE Net(l) = Side(l, "IN") - Side(l, "OUT")
BY DEF Net, Side

\* Entries under keys not yet in the ledger are all recorded.
LEMMA RecordFresh ==
  ASSUME NEW ledger, NEW entries, \A e \in entries : \A x \in ledger : Key(x) # Key(e)
  PROVE  Record(ledger, entries) = ledger \cup entries /\ ledger \cap entries = {}
BY DEF Record

\* One entry with a new key: the drawer holds that much more or less.
LEMMA NetRecord ==
  ASSUME NEW ledger, ledger \subseteq LedgerEntries, IsFiniteSet(ledger),
         NEW entries, entries \subseteq LedgerEntries, IsFiniteSet(entries),
         \A e \in entries : \A x \in ledger : Key(x) # Key(e),
         NEW dir \in {"IN", "OUT"}, \A e \in entries : e.dir = dir
  PROVE  Net(Record(ledger, entries)) =
           IF dir = "IN" THEN Net(ledger) + Total(entries) ELSE Net(ledger) - Total(entries)
<1>1. Record(ledger, entries) = ledger \cup entries /\ ledger \cap entries = {}
  BY RecordFresh
<1>2. Side(ledger, "IN") \in Nat /\ Side(ledger, "OUT") \in Nat
  BY SideNat
<1>3. Total(entries) \in Nat
  BY TotalNat DEF LedgerEntries
<1>4. /\ Side(ledger \cup entries, dir) = Side(ledger, dir) + Total(entries)
      /\ \A d : d # dir => Side(ledger \cup entries, d) = Side(ledger, d)
  BY <1>1, SideAdds
<1>5. /\ Net(Record(ledger, entries)) = Side(ledger \cup entries, "IN") - Side(ledger \cup entries, "OUT")
      /\ Net(ledger) = Side(ledger, "IN") - Side(ledger, "OUT")
  BY <1>1, NetIsSides
<1>6. CASE dir = "IN"
  <2>1. Side(ledger \cup entries, "OUT") = Side(ledger, "OUT")
    BY <1>4, <1>6
  <2> QED BY <1>2, <1>3, <1>4, <1>5, <1>6, <2>1
<1>7. CASE dir = "OUT"
  <2>1. Side(ledger \cup entries, "IN") = Side(ledger, "IN")
    BY <1>4, <1>7
  <2> QED BY <1>2, <1>3, <1>4, <1>5, <1>7, <2>1
<1> QED BY <1>6, <1>7

LEMMA TotalOne == ASSUME NEW x, x.amount \in Nat PROVE Total({x}) = x.amount
<1>1. Total({}) = 0
  BY TotalIsSum, AmountsEmpty
<1>2. IsFiniteSet({}) /\ {} \cup {x} = {x}
  BY FS_EmptySet
<1> QED BY <1>1, <1>2, TotalWith

\* Recording keeps a ledger finite and well formed.
LEMMA RecordType ==
  ASSUME NEW ledger, NEW entries, NEW T, ledger \subseteq T, entries \subseteq T,
         IsFiniteSet(ledger), IsFiniteSet(entries)
  PROVE  /\ Record(ledger, entries) \subseteq T
         /\ Record(ledger, entries) \subseteq ledger \cup entries
         /\ IsFiniteSet(Record(ledger, entries))
<1>1. IsFiniteSet({e \in entries : \A x \in ledger : Key(x) # Key(e)})
  BY FS_Subset
<1> QED BY <1>1, FS_Union DEF Record

-----------------------------------------------------------------------------
(* Parts                                                                   *)

LEMMA BackNat ==
  ASSUME NEW parts, IsFiniteSet(parts), NEW p
  PROVE  Back(p, parts) \in Nat
<1>1. IsFiniteSet({x \in parts : x.product = p})
  BY FS_Subset
<1> QED BY <1>1, FS_CardinalityType DEF Back

LEMMA BackNone == ASSUME NEW p PROVE Back(p, {}) = 0
<1>1. {x \in {} : x.product = p} = {}
  OBVIOUS
<1> QED BY <1>1, FS_EmptySet DEF Back

\* One part more counts for its product, and for no other.
LEMMA BackWith ==
  ASSUME NEW parts, IsFiniteSet(parts), NEW x, x \notin parts, NEW p
  PROVE  Back(p, parts \cup {x}) = Back(p, parts) + (IF x.product = p THEN 1 ELSE 0)
<1> DEFINE S == {y \in parts : y.product = p}
<1>1. IsFiniteSet(S) /\ x \notin S
  BY FS_Subset
<1>2. CASE x.product = p
  <2>1. {y \in parts \cup {x} : y.product = p} = S \cup {x}
    BY <1>2
  <2> QED BY <1>1, <1>2, <2>1, FS_AddElement DEF Back
<1>3. CASE x.product # p
  <2>1. {y \in parts \cup {x} : y.product = p} = S
    BY <1>3
  <2>2. Cardinality(S) \in Nat
    BY <1>1, FS_CardinalityType
  <2>3. Back(p, parts \cup {x}) = Cardinality(S) /\ Back(p, parts) = Cardinality(S)
    BY <2>1 DEF Back
  <2> QED BY <1>3, <2>2, <2>3
<1> QED BY <1>2, <1>3

LEMMA BackWithout ==
  ASSUME NEW parts, IsFiniteSet(parts), NEW x \in parts, NEW p
  PROVE  Back(p, parts \ {x}) + Back(p, {x}) = Back(p, parts)
<1>1. parts = (parts \ {x}) \cup {x} /\ x \notin parts \ {x} /\ IsFiniteSet(parts \ {x})
  BY FS_RemoveElement
<1>2. Back(p, parts) = Back(p, parts \ {x}) + (IF x.product = p THEN 1 ELSE 0)
  BY <1>1, BackWith
<1>3. {x} = {} \cup {x} /\ x \notin {} /\ IsFiniteSet({})
  BY FS_EmptySet
<1>4. Back(p, {x}) = 0 + (IF x.product = p THEN 1 ELSE 0)
  BY <1>3, BackWith, BackNone
<1> QED BY <1>2, <1>4

-----------------------------------------------------------------------------
(* Base: rows, numbers and requests                                        *)

\* What a request carries, by its operation.
LEMMA RequestForms ==
  ASSUME NEW m \in Request
  PROVE  /\ m.op \in {"move", "qc"} => m.next \in DOMAIN Allowed
         /\ m.op = "move" => m.from \in DOMAIN Allowed
         /\ m.op = "cancel" => m.parts \subseteq Parts
         /\ m.op = "addPart" => m.product \in Products
         /\ m.op = "removePart" => m.part \in Parts
         /\ m.op \in {"pay", "quickPay"} =>
              m.total \in Nat /\ m.cut \in Nat /\ m.received \in Nat /\ m.partial \in BOOLEAN
         /\ m.op = "reverse" => m.paid \in Nat /\ m.price \in Nat /\ m.cut \in Nat
         /\ m.op = "refund" => m.paid \in Nat /\ m.adds \subseteq Payments
         /\ m.op = "add" => m.amount \in Nat /\ m.price \in Nat
         /\ m.op = "debt" => m.amount \in Nat
         /\ m.op \in {"move", "qc", "cancel", "addPart", "removePart", "pay", "reverse", "refund",
                      "add", "debt", "quick", "quickDone", "quickPay"} => m # Idle
<1> HIDE DEF Allowed
<1> QED BY DEF Request, Idle

LEMMA AllowedStatuses ==
  /\ DOMAIN Allowed = {"RECEIVED", "DIAGNOSING", "WAITING_APPROVAL", "APPROVED", "WAITING_PARTS",
                       "IN_PROGRESS", "QC_PENDING", "COMPLETED", "READY_PICKUP"}
  /\ \A s \in DOMAIN Allowed : Allowed[s] \subseteq DOMAIN Allowed
BY DEF Allowed

LEMMA JobSame ==
  ASSUME NEW j, JobOK(j), NEW k \in Job, k.parts = j.parts, k.taken = j.taken, k.adds = j.adds
  PROVE  JobOK(k)
BY DEF JobOK

LEMMA LedgerLater ==
  ASSUME NEW l, NEW n \in Nat, NEW c \in Nat, LedgerOK(l, n, c),
         NEW n2 \in Nat, NEW c2 \in Nat, n <= n2, c <= c2
  PROVE  LedgerOK(l, n2, c2)
BY DEF LedgerOK, LedgerEntries

LEMMA LedgerRecord ==
  ASSUME NEW l, NEW n \in Nat, NEW c \in Nat, LedgerOK(l, n, c),
         NEW entries, IsFiniteSet(entries), entries \subseteq LedgerEntries,
         \A e \in entries :
           /\ e.src = "REPAIR_FINAL_PAYMENT" => e.n <= n
           /\ e.src = "REVERSAL" => e.n < n
           /\ e.src = "REPAIR_ADDITIONAL_PAYMENT" => e.n <= c
  PROVE  LedgerOK(Record(l, entries), n, c)
<1>1. /\ Record(l, entries) \subseteq LedgerEntries
      /\ Record(l, entries) \subseteq l \cup entries
      /\ IsFiniteSet(Record(l, entries))
  BY RecordType DEF LedgerOK
<1> QED BY <1>1 DEF LedgerOK

LEMMA LedgerRecordOne ==
  ASSUME NEW l, NEW n \in Nat, NEW c \in Nat, LedgerOK(l, n, c), NEW e \in LedgerEntries,
         e.src = "REPAIR_FINAL_PAYMENT" => e.n <= n,
         e.src = "REVERSAL" => e.n < n,
         e.src = "REPAIR_ADDITIONAL_PAYMENT" => e.n <= c
  PROVE  LedgerOK(Record(l, {e}), n, c)
BY LedgerRecord, FS_Singleton

LEMMA EntryType ==
  ASSUME NEW src \in Sources, NEW n \in Nat, NEW dir \in {"IN", "OUT"}, NEW amount \in Nat
  PROVE  /\ Entry(src, n, dir, amount) \in LedgerEntries
         /\ Entry(src, n, dir, amount).src = src /\ Entry(src, n, dir, amount).n = n
         /\ Entry(src, n, dir, amount).dir = dir /\ Entry(src, n, dir, amount).amount = amount
BY DEF Entry, LedgerEntries

\* A job that has a request under way has been taken in.
LEMMA RequestNeedsJob ==
  ASSUME Base, NEW r \in Requests, req[r] # Idle
  PROVE  repair.status # "NONE"
BY DEF Base, Blank

\* A step that keeps the job's deposit and leaves the requests in order keeps the rest of Base.
LEMMA BaseStep ==
  ASSUME Base, JobOK(repair'), repair'.status # "NONE", repair'.deposit = repair.deposit,
         LedgerOK(drawer', repair'.rounds, Cardinality(repair'.adds)),
         stock' \in [Products -> Nat], overtaken' \in BOOLEAN,
         NEW r \in Requests, NEW m \in Request, AskedOK(m, repair.deposit),
         req' = [req EXCEPT ![r] = m]
  PROVE  Base'
<1>1. req' \in [Requests -> Request]
  BY DEF Base
<1>2. \A q \in Requests : AskedOK(req'[q], repair.deposit)
  BY DEF Base
<1>3. \A q \in Requests : AskedOK(req[q], repair.deposit)'
  BY <1>2 DEF AskedOK
<1>4. Blank'
  BY DEF Blank
<1> QED BY <1>1, <1>3, <1>4 DEF Base

\* The request that ends leaves nothing to rely on.
LEMMA IdleAsked == ASSUME NEW d PROVE Idle \in Request /\ AskedOK(Idle, d)
BY DEF Idle, Request, AskedOK, Quick

LEMMA OvertakenType ==
  ASSUME NEW r, overtaken \in BOOLEAN, overtaken' = (overtaken \/ ~Stands(r))
  PROVE  overtaken' \in BOOLEAN
BY Zenon

LEMMA FinishBase ==
  ASSUME Base, JobOK(repair'), repair'.status # "NONE", repair'.deposit = repair.deposit,
         LedgerOK(drawer', repair'.rounds, Cardinality(repair'.adds)),
         stock' \in [Products -> Nat], NEW r \in Requests, Finish(r)
  PROVE  Base'
<1>1. overtaken' \in BOOLEAN
  BY OvertakenType DEF Base, Finish
<1>2. req' = [req EXCEPT ![r] = Idle]
  BY DEF Finish
<1> QED BY <1>1, <1>2, IdleAsked, BaseStep

\* A request that has only read keeps Base.
LEMMA AskBase ==
  ASSUME Base, NEW r \in Requests, NEW m \in Request, AskedOK(m, repair.deposit),
         repair.status # "NONE", Ask(r, m)
  PROVE  Base'
<1>1. /\ repair' = repair /\ drawer' = drawer /\ stock' = stock /\ overtaken' = overtaken
      /\ req' = [req EXCEPT ![r] = m]
  BY DEF Ask
<1>2. /\ JobOK(repair') /\ LedgerOK(drawer', repair'.rounds, Cardinality(repair'.adds))
      /\ stock' \in [Products -> Nat] /\ overtaken' \in BOOLEAN
  BY <1>1 DEF Base
<1> QED BY <1>1, <1>2, BaseStep

LEMMA InitBase == ASSUME Init PROVE Base
<1>1. NoRepair \in Job
  BY DEF NoRepair, Job, Statuses
<1>2. NoRepair.parts = {} /\ NoRepair.adds = {} /\ NoRepair.status = "NONE"
  BY DEF NoRepair
<1>3. JobOK(repair)
  BY <1>1, <1>2, FS_EmptySet DEF Init, JobOK, Numbered
<1>4. LedgerOK(drawer, repair.rounds, Cardinality(repair.adds))
  BY FS_EmptySet DEF Init, LedgerOK
<1>5. req \in [Requests -> Request] /\ \A r \in Requests : AskedOK(req[r], repair.deposit)
  BY IdleAsked DEF Init
<1>6. Blank
  BY DEF Init, Blank
<1> QED BY <1>3, <1>4, <1>5, <1>6, ConstantsAssumption DEF Init, Base

-----------------------------------------------------------------------------
(* Base: one lemma per operation                                           *)

LEMMA AskMoveBase == ASSUME Base, NEW r \in Requests, AskMove(r) PROVE Base'
<1>1. PICK next \in (Allowed[repair.status] \cup {repair.status}) \cap Stages :
        Ask(r, [op |-> "move", from |-> repair.status, next |-> next])
  BY DEF AskMove
<1>2. repair.status \in DOMAIN Allowed /\ next \in DOMAIN Allowed
  <2>1. repair.status \in DOMAIN Allowed
    BY DEF AskMove
  <2> QED BY <2>1, AllowedStatuses
<1>3. repair.status # "NONE"
  BY <1>2, AllowedStatuses
<1>4. [op |-> "move", from |-> repair.status, next |-> next] \in Request
  BY <1>2 DEF Request
<1>5. AskedOK([op |-> "move", from |-> repair.status, next |-> next], repair.deposit)
  BY DEF AskedOK, Quick
<1> QED BY <1>1, <1>3, <1>4, <1>5, AskBase

LEMMA AskCancelBase == ASSUME Base, NEW r \in Requests, AskCancel(r) PROVE Base'
<1>1. IsFiniteSet(repair.parts) /\ repair.parts \subseteq Parts
  BY DEF Base, JobOK, Job
<1>2. [op |-> "cancel", parts |-> repair.parts] \in Request
  BY <1>1 DEF Request
<1>3. AskedOK([op |-> "cancel", parts |-> repair.parts], repair.deposit)
  BY <1>1 DEF AskedOK, Quick
<1> QED BY <1>2, <1>3, AskBase DEF AskCancel

LEMMA AskQcBase == ASSUME Base, NEW r \in Requests, AskQc(r) PROVE Base'
<1>1. PICK next \in {"COMPLETED", "IN_PROGRESS"} : Ask(r, [op |-> "qc", next |-> next])
  BY DEF AskQc
<1>2. [op |-> "qc", next |-> next] \in Request
  BY AllowedStatuses DEF Request
<1>3. AskedOK([op |-> "qc", next |-> next], repair.deposit)
  BY DEF AskedOK, Quick
<1> QED BY <1>1, <1>2, <1>3, AskBase DEF AskQc

\* A job without rows has no part to be taken or put back.
LEMMA PartsNeedJob ==
  ASSUME Base, TakesParts \/ GivesParts
  PROVE  repair.status # "NONE"
BY DEF TakesParts, GivesParts, LateParts

LEMMA AskAddPartBase == ASSUME Base, NEW r \in Requests, AskAddPart(r) PROVE Base'
<1>1. PICK p \in Products : Ask(r, [op |-> "addPart", product |-> p])
  BY DEF AskAddPart
<1>2. [op |-> "addPart", product |-> p] \in Request
  BY DEF Request
<1>3. AskedOK([op |-> "addPart", product |-> p], repair.deposit)
  BY DEF AskedOK, Quick
<1> QED BY <1>1, <1>2, <1>3, AskBase, PartsNeedJob DEF AskAddPart

LEMMA AskRemovePartBase == ASSUME Base, NEW r \in Requests, AskRemovePart(r) PROVE Base'
<1>1. PICK x \in repair.parts : Ask(r, [op |-> "removePart", part |-> x])
  BY DEF AskRemovePart
<1>2. x \in Parts
  BY DEF Base, JobOK, Job
<1>3. [op |-> "removePart", part |-> x] \in Request
  BY <1>2 DEF Request
<1>4. AskedOK([op |-> "removePart", part |-> x], repair.deposit)
  BY DEF AskedOK, Quick
<1> QED BY <1>1, <1>3, <1>4, AskBase, PartsNeedJob DEF AskRemovePart

\* A payment in full covers what the deposit leaves open.
LEMMA PaymentAsked ==
  ASSUME JobOK(repair), NEW op \in {"pay", "quickPay"}, op = "quickPay" => repair.deposit = 0,
         NEW price \in Nat, NEW cut \in Nat, cut <= price, NEW amount \in Nat
  PROVE  /\ Payment(op, price, cut, amount) \in Request
         /\ AskedOK(Payment(op, price, cut, amount), repair.deposit)
<1> DEFINE total == price - cut
           balance == AtLeastZero(total - repair.deposit)
           short == amount < balance
           m == Payment(op, price, cut, amount)
<1>1. total \in Nat /\ repair.deposit \in Nat
  BY DEF JobOK, Job
<1>2. balance \in Nat /\ total - repair.deposit <= balance
  BY <1>1 DEF AtLeastZero
<1>3. Least(amount, balance) \in Nat
  BY <1>2 DEF Least
<1>4. short \in BOOLEAN /\ (~short => Least(amount, balance) = balance)
  BY <1>2 DEF Least
<1> HIDE DEF total, balance, short
<1>5. m = [op |-> op, total |-> total, cut |-> cut, received |-> Least(amount, balance),
           partial |-> short]
  BY DEF Payment, total, balance, short
<1>6. m \in Request
  BY <1>1, <1>3, <1>4, <1>5 DEF Request
<1>7. m.partial \/ m.total - repair.deposit <= m.received
  <2>1. m.total = total /\ m.received = Least(amount, balance)
    BY <1>5
  <2>2. CASE short
    <3>1. m.partial = short
      BY <1>5
    <3> QED BY <2>2, <3>1
  <2>3. CASE ~short
    BY <1>2, <1>4, <2>1, <2>3
  <2> QED BY <2>2, <2>3
<1>8. m.op = op
  BY <1>5
<1>9. AskedOK(m, repair.deposit)
  BY <1>7, <1>8 DEF AskedOK, Quick
<1> QED BY <1>6, <1>9

LEMMA AskPayBase == ASSUME Base, NEW r \in Requests, AskPay(r) PROVE Base'
<1>1. PICK price \in Prices, cut \in Cuts, amount \in Amounts :
        cut <= price /\ Ask(r, Payment("pay", price, cut, amount))
  BY DEF AskPay
<1>2. price \in Nat /\ cut \in Nat /\ amount \in Nat
  BY ConstantsAssumption
<1>3. /\ Payment("pay", price, cut, amount) \in Request
      /\ AskedOK(Payment("pay", price, cut, amount), repair.deposit)
  BY <1>1, <1>2, PaymentAsked DEF Base
<1>4. repair.status # "NONE"
  BY DEF AskPay, Payable
<1> QED BY <1>1, <1>3, <1>4, AskBase

LEMMA QuickAskPayBase == ASSUME Base, NEW r \in Requests, QuickAskPay(r) PROVE Base'
<1>1. PICK price \in Prices : Ask(r, Payment("quickPay", price, 0, price))
  BY DEF QuickAskPay
<1>2. price \in Nat /\ 0 \in Nat /\ 0 <= price
  BY ConstantsAssumption
<1>3. repair.deposit = 0
  BY DEF QuickAskPay, Base, AskedOK, Quick
<1>4. /\ Payment("quickPay", price, 0, price) \in Request
      /\ AskedOK(Payment("quickPay", price, 0, price), repair.deposit)
  BY <1>2, <1>3, PaymentAsked DEF Base
<1>5. repair.status # "NONE"
  BY DEF QuickAskPay, Payable
<1> QED BY <1>1, <1>4, <1>5, AskBase

LEMMA AskReverseBase == ASSUME Base, NEW r \in Requests, AskReverse(r) PROVE Base'
<1> DEFINE m == [op |-> "reverse", paid |-> repair.paid, price |-> repair.price, cut |-> repair.cut]
<1>1. repair.paid \in Nat /\ repair.price \in Nat /\ repair.cut \in Nat
  BY DEF Base, JobOK, Job
<1>2. m \in Request
  BY <1>1 DEF Request
<1>3. AskedOK(m, repair.deposit)
  BY DEF AskedOK, Quick
<1> QED BY <1>2, <1>3, AskBase DEF AskReverse

LEMMA AskRefundBase == ASSUME Base, NEW r \in Requests, AskRefund(r) PROVE Base'
<1> DEFINE m == [op |-> "refund", paid |-> repair.paid, adds |-> repair.adds]
<1>1. repair.paid \in Nat /\ repair.adds \subseteq Payments /\ IsFiniteSet(repair.adds)
  BY DEF Base, JobOK, Job
<1>2. m \in Request
  BY <1>1 DEF Request
<1>3. AskedOK(m, repair.deposit)
  BY <1>1 DEF AskedOK, Quick
<1> QED BY <1>2, <1>3, AskBase DEF AskRefund

LEMMA AskAddBase == ASSUME Base, NEW r \in Requests, AskAdd(r) PROVE Base'
<1>1. PICK amount \in Amounts \ {0} :
        Ask(r, [op |-> "add", amount |-> amount, price |-> repair.price])
  BY DEF AskAdd
<1>2. amount \in Nat /\ repair.price \in Nat
  BY ConstantsAssumption DEF Base, JobOK, Job
<1>3. [op |-> "add", amount |-> amount, price |-> repair.price] \in Request
  BY <1>2 DEF Request
<1>4. AskedOK([op |-> "add", amount |-> amount, price |-> repair.price], repair.deposit)
  BY DEF AskedOK, Quick
<1> QED BY <1>1, <1>3, <1>4, AskBase DEF AskAdd

LEMMA AskDebtBase == ASSUME Base, NEW r \in Requests, AskDebt(r) PROVE Base'
<1>1. PICK amount \in Amounts \ {0} : Ask(r, [op |-> "debt", amount |-> amount])
  BY DEF AskDebt
<1>2. amount \in Nat
  BY ConstantsAssumption
<1>3. [op |-> "debt", amount |-> amount] \in Request
  BY <1>2 DEF Request
<1>4. AskedOK([op |-> "debt", amount |-> amount], repair.deposit)
  BY DEF AskedOK, Quick
<1> QED BY <1>1, <1>3, <1>4, AskBase DEF AskDebt

LEMMA AbortBase == ASSUME Base, NEW r \in Requests, Abort(r) PROVE Base'
<1>1. Ask(r, Idle)
  BY DEF Abort, Ask
<1>2. repair.status # "NONE"
  BY RequestNeedsJob DEF Abort, Busy
<1> QED BY <1>1, <1>2, IdleAsked, AskBase

LEMMA JobFields ==
  ASSUME Base
  PROVE  /\ repair \in Job
         /\ repair.price \in Nat /\ repair.deposit \in Nat /\ repair.paid \in Nat
         /\ repair.cut \in Nat /\ repair.rounds \in Nat /\ repair.taken \in Nat
         /\ repair.adds \subseteq Payments /\ repair.parts \subseteq Parts
         /\ IsFiniteSet(repair.adds) /\ IsFiniteSet(repair.parts)
         /\ Cardinality(repair.adds) \in Nat
BY FS_CardinalityType DEF Base, JobOK, Job

\* A job whose status, payment and price change keeps its parts, payments and ledger in order.
LEMMA JobChange ==
  ASSUME Base, repair' \in Job, repair'.parts = repair.parts, repair'.taken = repair.taken,
         repair'.adds = repair.adds, repair'.rounds = repair.rounds, drawer' = drawer
  PROVE  JobOK(repair') /\ LedgerOK(drawer', repair'.rounds, Cardinality(repair'.adds))
BY JobSame DEF Base

LEMMA CreateBase == ASSUME Base, Create PROVE Base'
<1>1. PICK d \in Deposits :
        /\ repair' = [repair EXCEPT !.status = "RECEIVED", !.deposit = d]
        /\ drawer' = IF d > 0 THEN Record(drawer, {Entry("REPAIR_DEPOSIT", 0, "IN", d)}) ELSE drawer
  BY DEF Create
<1>2. d \in Nat
  BY ConstantsAssumption
<1>3. /\ repair' \in Job /\ repair'.parts = repair.parts /\ repair'.taken = repair.taken
      /\ repair'.adds = repair.adds /\ repair'.rounds = repair.rounds
      /\ repair'.status = "RECEIVED"
  BY <1>1, <1>2, JobFields, AllowedStatuses DEF Job, Statuses
<1>4. JobOK(repair')
  BY <1>3, JobSame DEF Base
<1>5. LedgerOK(drawer', repair.rounds, Cardinality(repair.adds))
  <2>1. Entry("REPAIR_DEPOSIT", 0, "IN", d) \in LedgerEntries
    BY <1>2, EntryType DEF Sources
  <2>2. LedgerOK(Record(drawer, {Entry("REPAIR_DEPOSIT", 0, "IN", d)}),
                 repair.rounds, Cardinality(repair.adds))
    BY <2>1, JobFields, LedgerRecordOne DEF Base, Entry
  <2> QED BY <1>1, <2>2 DEF Base
<1>6. \A r \in Requests : req'[r] = Idle
  BY DEF Create, Base, Blank
<1>7. \A r \in Requests : AskedOK(req[r], repair.deposit)'
  BY <1>6 DEF AskedOK, Idle, Quick
<1>8. Blank'
  BY <1>3 DEF Blank
<1> QED BY <1>3, <1>4, <1>5, <1>7, <1>8 DEF Base, Create

LEMMA EditBase == ASSUME Base, Edit PROVE Base'
<1>1. PICK price \in Prices : repair' = [repair EXCEPT !.price = price]
  BY DEF Edit
<1>2. price \in Nat
  BY ConstantsAssumption
<1>3. /\ repair' \in Job /\ repair'.parts = repair.parts /\ repair'.taken = repair.taken
      /\ repair'.adds = repair.adds /\ repair'.rounds = repair.rounds
      /\ repair'.status = repair.status /\ repair'.deposit = repair.deposit
  BY <1>1, <1>2, JobFields DEF Job
<1>4. drawer' = drawer
  BY DEF Edit
<1>5. JobOK(repair') /\ LedgerOK(drawer', repair'.rounds, Cardinality(repair'.adds))
  BY <1>3, <1>4, JobChange
<1>6. \A r \in Requests : AskedOK(req[r], repair.deposit)'
  BY <1>3 DEF Base, Edit, AskedOK
<1>7. Blank'
  BY <1>3 DEF Blank, Edit
<1> QED BY <1>3, <1>5, <1>6, <1>7 DEF Base, Edit

LEMMA PartsDoneBase == ASSUME Base, PartsDone PROVE Base'
<1>1. repair' = [repair EXCEPT !.pending = FALSE] /\ repair.status # "NONE"
  BY DEF PartsDone, Base, Blank, NoRepair
<1>2. /\ repair' \in Job /\ repair'.parts = repair.parts /\ repair'.taken = repair.taken
      /\ repair'.adds = repair.adds /\ repair'.rounds = repair.rounds
      /\ repair'.status = repair.status /\ repair'.deposit = repair.deposit
  BY <1>1, JobFields DEF Job
<1>3. drawer' = drawer
  BY DEF PartsDone
<1>4. JobOK(repair') /\ LedgerOK(drawer', repair'.rounds, Cardinality(repair'.adds))
  BY <1>2, <1>3, JobChange
<1>5. \A r \in Requests : AskedOK(req[r], repair.deposit)'
  BY <1>2 DEF Base, PartsDone, AskedOK
<1>6. Blank'
  BY <1>1, <1>2 DEF Blank
<1> QED BY <1>4, <1>5, <1>6 DEF Base, PartsDone

LEMMA CommitMoveBase == ASSUME Base, NEW r \in Requests, CommitMove(r) PROVE Base'
<1> DEFINE next == req[r].next
<1>1. req[r] \in Request /\ req[r].op \in {"move", "qc"}
  BY DEF Base, CommitMove
<1>2. next \in DOMAIN Allowed
  BY <1>1, RequestForms
<1>3. next \in Statuses /\ next # "NONE"
  BY <1>2, AllowedStatuses DEF Statuses
<1>4. repair' = [repair EXCEPT !.status = next]
  BY DEF CommitMove
<1> HIDE DEF next
<1>5. /\ repair' \in Job /\ repair'.parts = repair.parts /\ repair'.taken = repair.taken
      /\ repair'.adds = repair.adds /\ repair'.rounds = repair.rounds
      /\ repair'.status = next /\ repair'.deposit = repair.deposit
  BY <1>3, <1>4, JobFields DEF Job
<1>6. JobOK(repair') /\ LedgerOK(drawer', repair'.rounds, Cardinality(repair'.adds))
  BY <1>5, JobChange DEF CommitMove
<1> QED BY <1>3, <1>5, <1>6, FinishBase DEF CommitMove, Base

\* Units put back leave a stock of natural numbers.
LEMMA PutBackType ==
  ASSUME Base, NEW parts, IsFiniteSet(parts)
  PROVE  PutBack(parts) \in [Products -> Nat]
<1>1. \A p \in Products : Back(p, parts) \in Nat /\ stock[p] \in Nat
  BY BackNat DEF Base
<1> QED BY <1>1 DEF PutBack

LEMMA DepositBackOK ==
  ASSUME Base, NEW l, NEW n \in Nat, NEW c \in Nat, LedgerOK(l, n, c)
  PROVE  LedgerOK(DepositBack(l), n, c)
<1> DEFINE e == Entry("REPAIR_DEPOSIT_REFUND", 0, "OUT", repair.deposit)
<1>1. e \in LedgerEntries /\ e.src = "REPAIR_DEPOSIT_REFUND"
  BY JobFields DEF Sources, Entry, LedgerEntries
<1> HIDE DEF e
<1>2. LedgerOK(Record(l, {e}), n, c)
  BY <1>1, LedgerRecordOne
<1> QED BY <1>2 DEF DepositBack, e

LEMMA CommitCancelBase == ASSUME Base, NEW r \in Requests, CommitCancel(r) PROVE Base'
<1> DEFINE parts == req[r].parts
<1>1. repair' = [repair EXCEPT !.status = "CANCELLED", !.parts = repair.parts \ parts]
  BY DEF CommitCancel
<1>2. IsFiniteSet(parts)
  BY DEF CommitCancel, Base, AskedOK
<1> HIDE DEF parts
<1>3. /\ repair' \in Job /\ repair'.parts = repair.parts \ parts /\ repair'.taken = repair.taken
      /\ repair'.adds = repair.adds /\ repair'.rounds = repair.rounds
      /\ repair'.status = "CANCELLED" /\ repair'.deposit = repair.deposit
  BY <1>1, JobFields DEF Job, Statuses
<1>4. IsFiniteSet(repair'.parts)
  BY <1>3, JobFields, FS_Subset
<1>5. JobOK(repair')
  BY <1>3, <1>4 DEF Base, JobOK
<1>6. LedgerOK(drawer', repair'.rounds, Cardinality(repair'.adds))
  BY <1>3, JobFields, DepositBackOK DEF CommitCancel, Base
<1>7. stock' \in [Products -> Nat]
  BY <1>2, PutBackType DEF CommitCancel, parts
<1> QED BY <1>3, <1>5, <1>6, <1>7, FinishBase DEF CommitCancel

LEMMA CommitAddPartBase == ASSUME Base, NEW r \in Requests, CommitAddPart(r) PROVE Base'
<1> DEFINE p == req[r].product
           x == [n |-> repair.taken + 1, product |-> p]
<1>1. req[r] \in Request /\ req[r].op = "addPart"
  BY DEF Base, CommitAddPart
<1>2. p \in Products /\ repair.status # "NONE"
  BY <1>1, RequestForms, RequestNeedsJob
<1>3. /\ repair' = [repair EXCEPT !.parts = repair.parts \cup {x}, !.taken = repair.taken + 1]
      /\ stock' = [stock EXCEPT ![p] = @ - 1] /\ stock[p] >= 1
  BY DEF CommitAddPart, OnShelf
<1>4. /\ x \in Parts /\ x.n = repair.taken + 1
      /\ repair.parts \cup {x} \subseteq Parts /\ repair.taken + 1 \in Nat
  BY <1>2, JobFields DEF Parts
<1> HIDE DEF p, x
<1>5. /\ repair' \in Job /\ repair'.parts = repair.parts \cup {x}
      /\ repair'.taken = repair.taken + 1
      /\ repair'.adds = repair.adds /\ repair'.rounds = repair.rounds
      /\ repair'.status = repair.status /\ repair'.deposit = repair.deposit
  BY <1>3, <1>4, JobFields DEF Job
<1>6. IsFiniteSet(repair'.parts)
  BY <1>5, JobFields, FS_AddElement
<1>7. \A y \in repair'.parts : y.n <= repair'.taken
  BY <1>4, <1>5, JobFields DEF Base, JobOK, Parts
<1>8. JobOK(repair')
  BY <1>5, <1>6, <1>7 DEF Base, JobOK
<1>9. LedgerOK(drawer', repair'.rounds, Cardinality(repair'.adds))
  BY <1>5 DEF CommitAddPart, Base
<1>10. stock' \in [Products -> Nat]
  BY <1>2, <1>3 DEF Base
<1> QED BY <1>2, <1>5, <1>8, <1>9, <1>10, FinishBase DEF CommitAddPart

LEMMA CommitRemovePartBase == ASSUME Base, NEW r \in Requests, CommitRemovePart(r) PROVE Base'
<1> DEFINE x == req[r].part
<1>1. req[r] \in Request /\ req[r].op = "removePart"
  BY DEF Base, CommitRemovePart
<1>2. repair.status # "NONE"
  BY <1>1, RequestForms, RequestNeedsJob
<1>3. repair' = [repair EXCEPT !.parts = repair.parts \ {x}] /\ stock' = PutBack({x})
  BY DEF CommitRemovePart
<1> HIDE DEF x
<1>4. /\ repair' \in Job /\ repair'.parts = repair.parts \ {x} /\ repair'.taken = repair.taken
      /\ repair'.adds = repair.adds /\ repair'.rounds = repair.rounds
      /\ repair'.status = repair.status /\ repair'.deposit = repair.deposit
  BY <1>3, JobFields DEF Job
<1>5. IsFiniteSet(repair'.parts) /\ IsFiniteSet({x})
  BY <1>4, JobFields, FS_Subset, FS_Singleton
<1>6. JobOK(repair')
  BY <1>4, <1>5 DEF Base, JobOK
<1>7. LedgerOK(drawer', repair'.rounds, Cardinality(repair'.adds))
  BY <1>4 DEF CommitRemovePart, Base
<1>8. stock' \in [Products -> Nat]
  BY <1>3, <1>5, PutBackType
<1> QED BY <1>2, <1>4, <1>6, <1>7, <1>8, FinishBase DEF CommitRemovePart

LEMMA CommitPayBase == ASSUME Base, NEW r \in Requests, CommitPay(r) PROVE Base'
<1> DEFINE m == req[r]
           pay == IF m.partial THEN "PARTIAL" ELSE "PAID"
           e == Entry("REPAIR_FINAL_PAYMENT", repair.rounds, "IN", m.received)
<1>1. m \in Request /\ m.op \in {"pay", "quickPay"}
  BY DEF Base, CommitPay
<1>2. m.total \in Nat /\ m.cut \in Nat /\ m.received \in Nat
  BY <1>1, RequestForms
<1>3. /\ repair' = [repair EXCEPT !.status = "DELIVERED", !.paid = m.received, !.price = m.total,
                                  !.cut = m.cut, !.pay = pay]
      /\ drawer' = IF m.received > 0 THEN Record(drawer, {e}) ELSE drawer
  BY DEF CommitPay, TakePayment
<1>4. pay \in {"PARTIAL", "PAID"}
  OBVIOUS
<1>5. e \in LedgerEntries /\ e.src = "REPAIR_FINAL_PAYMENT" /\ e.n = repair.rounds
  BY <1>2, JobFields DEF Sources, Entry, LedgerEntries
<1> HIDE DEF m, pay, e
<1>6. /\ repair' \in Job /\ repair'.parts = repair.parts /\ repair'.taken = repair.taken
      /\ repair'.adds = repair.adds /\ repair'.rounds = repair.rounds
      /\ repair'.status = "DELIVERED" /\ repair'.deposit = repair.deposit
  BY <1>2, <1>3, <1>4, JobFields DEF Job, Statuses
<1>7. JobOK(repair')
  BY <1>6, JobSame DEF Base
<1>8. LedgerOK(Record(drawer, {e}), repair.rounds, Cardinality(repair.adds))
  <2>1. LedgerOK(drawer, repair.rounds, Cardinality(repair.adds))
    BY DEF Base
  <2>2. e.n <= repair.rounds
    BY <1>5, JobFields
  <2> QED BY <1>5, <2>1, <2>2, JobFields, LedgerRecordOne
<1>9. LedgerOK(drawer', repair'.rounds, Cardinality(repair'.adds))
  BY <1>3, <1>6, <1>8 DEF Base
<1> QED BY <1>6, <1>7, <1>9, FinishBase DEF CommitPay, Base

\* The additional payments keep their numbers when they are given back.
LEMMA Unkept ==
  ASSUME NEW A, A \subseteq Payments, IsFiniteSet(A), Numbered(A), NEW L,
         NEW B, B = GivenBack(A, L)
  PROVE  /\ B \subseteq Payments /\ IsFiniteSet(B) /\ Cardinality(B) = Cardinality(A)
         /\ Numbered(B) /\ (L = A => \A b \in B : ~b.kept)
<1> DEFINE f == [a \in A |-> IF a \in L THEN [a EXCEPT !.kept = FALSE] ELSE a]
<1>1. \A a \in A : f[a] \in Payments /\ f[a].n = a.n /\ (a \in L => f[a].kept = FALSE)
  BY DEF Payments
<1>2. B = {f[a] : a \in A} /\ f = [a \in A |-> f[a]]
  BY DEF GivenBack
<1> HIDE DEF f
<1>3. \A a, b \in A : f[a] = f[b] => a = b
  BY <1>1 DEF Numbered
<1>4. f \in Bijection(A, B)
  BY <1>2, <1>3 DEF Bijection, Injection, Surjection, IsInjective
<1>5. IsFiniteSet(B) /\ Cardinality(B) = Cardinality(A)
  BY <1>4, FS_Bijection DEF ExistsBijection
<1>6. Numbered(B)
  <2>1. \A b \in B : \E a \in A : b = f[a] /\ b.n = a.n
    BY <1>1, <1>2
  <2>2. \A b \in B : b.n \in 1..Cardinality(B)
    BY <2>1, <1>5 DEF Numbered
  <2>3. \A b, c \in B : b.n = c.n => b = c
    BY <2>1 DEF Numbered
  <2> QED BY <2>2, <2>3 DEF Numbered
<1> QED BY <1>1, <1>2, <1>5, <1>6

\* One additional payment more, under the next number.
LEMMA NextPayment ==
  ASSUME NEW A, A \subseteq Payments, IsFiniteSet(A), Numbered(A), NEW amount \in Nat,
         NEW x, x = [n |-> Cardinality(A) + 1, amount |-> amount, kept |-> TRUE]
  PROVE  /\ x \in Payments /\ x \notin A /\ A \cup {x} \subseteq Payments
         /\ IsFiniteSet(A \cup {x}) /\ Cardinality(A \cup {x}) = Cardinality(A) + 1
         /\ Numbered(A \cup {x})
<1>1. Cardinality(A) \in Nat
  BY FS_CardinalityType
<1>2. x \in Payments /\ x.n = Cardinality(A) + 1
  BY <1>1 DEF Payments
<1>3. \A a \in A : a.n \in Nat /\ a.n <= Cardinality(A) /\ a.n >= 1
  BY <1>1 DEF Numbered, Payments
<1>4. x \notin A
  BY <1>1, <1>2, <1>3
<1>5. IsFiniteSet(A \cup {x}) /\ Cardinality(A \cup {x}) = Cardinality(A) + 1
  BY <1>4, FS_AddElement
<1>6. \A a \in A \cup {x} : a.n \in 1..Cardinality(A \cup {x})
  BY <1>1, <1>2, <1>3, <1>5
<1>7. \A a, b \in A \cup {x} : a.n = b.n => a = b
  <2>1. \A a \in A : a.n # x.n
    BY <1>1, <1>2, <1>3
  <2>2. \A a, b \in A : a.n = b.n => a = b
    BY DEF Numbered
  <2> QED BY <2>1, <2>2
<1> QED BY <1>2, <1>4, <1>5, <1>6, <1>7 DEF Numbered

\* The entries of a refund are one per payment.
LEMMA RefundEntriesType ==
  ASSUME NEW m, m.paid \in Nat, m.adds \subseteq Payments, IsFiniteSet(m.adds)
  PROVE  /\ RefundEntries(m) \subseteq LedgerEntries /\ IsFiniteSet(RefundEntries(m))
         /\ \A e \in RefundEntries(m) : e.src \in RefundSources /\ e.dir = "OUT"
<1> DEFINE h == [a \in m.adds |-> Entry("REPAIR_ADDITIONAL_PAYMENT_REFUND", a.n, "OUT", a.amount)]
           I == {h[a] : a \in m.adds}
           P == IF m.paid > 0 THEN {Entry("REPAIR_FINAL_PAYMENT_REFUND", 0, "OUT", m.paid)} ELSE {}
<1>1. RefundEntries(m) = P \cup I
  BY DEF RefundEntries
<1>2. \A a \in m.adds : /\ h[a] \in LedgerEntries
                        /\ h[a].src = "REPAIR_ADDITIONAL_PAYMENT_REFUND" /\ h[a].dir = "OUT"
  BY DEF Entry, LedgerEntries, Payments, Sources
<1>3. h = [a \in m.adds |-> h[a]]
  OBVIOUS
<1>4. /\ P \subseteq LedgerEntries /\ IsFiniteSet(P)
      /\ \A e \in P : e.src = "REPAIR_FINAL_PAYMENT_REFUND" /\ e.dir = "OUT"
  <2>1. CASE m.paid > 0
    <3> DEFINE e == Entry("REPAIR_FINAL_PAYMENT_REFUND", 0, "OUT", m.paid)
    <3>1. e \in LedgerEntries /\ e.src = "REPAIR_FINAL_PAYMENT_REFUND" /\ e.dir = "OUT"
      BY DEF Entry, LedgerEntries, Sources
    <3>2. P = {e}
      BY <2>1
    <3> HIDE DEF e, P
    <3> QED BY <3>1, <3>2, FS_Singleton
  <2>2. CASE ~(m.paid > 0)
    <3>1. P = {}
      BY <2>2
    <3> HIDE DEF P
    <3> QED BY <3>1, FS_EmptySet
  <2> QED BY <2>1, <2>2
<1> HIDE DEF h, P
<1>5. IsFiniteSet(I)
  BY <1>3, ImageFinite
<1>6. IsFiniteSet(P \cup I)
  BY <1>4, <1>5, FS_Union
<1> QED BY <1>1, <1>2, <1>4, <1>6 DEF RefundSources

LEMMA QuickCreateBase == ASSUME Base, NEW r \in Requests, QuickCreate(r) PROVE Base'
<1>1. /\ repair' = [repair EXCEPT !.status = "RECEIVED"] /\ drawer' = drawer /\ stock' = stock
      /\ overtaken' = overtaken /\ req' = [req EXCEPT ![r] = [op |-> "quick"]]
  BY DEF QuickCreate
<1>2. repair.deposit = 0
  BY DEF QuickCreate, Base, Blank, NoRepair
<1>3. /\ repair' \in Job /\ repair'.parts = repair.parts /\ repair'.taken = repair.taken
      /\ repair'.adds = repair.adds /\ repair'.rounds = repair.rounds
      /\ repair'.status = "RECEIVED" /\ repair'.deposit = repair.deposit
  BY <1>1, JobFields, AllowedStatuses DEF Job, Statuses
<1>4. JobOK(repair') /\ LedgerOK(drawer', repair'.rounds, Cardinality(repair'.adds))
  BY <1>1, <1>3, JobChange
<1>5. [op |-> "quick"] \in Request /\ AskedOK([op |-> "quick"], repair.deposit)
  BY <1>2 DEF Request, AskedOK, Quick
<1>6. stock' \in [Products -> Nat] /\ overtaken' \in BOOLEAN
  BY <1>1 DEF Base
<1> QED BY <1>1, <1>3, <1>4, <1>5, <1>6, BaseStep

LEMMA QuickFinishBase == ASSUME Base, NEW r \in Requests, QuickFinish(r) PROVE Base'
<1>1. /\ repair' = [repair EXCEPT !.status = "COMPLETED", !.pending = TRUE]
      /\ drawer' = drawer /\ stock' = stock
      /\ req' = [req EXCEPT ![r] = [op |-> "quickDone"]]
  BY DEF QuickFinish
<1>2. repair.deposit = 0
  BY DEF QuickFinish, Base, AskedOK, Quick
<1>3. /\ repair' \in Job /\ repair'.parts = repair.parts /\ repair'.taken = repair.taken
      /\ repair'.adds = repair.adds /\ repair'.rounds = repair.rounds
      /\ repair'.status = "COMPLETED" /\ repair'.deposit = repair.deposit
  BY <1>1, JobFields, AllowedStatuses DEF Job, Statuses
<1>4. JobOK(repair') /\ LedgerOK(drawer', repair'.rounds, Cardinality(repair'.adds))
  BY <1>1, <1>3, JobChange
<1>5. [op |-> "quickDone"] \in Request /\ AskedOK([op |-> "quickDone"], repair.deposit)
  BY <1>2 DEF Request, AskedOK, Quick
<1>6. stock' \in [Products -> Nat] /\ overtaken' \in BOOLEAN
  BY <1>1, OvertakenType DEF Base, QuickFinish
<1> QED BY <1>1, <1>3, <1>4, <1>5, <1>6, BaseStep

LEMMA QuickGiveUpBase == ASSUME Base, NEW r \in Requests, QuickGiveUp(r) PROVE Base'
<1>1. /\ repair' = [repair EXCEPT !.status = "CANCELLED", !.pending = FALSE]
      /\ drawer' = drawer /\ stock' = stock /\ req' = [req EXCEPT ![r] = Idle]
  BY DEF QuickGiveUp
<1>2. /\ repair' \in Job /\ repair'.parts = repair.parts /\ repair'.taken = repair.taken
      /\ repair'.adds = repair.adds /\ repair'.rounds = repair.rounds
      /\ repair'.status = "CANCELLED" /\ repair'.deposit = repair.deposit
  BY <1>1, JobFields DEF Job, Statuses
<1>3. JobOK(repair') /\ LedgerOK(drawer', repair'.rounds, Cardinality(repair'.adds))
  BY <1>1, <1>2, JobChange
<1>4. stock' \in [Products -> Nat]
  BY <1>1 DEF Base
<1>5. overtaken' \in BOOLEAN
  <2>1. overtaken \in BOOLEAN /\ overtaken' = (overtaken \/ ~QuickStands)
    BY DEF QuickGiveUp, Base
  <2> QED BY <2>1, Zenon
<1> QED BY <1>1, <1>2, <1>3, <1>4, <1>5, IdleAsked, BaseStep

LEMMA CommitReverseBase == ASSUME Base, NEW r \in Requests, CommitReverse(r) PROVE Base'
<1> DEFINE m == req[r]
           price == PriceBefore(m)
           cut == IF m.cut > 0 THEN 0 ELSE repair.cut
           e == Entry("REVERSAL", repair.rounds, "OUT", m.paid)
<1>1. m \in Request /\ m.op = "reverse"
  BY DEF Base, CommitReverse
<1>2. m.paid \in Nat /\ m.price \in Nat /\ m.cut \in Nat
  BY <1>1, RequestForms
<1>3. price \in Nat /\ cut \in Nat
  BY <1>2, JobFields DEF PriceBefore
<1>4. /\ repair' = [repair EXCEPT !.status = "COMPLETED", !.pay = "PENDING", !.paid = 0,
                                  !.price = price, !.cut = cut, !.rounds = repair.rounds + 1]
      /\ drawer' = Record(drawer, {e})
  BY DEF CommitReverse
<1>5. e \in LedgerEntries /\ e.src = "REVERSAL" /\ e.n = repair.rounds
  BY <1>2, JobFields DEF Sources, Entry, LedgerEntries
<1> HIDE DEF m, price, cut, e
<1>6. /\ repair' \in Job /\ repair'.parts = repair.parts /\ repair'.taken = repair.taken
      /\ repair'.adds = repair.adds /\ repair'.rounds = repair.rounds + 1
      /\ repair'.status = "COMPLETED" /\ repair'.deposit = repair.deposit
  <2>1. repair.rounds + 1 \in Nat
    BY JobFields
  <2> QED BY <1>3, <1>4, <2>1, JobFields, AllowedStatuses DEF Job, Statuses
<1>7. JobOK(repair')
  BY <1>6, JobSame DEF Base
<1>8. LedgerOK(drawer', repair'.rounds, Cardinality(repair'.adds))
  <2>1. LedgerOK(drawer, repair.rounds + 1, Cardinality(repair.adds))
    BY JobFields, LedgerLater DEF Base
  <2>2. e.n < repair.rounds + 1
    BY <1>5, JobFields
  <2>3. LedgerOK(Record(drawer, {e}), repair.rounds + 1, Cardinality(repair.adds))
    BY <1>5, <2>1, <2>2, JobFields, LedgerRecordOne
  <2> QED BY <1>4, <1>6, <2>3
<1> QED BY <1>6, <1>7, <1>8, FinishBase DEF CommitReverse, Base

LEMMA CommitRefundBase == ASSUME Base, NEW r \in Requests, CommitRefund(r) PROVE Base'
<1> DEFINE m == req[r]
           adds == GivenBack(repair.adds, m.adds)
<1>1. m \in Request /\ m.op = "refund" /\ IsFiniteSet(m.adds)
  BY DEF Base, CommitRefund, AskedOK
<1>2. m.paid \in Nat /\ m.adds \subseteq Payments
  BY <1>1, RequestForms
<1>3. /\ repair' = [repair EXCEPT !.status = "CANCELLED", !.pay = "PENDING", !.paid = 0,
                                  !.parts = {}, !.adds = adds, !.rounds = repair.rounds + 1]
      /\ drawer' = DepositBack(Record(drawer, RefundEntries(m)))
      /\ stock' = PutBack(repair.parts)
  BY DEF CommitRefund
<1>4. /\ adds \subseteq Payments /\ IsFiniteSet(adds)
      /\ Cardinality(adds) = Cardinality(repair.adds) /\ Numbered(adds)
  BY JobFields, Unkept DEF Base, JobOK
<1> HIDE DEF m, adds
<1>5. /\ repair' \in Job /\ repair'.parts = {} /\ repair'.taken = repair.taken
      /\ repair'.adds = adds /\ repair'.rounds = repair.rounds + 1
      /\ repair'.status = "CANCELLED" /\ repair'.deposit = repair.deposit
  <2>1. repair.rounds + 1 \in Nat
    BY JobFields
  <2> QED BY <1>3, <1>4, <2>1, JobFields DEF Job, Statuses
<1>6. JobOK(repair')
  BY <1>4, <1>5, FS_EmptySet DEF JobOK
<1>7. LedgerOK(drawer', repair'.rounds, Cardinality(repair'.adds))
  <2>1. LedgerOK(drawer, repair.rounds + 1, Cardinality(adds))
    BY <1>4, JobFields, LedgerLater DEF Base
  <2>2. /\ RefundEntries(m) \subseteq LedgerEntries /\ IsFiniteSet(RefundEntries(m))
        /\ \A e \in RefundEntries(m) : e.src \in RefundSources
    BY <1>1, <1>2, RefundEntriesType
  <2>3. LedgerOK(Record(drawer, RefundEntries(m)), repair.rounds + 1, Cardinality(adds))
    <3>1. repair.rounds + 1 \in Nat /\ Cardinality(adds) \in Nat
      BY <1>4, JobFields
    <3>2. \A e \in RefundEntries(m) : e.src \notin {"REPAIR_FINAL_PAYMENT", "REVERSAL",
                                                    "REPAIR_ADDITIONAL_PAYMENT"}
      BY <2>2 DEF RefundSources
    <3> QED BY <2>1, <2>2, <3>1, <3>2, LedgerRecord
  <2>4. LedgerOK(DepositBack(Record(drawer, RefundEntries(m))), repair.rounds + 1, Cardinality(adds))
    BY <1>4, <2>3, JobFields, DepositBackOK
  <2> QED BY <1>3, <1>5, <2>4
<1>8. stock' \in [Products -> Nat]
  BY <1>3, JobFields, PutBackType
<1> QED BY <1>5, <1>6, <1>7, <1>8, FinishBase DEF CommitRefund

\* Storing an additional payment keeps the rows in order.
LEMMA TakeAmountOK ==
  ASSUME Base, NEW m, m.amount \in Nat, NEW pay \in {"PENDING", "PARTIAL", "PAID"},
         TakeAmount(m, pay)
  PROVE  LET x == [n |-> Cardinality(repair.adds) + 1, amount |-> m.amount, kept |-> TRUE] IN
         /\ x \notin repair.adds /\ x.amount = m.amount /\ x.kept /\ repair'.adds = repair.adds \cup {x}
         /\ repair' \in Job /\ repair'.parts = repair.parts /\ repair'.taken = repair.taken
         /\ repair'.rounds = repair.rounds /\ repair'.status = repair.status
         /\ repair'.deposit = repair.deposit /\ repair'.pay = pay /\ repair'.paid = repair.paid
         /\ repair'.price = repair.price
         /\ JobOK(repair')
         /\ LedgerOK(drawer', repair'.rounds, Cardinality(repair'.adds))
<1> DEFINE n == Cardinality(repair.adds) + 1
           x == [n |-> n, amount |-> m.amount, kept |-> TRUE]
           e == Entry("REPAIR_ADDITIONAL_PAYMENT", n, "IN", m.amount)
<1>1. /\ repair' = [repair EXCEPT !.adds = repair.adds \cup {x}, !.pay = pay]
      /\ drawer' = Record(drawer, {e})
  BY DEF TakeAmount
<1>2. /\ x \in Payments /\ x \notin repair.adds /\ repair.adds \cup {x} \subseteq Payments
      /\ IsFiniteSet(repair.adds \cup {x})
      /\ Cardinality(repair.adds \cup {x}) = Cardinality(repair.adds) + 1
      /\ Numbered(repair.adds \cup {x})
  BY JobFields, NextPayment DEF Base, JobOK
<1>3. x.amount = m.amount /\ x.kept
  OBVIOUS
<1>4. n \in Nat /\ e \in LedgerEntries /\ e.src = "REPAIR_ADDITIONAL_PAYMENT" /\ e.n = n
  BY JobFields DEF Sources, Entry, LedgerEntries
<1> HIDE DEF x, e
<1>5. /\ repair' \in Job /\ repair'.parts = repair.parts /\ repair'.taken = repair.taken
      /\ repair'.adds = repair.adds \cup {x} /\ repair'.rounds = repair.rounds
      /\ repair'.status = repair.status /\ repair'.deposit = repair.deposit
      /\ repair'.pay = pay /\ repair'.paid = repair.paid /\ repair'.price = repair.price
  BY <1>1, <1>2, JobFields DEF Job
<1>6. JobOK(repair')
  BY <1>2, <1>5 DEF Base, JobOK
<1>7. LedgerOK(drawer', repair'.rounds, Cardinality(repair'.adds))
  <2>1. LedgerOK(drawer, repair.rounds, n)
    BY <1>4, JobFields, LedgerLater DEF Base
  <2>2. e.n <= n
    BY <1>4
  <2>3. LedgerOK(Record(drawer, {e}), repair.rounds, n)
    BY <1>4, <2>1, <2>2, JobFields, LedgerRecordOne
  <2> QED BY <1>1, <1>2, <1>5, <2>3
<1> QED BY <1>2, <1>3, <1>5, <1>6, <1>7 DEF x

LEMMA PayAfter ==
  ASSUME Base, NEW b
  PROVE  /\ (IF b THEN "PAID" ELSE repair.pay) \in {"PENDING", "PARTIAL", "PAID"}
         /\ (IF b THEN "PAID" ELSE "PARTIAL") \in {"PENDING", "PARTIAL", "PAID"}
<1>1. repair.pay \in {"PENDING", "PARTIAL", "PAID"}
  BY JobFields DEF Job
<1> QED BY <1>1

LEMMA CommitAddBase == ASSUME Base, NEW r \in Requests, CommitAdd(r) PROVE Base'
<1>1. req[r] \in Request /\ req[r].op = "add"
  BY DEF Base, CommitAdd
<1>2. req[r].amount \in Nat /\ repair.status # "NONE"
  BY <1>1, RequestForms, RequestNeedsJob
<1>3. PICK pay \in {"PENDING", "PARTIAL", "PAID"} : TakeAmount(req[r], pay)
  BY PayAfter DEF CommitAdd
<1> QED BY <1>2, <1>3, TakeAmountOK, FinishBase DEF CommitAdd, Base

LEMMA CommitDebtBase == ASSUME Base, NEW r \in Requests, CommitDebt(r) PROVE Base'
<1>1. req[r] \in Request /\ req[r].op = "debt"
  BY DEF Base, CommitDebt
<1>2. req[r].amount \in Nat /\ repair.status # "NONE"
  BY <1>1, RequestForms, RequestNeedsJob
<1>3. PICK pay \in {"PENDING", "PARTIAL", "PAID"} : TakeAmount(req[r], pay)
  BY PayAfter DEF CommitDebt
<1> QED BY <1>2, <1>3, TakeAmountOK, FinishBase DEF CommitDebt, Base

LEMMA NextBase == ASSUME Base, [Next]_vars PROVE Base'
<1>1. CASE UNCHANGED vars
  BY <1>1 DEF vars, Base, Blank
<1>2. CASE Create \/ Edit \/ PartsDone
  BY <1>2, CreateBase, EditBase, PartsDoneBase
<1>3. ASSUME NEW r \in Requests,
             \/ AskMove(r) \/ AskCancel(r) \/ AskQc(r) \/ AskAddPart(r) \/ AskRemovePart(r)
             \/ AskPay(r) \/ AskReverse(r) \/ AskRefund(r) \/ AskAdd(r) \/ AskDebt(r)
             \/ QuickAskPay(r) \/ Abort(r)
      PROVE  Base'
  BY <1>3, AskMoveBase, AskCancelBase, AskQcBase, AskAddPartBase, AskRemovePartBase, AskPayBase,
     AskReverseBase, AskRefundBase, AskAddBase, AskDebtBase, QuickAskPayBase, AbortBase
<1>4. ASSUME NEW r \in Requests,
             \/ CommitMove(r) \/ CommitCancel(r) \/ CommitAddPart(r) \/ CommitRemovePart(r)
             \/ QuickCreate(r) \/ QuickFinish(r) \/ QuickGiveUp(r) \/ CommitPay(r)
             \/ CommitReverse(r) \/ CommitRefund(r) \/ CommitAdd(r) \/ CommitDebt(r)
      PROVE  Base'
  BY <1>4, CommitMoveBase, CommitCancelBase, CommitAddPartBase, CommitRemovePartBase,
     QuickCreateBase, QuickFinishBase, QuickGiveUpBase, CommitPayBase, CommitReverseBase,
     CommitRefundBase, CommitAddBase, CommitDebtBase
<1> QED BY <1>1, <1>2, <1>3, <1>4 DEF Next

\* What is true however the requests race.
LEMMA BaseInvariant == Spec => []Base
<1>1. Init => Base
  BY InitBase
<1>2. Base /\ [Next]_vars => Base'
  BY NextBase
<1> QED BY <1>1, <1>2, PTL DEF Spec

\* The rows of the job, its ledger and its requests are well formed.
THEOREM TypeCorrect == Spec => []TypeOK
<1>1. Base => TypeOK
  BY DEF Base, JobOK, LedgerOK, LedgerEntries, TypeOK
<1> QED BY <1>1, BaseInvariant, PTL

-----------------------------------------------------------------------------
(* Clean: what holds until a transaction relies on something that changed  *)

\* A transaction that leaves nothing overtaken found what it had read.
LEMMA FinishStands ==
  ASSUME NEW r, overtaken' = (overtaken \/ ~Stands(r)), ~overtaken'
  PROVE  ~overtaken /\ Stands(r)
BY Zenon

LEMMA StandsMeans ==
  ASSUME NEW r \in Requests, Stands(r)
  PROVE  LET m == req[r] IN
         /\ m.op = "move" => repair.status = m.from
         /\ m.op = "cancel" => repair.status # "DELIVERED" /\ repair.parts = m.parts
         /\ m.op = "qc" => repair.status = "QC_PENDING"
         /\ m.op = "addPart" => TakesParts /\ NotYet(m.product)
         /\ m.op = "removePart" => GivesParts /\ m.part \in repair.parts
         /\ m.op = "reverse" => repair.paid = m.paid
         /\ m.op = "refund" => repair.paid = m.paid /\ repair.adds = m.adds
         /\ m.op = "add" => repair.price = m.price
         /\ m.op = "debt" => repair.status = "DELIVERED"
         /\ m.op = "quick" => repair.status = "RECEIVED"
BY DEF Stands

\* Everything that Clean says, of a job, its ledger and the shelf
CleanJob(j, ledger, shelf) ==
  /\ PaymentsFit(j, ledger)
  /\ PartsFit(j, shelf)
  /\ Net(ledger) = HeldBy(j)

\* A transaction of a request that keeps a clean job clean keeps Clean.
LEMMA CleanStep ==
  ASSUME Clean, ~overtaken' => ~overtaken,
         CleanJob(repair, drawer, stock) /\ ~overtaken' => CleanJob(repair', drawer', stock')
  PROVE  Clean'
<1>1. ~overtaken => CleanJob(repair, drawer, stock)
  BY DEF Clean, CleanJob
<1>2. SUFFICES ASSUME ~overtaken' PROVE CleanJob(repair', drawer', stock')
  BY DEF Clean, CleanJob
<1> QED BY <1>1, <1>2

\* The fields Clean speaks of
LEMMA CleanSame ==
  ASSUME NEW j, NEW l, NEW shelf, CleanJob(j, l, shelf),
         NEW k, k.status = j.status, k.pay = j.pay, k.paid = j.paid, k.adds = j.adds,
         k.rounds = j.rounds, k.deposit = j.deposit, k.parts = j.parts
  PROVE  CleanJob(k, l, shelf)
<1>1. PaymentsFit(k, l)
  BY DEF CleanJob, PaymentsFit
<1>2. PartsFit(k, shelf)
  BY DEF CleanJob, PartsFit
<1>3. HeldBy(k) = HeldBy(j)
  BY DEF HeldBy
<1> QED BY <1>1, <1>2, <1>3 DEF CleanJob

\* A job that moves between statuses before the pickup
LEMMA CleanMove ==
  ASSUME NEW j, NEW l, NEW shelf, CleanJob(j, l, shelf),
         j.status \notin {"DELIVERED", "CANCELLED"},
         NEW k, k.status \notin {"DELIVERED", "CANCELLED"}, k.pay = j.pay, k.paid = j.paid,
         k.adds = j.adds, k.rounds = j.rounds, k.deposit = j.deposit, k.parts = j.parts
  PROVE  CleanJob(k, l, shelf)
<1>1. PaymentsFit(k, l)
  BY DEF CleanJob, PaymentsFit
<1>2. PartsFit(k, shelf)
  BY DEF CleanJob, PartsFit
<1>3. HeldBy(k) = HeldBy(j)
  BY DEF HeldBy
<1> QED BY <1>1, <1>2, <1>3 DEF CleanJob

LEMMA AskClean == ASSUME Clean, NEW r, NEW m, Ask(r, m) PROVE Clean'
BY DEF Ask, Clean

LEMMA AbortClean == ASSUME Clean, NEW r, Abort(r) PROVE Clean'
BY DEF Abort, Clean

LEMMA EditClean == ASSUME Base, Clean, Edit PROVE Clean'
<1>1. PICK price \in Prices : repair' = [repair EXCEPT !.price = price]
  BY DEF Edit
<1>2. /\ repair'.status = repair.status /\ repair'.pay = repair.pay /\ repair'.paid = repair.paid
      /\ repair'.adds = repair.adds /\ repair'.rounds = repair.rounds
      /\ repair'.deposit = repair.deposit /\ repair'.parts = repair.parts
  BY <1>1, JobFields DEF Job
<1>3. overtaken' = overtaken /\ drawer' = drawer /\ stock' = stock
  BY DEF Edit
<1> QED BY <1>2, <1>3, CleanSame, CleanStep

LEMMA PartsDoneClean == ASSUME Base, Clean, PartsDone PROVE Clean'
<1>1. repair' = [repair EXCEPT !.pending = FALSE]
  BY DEF PartsDone
<1>2. /\ repair'.status = repair.status /\ repair'.pay = repair.pay /\ repair'.paid = repair.paid
      /\ repair'.adds = repair.adds /\ repair'.rounds = repair.rounds
      /\ repair'.deposit = repair.deposit /\ repair'.parts = repair.parts
  BY <1>1, JobFields DEF Job
<1>3. overtaken' = overtaken /\ drawer' = drawer /\ stock' = stock
  BY DEF PartsDone
<1> QED BY <1>2, <1>3, CleanSame, CleanStep

LEMMA CommitMoveClean == ASSUME Base, Clean, NEW r \in Requests, CommitMove(r) PROVE Clean'
<1>1. req[r] \in Request /\ req[r].op \in {"move", "qc"}
  BY DEF Base, CommitMove
<1>2. req[r].next \in DOMAIN Allowed /\ (req[r].op = "move" => req[r].from \in DOMAIN Allowed)
  BY <1>1, RequestForms
<1>3. /\ repair' = [repair EXCEPT !.status = req[r].next]
      /\ overtaken' = (overtaken \/ ~Stands(r)) /\ drawer' = drawer /\ stock' = stock
  BY DEF CommitMove, Finish
<1>4. /\ repair'.status = req[r].next /\ repair'.pay = repair.pay /\ repair'.paid = repair.paid
      /\ repair'.adds = repair.adds /\ repair'.rounds = repair.rounds
      /\ repair'.deposit = repair.deposit /\ repair'.parts = repair.parts
  BY <1>3, JobFields DEF Job
<1>5. ASSUME ~overtaken'
      PROVE  /\ ~overtaken
             /\ repair.status \notin {"DELIVERED", "CANCELLED"}
             /\ repair'.status \notin {"DELIVERED", "CANCELLED"}
  <2>1. ~overtaken /\ Stands(r)
    BY <1>3, <1>5, FinishStands
  <2>2. repair.status \in DOMAIN Allowed
    BY <1>1, <1>2, <2>1, StandsMeans, AllowedStatuses
  <2> QED BY <1>2, <1>4, <2>1, <2>2, AllowedStatuses
<1> QED BY <1>3, <1>4, <1>5, CleanMove, CleanStep

LEMMA QuickFinishClean == ASSUME Base, Clean, NEW r \in Requests, QuickFinish(r) PROVE Clean'
<1>1. /\ repair' = [repair EXCEPT !.status = "COMPLETED", !.pending = TRUE]
      /\ overtaken' = (overtaken \/ ~Stands(r)) /\ drawer' = drawer /\ stock' = stock
      /\ req[r].op = "quick"
  BY DEF QuickFinish
<1>2. /\ repair'.status = "COMPLETED" /\ repair'.pay = repair.pay /\ repair'.paid = repair.paid
      /\ repair'.adds = repair.adds /\ repair'.rounds = repair.rounds
      /\ repair'.deposit = repair.deposit /\ repair'.parts = repair.parts
  BY <1>1, JobFields DEF Job
<1>3. ~overtaken' => ~overtaken /\ repair.status = "RECEIVED"
  BY <1>1, FinishStands, StandsMeans
<1> QED BY <1>1, <1>2, <1>3, CleanMove, CleanStep

LEMMA QuickCreateClean == ASSUME Base, Clean, NEW r \in Requests, QuickCreate(r) PROVE Clean'
<1>1. /\ repair' = [repair EXCEPT !.status = "RECEIVED"] /\ repair.status = "NONE"
      /\ overtaken' = overtaken /\ drawer' = drawer /\ stock' = stock
  BY DEF QuickCreate
<1>2. /\ repair'.status = "RECEIVED" /\ repair'.pay = repair.pay /\ repair'.paid = repair.paid
      /\ repair'.adds = repair.adds /\ repair'.rounds = repair.rounds
      /\ repair'.deposit = repair.deposit /\ repair'.parts = repair.parts
  BY <1>1, JobFields DEF Job
<1> QED BY <1>1, <1>2, CleanMove, CleanStep

LEMMA QuickGiveUpClean == ASSUME Base, Clean, NEW r \in Requests, QuickGiveUp(r) PROVE Clean'
<1>1. /\ repair' = [repair EXCEPT !.status = "CANCELLED", !.pending = FALSE]
      /\ overtaken' = (overtaken \/ ~QuickStands) /\ drawer' = drawer /\ stock' = stock
  BY DEF QuickGiveUp
<1>2. /\ repair'.status = "CANCELLED" /\ repair'.pay = repair.pay /\ repair'.paid = repair.paid
      /\ repair'.adds = repair.adds /\ repair'.rounds = repair.rounds
      /\ repair'.deposit = repair.deposit /\ repair'.parts = repair.parts
  BY <1>1, JobFields DEF Job
<1>3. repair.deposit = 0
  BY DEF QuickGiveUp, Base, AskedOK, Quick
<1>4. ASSUME ~overtaken' PROVE ~overtaken /\ QuickStands
  BY <1>1, <1>4, Zenon
<1>5. ASSUME CleanJob(repair, drawer, stock), QuickStands
      PROVE  CleanJob(repair', drawer', stock')
  <2>1. /\ repair.status \in {"COMPLETED", "READY_PICKUP"} /\ repair.pay = "PENDING"
        /\ repair.parts = {}
    BY <1>5 DEF QuickStands, Payable
  <2>2. PaymentsFit(repair', drawer)
    BY <1>2, <1>3, <1>5, <2>1 DEF CleanJob, PaymentsFit
  <2>3. PartsFit(repair', stock)
    BY <1>2, <1>5, <2>1 DEF CleanJob, PartsFit
  <2>4. HeldBy(repair') = HeldBy(repair)
    BY <1>2, <1>3, <2>1 DEF HeldBy
  <2> QED BY <1>1, <1>5, <2>2, <2>3, <2>4 DEF CleanJob
<1> QED BY <1>4, <1>5, CleanStep

\* The money held is a natural number.
LEMMA CountedNat ==
  ASSUME NEW A, A \subseteq Payments, IsFiniteSet(A)
  PROVE  Total({a \in A : a.kept}) \in Nat
<1>1. IsFiniteSet({a \in A : a.kept}) /\ \A a \in {x \in A : x.kept} : a.amount \in Nat
  BY FS_Subset DEF Payments
<1> QED BY <1>1, TotalNat

\* One entry under a key of its own
LEMMA NetOne ==
  ASSUME NEW ledger, ledger \subseteq LedgerEntries, IsFiniteSet(ledger), NEW e \in LedgerEntries,
         \A x \in ledger : Key(x) # Key(e)
  PROVE  /\ Net(Record(ledger, {e})) =
              IF e.dir = "IN" THEN Net(ledger) + e.amount ELSE Net(ledger) - e.amount
         /\ Record(ledger, {e}) = ledger \cup {e}
<1>1. IsFiniteSet({e}) /\ e.amount \in Nat /\ e.dir \in {"IN", "OUT"}
  BY FS_Singleton DEF LedgerEntries
<1>2. Total({e}) = e.amount
  BY <1>1, TotalOne
<1>3. Net(Record(ledger, {e})) =
        IF e.dir = "IN" THEN Net(ledger) + Total({e}) ELSE Net(ledger) - Total({e})
  BY <1>1, NetRecord
<1>4. Record(ledger, {e}) = ledger \cup {e}
  BY RecordFresh
<1> QED BY <1>2, <1>3, <1>4

LEMMA NetInt ==
  ASSUME NEW ledger, ledger \subseteq LedgerEntries, IsFiniteSet(ledger)
  PROVE  Net(ledger) \in Int
BY SideNat, NetIsSides

LEMMA NetEmpty == Net({}) = 0
<1>1. Side({}, "IN") = Total({}) /\ Side({}, "OUT") = Total({})
  BY DEF Side
<1>2. Total({}) = 0
  BY TotalIsSum, AmountsEmpty
<1> QED BY <1>1, <1>2, NetIsSides

LEMMA CreateClean == ASSUME Base, Clean, Create PROVE Clean'
<1>1. PICK d \in Deposits :
        /\ repair' = [repair EXCEPT !.status = "RECEIVED", !.deposit = d]
        /\ drawer' = IF d > 0 THEN Record(drawer, {Entry("REPAIR_DEPOSIT", 0, "IN", d)}) ELSE drawer
  BY DEF Create
<1>2. repair = NoRepair /\ drawer = {} /\ overtaken' = overtaken /\ stock' = stock
  BY DEF Create, Base, Blank
<1>3. d \in Nat
  BY ConstantsAssumption
<1>4. /\ repair'.status = "RECEIVED" /\ repair'.pay = "PENDING" /\ repair'.paid = 0
      /\ repair'.adds = {} /\ repair'.rounds = 0 /\ repair'.deposit = d /\ repair'.parts = {}
  BY <1>1, <1>2 DEF NoRepair
<1> DEFINE e == Entry("REPAIR_DEPOSIT", 0, "IN", d)
<1>5. /\ e \in LedgerEntries /\ e.src = "REPAIR_DEPOSIT" /\ e.dir = "IN" /\ e.amount = d
  BY <1>3 DEF Entry, LedgerEntries, Sources
<1> HIDE DEF e
<1>6. Net(drawer') = d /\ drawer' \subseteq {e}
  <2>1. CASE d > 0
    <3>1. Net(Record({}, {e})) = Net({}) + d /\ Record({}, {e}) = {} \cup {e}
      BY <1>5, NetOne, FS_EmptySet
    <3>2. drawer' = Record({}, {e})
      BY <1>1, <1>2, <2>1 DEF e
    <3> QED BY <1>3, <3>1, <3>2, NetEmpty
  <2>2. CASE ~(d > 0)
    BY <1>1, <1>2, <1>3, <2>2, NetEmpty
  <2> QED BY <2>1, <2>2
<1>7. HeldBy(repair') = d
  <2>1. {a \in {} : a.kept} = {}
    OBVIOUS
  <2>2. Total({a \in repair'.adds : a.kept}) = 0
    BY <1>4, <2>1, TotalIsSum, AmountsEmpty
  <2> QED BY <1>3, <1>4, <2>2 DEF HeldBy
<1>8. PaymentsFit(repair', drawer')
  BY <1>4, <1>5, <1>6 DEF PaymentsFit, RefundSources
<1>9. PartsFit(repair, stock) => PartsFit(repair', stock')
  <2>1. repair.parts = {}
    BY <1>2 DEF NoRepair
  <2> QED BY <1>2, <1>4, <2>1 DEF PartsFit
<1> QED BY <1>2, <1>6, <1>7, <1>8, <1>9, CleanStep DEF CleanJob

LEMMA CommitPayClean == ASSUME Base, Clean, NEW r \in Requests, CommitPay(r) PROVE Clean'
<1> DEFINE m == req[r]
           pay == IF m.partial THEN "PARTIAL" ELSE "PAID"
           e == Entry("REPAIR_FINAL_PAYMENT", repair.rounds, "IN", m.received)
<1>1. m \in Request /\ m.op \in {"pay", "quickPay"}
  BY DEF Base, CommitPay
<1>2. m.received \in Nat
  BY <1>1, RequestForms
<1>3. /\ repair' = [repair EXCEPT !.status = "DELIVERED", !.paid = m.received, !.price = m.total,
                                  !.cut = m.cut, !.pay = pay]
      /\ drawer' = IF m.received > 0 THEN Record(drawer, {e}) ELSE drawer
      /\ repair.status \in {"COMPLETED", "READY_PICKUP"} /\ stock' = stock
      /\ overtaken' = (overtaken \/ ~Stands(r))
  BY DEF CommitPay, TakePayment, StillPayable, Payable, Finish
<1>4. pay # "PENDING"
  OBVIOUS
<1>5. /\ e \in LedgerEntries /\ e.src = "REPAIR_FINAL_PAYMENT" /\ e.n = repair.rounds
      /\ e.dir = "IN" /\ e.amount = m.received
      /\ Key(e) = [src |-> "REPAIR_FINAL_PAYMENT", n |-> repair.rounds, dir |-> "IN"]
  BY <1>2, JobFields DEF Sources, Entry, LedgerEntries, Key
<1> HIDE DEF m, pay, e
<1>6. /\ repair'.status = "DELIVERED" /\ repair'.pay = pay /\ repair'.paid = m.received
      /\ repair'.parts = repair.parts /\ repair'.adds = repair.adds
      /\ repair'.rounds = repair.rounds /\ repair'.deposit = repair.deposit
  BY <1>3, JobFields DEF Job
<1>7. ASSUME CleanJob(repair, drawer, stock)
      PROVE  CleanJob(repair', drawer', stock')
  <2>1. repair.pay = "PENDING" /\ repair.paid = 0
    BY <1>3, <1>7 DEF CleanJob, PaymentsFit
  <2>2. \A x \in drawer : Key(x) # Key(e)
    BY <1>3, <1>5, <1>7 DEF CleanJob, PaymentsFit, Key
  <2>3. drawer \subseteq LedgerEntries /\ IsFiniteSet(drawer)
    BY DEF Base, LedgerOK
  <2>4. Net(Record(drawer, {e})) = Net(drawer) + m.received /\ Record(drawer, {e}) = drawer \cup {e}
    BY <1>5, <2>2, <2>3, NetOne
  <2>5. Net(drawer) \in Int
    BY <2>3, NetInt
  <2>6. Net(drawer') = Net(drawer) + m.received /\ drawer' \subseteq drawer \cup {e}
    BY <1>2, <1>3, <2>4, <2>5
  <2>7. HeldBy(repair') = HeldBy(repair) + m.received
    <3>1. Total({a \in repair.adds : a.kept}) \in Nat
      BY CountedNat, JobFields
    <3> QED BY <1>2, <1>3, <1>6, <2>1, <3>1, JobFields DEF HeldBy
  <2>8. PaymentsFit(repair', drawer')
    <3>1. \A x \in drawer : x.src \notin RefundSources
      BY <1>3, <1>7 DEF CleanJob, PaymentsFit
    <3>2. \A x \in drawer' : x.src \notin RefundSources
      BY <1>5, <2>6, <3>1 DEF RefundSources
    <3> QED BY <1>3, <1>4, <1>6, <1>7, <3>2 DEF CleanJob, PaymentsFit
  <2>9. PartsFit(repair', stock')
    BY <1>3, <1>6, <1>7 DEF CleanJob, PartsFit
  <2> QED BY <1>7, <2>6, <2>7, <2>8, <2>9 DEF CleanJob
<1>8. ~overtaken' => ~overtaken
  BY <1>3, FinishStands
<1> QED BY <1>7, <1>8, CleanStep

LEMMA CommitReverseClean == ASSUME Base, Clean, NEW r \in Requests, CommitReverse(r) PROVE Clean'
<1> DEFINE m == req[r]
           e == Entry("REVERSAL", repair.rounds, "OUT", m.paid)
<1>1. m \in Request /\ m.op = "reverse"
  BY DEF Base, CommitReverse
<1>2. m.paid \in Nat
  BY <1>1, RequestForms
<1>3. /\ \E price, cut :
           repair' = [repair EXCEPT !.status = "COMPLETED", !.pay = "PENDING", !.paid = 0,
                                    !.price = price, !.cut = cut, !.rounds = repair.rounds + 1]
      /\ drawer' = Record(drawer, {e})
      /\ repair.status = "DELIVERED" /\ stock' = stock
      /\ overtaken' = (overtaken \/ ~Stands(r))
  BY DEF CommitReverse, StillPaid, Finish
<1>4. /\ e \in LedgerEntries /\ e.src = "REVERSAL" /\ e.n = repair.rounds
      /\ e.dir = "OUT" /\ e.amount = m.paid
  BY <1>2, JobFields DEF Sources, Entry, LedgerEntries
<1>5. ~overtaken' => ~overtaken /\ repair.paid = m.paid
  BY <1>1, <1>3, FinishStands, StandsMeans
<1> HIDE DEF m, e
<1>6. /\ repair'.status = "COMPLETED" /\ repair'.pay = "PENDING" /\ repair'.paid = 0
      /\ repair'.parts = repair.parts /\ repair'.adds = repair.adds
      /\ repair'.rounds = repair.rounds + 1 /\ repair'.deposit = repair.deposit
  BY <1>3, JobFields DEF Job
<1>7. drawer \subseteq LedgerEntries /\ IsFiniteSet(drawer)
  BY DEF Base, LedgerOK
<1>8. \A x \in drawer : /\ x.src = "REVERSAL" => x.n # repair.rounds
                        /\ x.src = "REPAIR_FINAL_PAYMENT" => x.n # repair.rounds + 1
  BY <1>7, JobFields DEF Base, LedgerOK, LedgerEntries
<1>9. ASSUME CleanJob(repair, drawer, stock), repair.paid = m.paid
      PROVE  CleanJob(repair', drawer', stock')
  <2>1. \A x \in drawer : Key(x) # Key(e)
    BY <1>4, <1>8 DEF Key
  <2>2. Net(drawer') = Net(drawer) - m.paid /\ drawer' = drawer \cup {e}
    BY <1>3, <1>4, <1>7, <2>1, NetOne
  <2>3. HeldBy(repair') = HeldBy(repair) - m.paid
    <3>1. Total({a \in repair.adds : a.kept}) \in Nat
      BY CountedNat, JobFields
    <3> QED BY <1>2, <1>3, <1>6, <1>9, <3>1, JobFields DEF HeldBy
  <2>4. PaymentsFit(repair', drawer')
    <3>1. \A x \in drawer : x.src \notin RefundSources
      BY <1>3, <1>9 DEF CleanJob, PaymentsFit
    <3>2. \A x \in drawer' : x.src \notin RefundSources
      BY <1>4, <2>2, <3>1 DEF RefundSources
    <3>3. \A x \in drawer' : ~(x.src = "REPAIR_FINAL_PAYMENT" /\ x.n = repair'.rounds)
      BY <1>4, <1>6, <1>8, <2>2
    <3>4. \A a \in repair'.adds : a.kept
      BY <1>3, <1>6, <1>9 DEF CleanJob, PaymentsFit
    <3> QED BY <1>6, <3>2, <3>3, <3>4 DEF PaymentsFit
  <2>5. PartsFit(repair', stock')
    BY <1>3, <1>6, <1>9 DEF CleanJob, PartsFit
  <2> QED BY <1>9, <2>2, <2>3, <2>4, <2>5 DEF CleanJob
<1> QED BY <1>5, <1>9, CleanStep

\* What a refund enters: the final payment and the additional payments.
LEMMA RefundEntriesTotal ==
  ASSUME NEW m, m.paid \in Nat, m.adds \subseteq Payments, IsFiniteSet(m.adds), Numbered(m.adds)
  PROVE  Total(RefundEntries(m)) = m.paid + Total(m.adds)
<1> DEFINE h == [a \in m.adds |-> Entry("REPAIR_ADDITIONAL_PAYMENT_REFUND", a.n, "OUT", a.amount)]
           I == {h[a] : a \in m.adds}
           e == Entry("REPAIR_FINAL_PAYMENT_REFUND", 0, "OUT", m.paid)
<1>1. RefundEntries(m) = (IF m.paid > 0 THEN {e} ELSE {}) \cup I
  BY DEF RefundEntries
<1>2. \A a \in m.adds : /\ h[a].src = "REPAIR_ADDITIONAL_PAYMENT_REFUND" /\ h[a].n = a.n
                        /\ h[a].amount = a.amount /\ a.amount \in Nat
  BY DEF Entry, Payments
<1>3. h = [a \in m.adds |-> h[a]]
  OBVIOUS
<1>4. e.src = "REPAIR_FINAL_PAYMENT_REFUND" /\ e.amount = m.paid
  BY DEF Entry
<1> HIDE DEF h, e
<1>5. IsFiniteSet(I)
  BY <1>3, ImageFinite
<1>6. \A a, b \in m.adds : h[a] = h[b] => a = b
  BY <1>2 DEF Numbered
<1>7. SumAmounts(I) = SumAmounts(m.adds)
  <2>1. SUFFICES ASSUME NEW A, A = m.adds PROVE SumAmounts(I) = SumAmounts(A)
    OBVIOUS
  <2>2. /\ IsFiniteSet(A) /\ \A a \in A : a.amount \in Nat
        /\ h = [a \in A |-> h[a]] /\ \A a, b \in A : h[a] = h[b] => a = b
        /\ \A a \in A : h[a].amount = a.amount
    BY <1>2, <1>3, <1>6, <2>1
  <2>3. I = {h[a] : a \in A}
    BY <2>1
  <2> HIDE DEF I
  <2> QED BY <2>2, <2>3, AmountsImage
<1>8. Total(I) = Total(m.adds)
  BY <1>7, TotalIsSum
<1>9. \A i \in I : i.amount \in Nat /\ i.src = "REPAIR_ADDITIONAL_PAYMENT_REFUND"
  BY <1>2
<1>10. Total(I) \in Nat
  BY <1>5, <1>9, TotalNat
<1>11. CASE m.paid > 0
  <2>1. RefundEntries(m) = I \cup {e} /\ e \notin I
    BY <1>1, <1>4, <1>9, <1>11
  <2>2. Total(I \cup {e}) = Total(I) + m.paid
    BY <1>4, <1>5, <1>9, <2>1, TotalWith
  <2> QED BY <1>8, <1>10, <2>1, <2>2
<1>12. CASE ~(m.paid > 0)
  <2>1. RefundEntries(m) = I /\ m.paid = 0
    BY <1>1, <1>12
  <2> QED BY <1>8, <1>10, <2>1
<1> QED BY <1>11, <1>12

\* The deposit goes back once: a ledger without its refund gets it, one that has it stays.
LEMMA DepositBackNet ==
  ASSUME NEW l, l \subseteq LedgerEntries, IsFiniteSet(l), repair.deposit \in Nat,
         \A x \in l : x.src # "REPAIR_DEPOSIT_REFUND"
  PROVE  /\ Net(DepositBack(l)) = Net(l) - repair.deposit
         /\ \A x \in DepositBack(l) : x \in l \/ x.src = "REPAIR_DEPOSIT_REFUND"
         /\ l \subseteq DepositBack(l)
         /\ repair.deposit > 0 =>
              \E x \in DepositBack(l) : Key(x) = Key(Entry("REPAIR_DEPOSIT_REFUND", 0, "OUT", 0))
<1> DEFINE e == Entry("REPAIR_DEPOSIT_REFUND", 0, "OUT", repair.deposit)
<1>1. /\ e \in LedgerEntries /\ e.src = "REPAIR_DEPOSIT_REFUND" /\ e.dir = "OUT"
      /\ e.amount = repair.deposit /\ Key(e) = Key(Entry("REPAIR_DEPOSIT_REFUND", 0, "OUT", 0))
  BY DEF Entry, LedgerEntries, Sources, Key
<1>2. DepositBack(l) = IF repair.deposit > 0 THEN Record(l, {e}) ELSE l
  BY DEF DepositBack
<1> HIDE DEF e
<1>3. \A x \in l : Key(x) # Key(e)
  BY <1>1 DEF Key
<1>4. Net(Record(l, {e})) = Net(l) - repair.deposit /\ Record(l, {e}) = l \cup {e}
  BY <1>1, <1>3, NetOne
<1>5. Net(l) \in Int
  BY NetInt
<1>6. CASE repair.deposit > 0
  BY <1>1, <1>2, <1>4, <1>6
<1>7. CASE ~(repair.deposit > 0)
  BY <1>2, <1>5, <1>7
<1> QED BY <1>6, <1>7

LEMMA CommitRefundClean == ASSUME Base, Clean, NEW r \in Requests, CommitRefund(r) PROVE Clean'
<1> DEFINE m == req[r]
           adds == GivenBack(repair.adds, m.adds)
           mid == Record(drawer, RefundEntries(m))
<1>1. m \in Request /\ m.op = "refund" /\ IsFiniteSet(m.adds)
  BY DEF Base, CommitRefund, AskedOK
<1>2. m.paid \in Nat /\ m.adds \subseteq Payments
  BY <1>1, RequestForms
<1>3. /\ repair' = [repair EXCEPT !.status = "CANCELLED", !.pay = "PENDING", !.paid = 0,
                                  !.parts = {}, !.adds = adds, !.rounds = repair.rounds + 1]
      /\ drawer' = DepositBack(mid)
      /\ stock' = PutBack(repair.parts) /\ repair.status = "DELIVERED"
      /\ overtaken' = (overtaken \/ ~Stands(r))
  BY DEF CommitRefund, StillPaid, Finish
<1>4. m.adds = repair.adds => \A a \in adds : ~a.kept
  BY JobFields, Unkept DEF Base, JobOK
<1>5. ~overtaken' => ~overtaken /\ repair.paid = m.paid /\ repair.adds = m.adds
  BY <1>1, <1>3, FinishStands, StandsMeans
<1> HIDE DEF m, adds, mid
<1>6. /\ repair'.status = "CANCELLED" /\ repair'.pay = "PENDING" /\ repair'.paid = 0
      /\ repair'.parts = {} /\ repair'.adds = adds
      /\ repair'.rounds = repair.rounds + 1 /\ repair'.deposit = repair.deposit
  BY <1>3, JobFields DEF Job
<1>7. drawer \subseteq LedgerEntries /\ IsFiniteSet(drawer)
  BY DEF Base, LedgerOK
<1>8. ASSUME CleanJob(repair, drawer, stock), repair.paid = m.paid, repair.adds = m.adds
      PROVE  CleanJob(repair', drawer', stock')
  <2>1. /\ RefundEntries(m) \subseteq LedgerEntries /\ IsFiniteSet(RefundEntries(m))
        /\ \A e \in RefundEntries(m) : e.src \in RefundSources /\ e.dir = "OUT"
    BY <1>1, <1>2, RefundEntriesType
  <2>2. \A x \in drawer : x.src \notin RefundSources
    BY <1>3, <1>8 DEF CleanJob, PaymentsFit
  <2>3. \A e \in RefundEntries(m) : \A x \in drawer : Key(x) # Key(e)
    BY <2>1, <2>2 DEF Key
  <2>4. Total(RefundEntries(m)) = m.paid + Total(m.adds)
    BY <1>1, <1>2, <1>8, RefundEntriesTotal DEF Base, JobOK
  <2>5. Net(mid) = Net(drawer) - (m.paid + Total(m.adds))
    BY <1>7, <2>1, <2>3, <2>4, NetRecord DEF mid
  <2>6. mid = drawer \cup RefundEntries(m) /\ IsFiniteSet(mid) /\ mid \subseteq LedgerEntries
    <3>1. mid = drawer \cup RefundEntries(m)
      BY <2>3, RecordFresh DEF mid
    <3>2. IsFiniteSet(drawer \cup RefundEntries(m))
      BY <1>7, <2>1, FS_Union
    <3> QED BY <1>7, <2>1, <3>1, <3>2
  <2>7. \A x \in mid : x.src # "REPAIR_DEPOSIT_REFUND"
    <3>1. \A e \in RefundEntries(m) : e.src # "REPAIR_DEPOSIT_REFUND"
      BY DEF RefundEntries, Entry
    <3> QED BY <2>2, <2>6, <3>1 DEF RefundSources
  <2>8. /\ Net(DepositBack(mid)) = Net(mid) - repair.deposit
        /\ \A x \in DepositBack(mid) : x \in mid \/ x.src = "REPAIR_DEPOSIT_REFUND"
        /\ repair.deposit > 0 => \E x \in DepositBack(mid) :
             Key(x) = Key(Entry("REPAIR_DEPOSIT_REFUND", 0, "OUT", 0))
    BY <2>6, <2>7, JobFields, DepositBackNet
  <2>9. HeldBy(repair) = repair.deposit + m.paid + Total(m.adds)
    <3>1. \A a \in repair.adds : a.kept
      BY <1>3, <1>8 DEF CleanJob, PaymentsFit
    <3>2. {a \in repair.adds : a.kept} = m.adds
      BY <1>8, <3>1
    <3> QED BY <1>3, <1>8, <3>2 DEF HeldBy
  <2>10. HeldBy(repair') = 0
    <3>1. {a \in repair'.adds : a.kept} = {}
      BY <1>4, <1>6, <1>8
    <3> QED BY <1>6, <3>1, TotalIsSum, AmountsEmpty DEF HeldBy
  <2>11. Net(drawer') = 0
    <3>1. Total(m.adds) \in Nat
      BY <1>1, <1>2, TotalNat DEF Payments
    <3>2. Net(drawer) = repair.deposit + m.paid + Total(m.adds)
      BY <1>8, <2>9 DEF CleanJob
    <3> QED BY <1>2, <1>3, <2>5, <2>8, <3>1, <3>2, JobFields
  <2>12. PaymentsFit(repair', drawer')
    <3>1. \A x \in drawer' : x.src = "REPAIR_FINAL_PAYMENT" => x.n <= repair.rounds
      <4>1. \A x \in drawer : x.src = "REPAIR_FINAL_PAYMENT" => x.n <= repair.rounds
        BY DEF Base, LedgerOK
      <4>2. \A x \in drawer' : x \in drawer \/ x.src \in RefundSources
        BY <1>3, <2>1, <2>6, <2>8 DEF RefundSources
      <4> QED BY <4>1, <4>2 DEF RefundSources
    <3>2. \A x \in drawer' : ~(x.src = "REPAIR_FINAL_PAYMENT" /\ x.n = repair'.rounds)
      BY <1>6, <3>1, JobFields
    <3>3. repair.deposit > 0 =>
            \E x \in drawer' : Key(x) = Key(Entry("REPAIR_DEPOSIT_REFUND", 0, "OUT", 0))
      BY <1>3, <2>8
    <3> QED BY <1>6, <3>2, <3>3 DEF PaymentsFit
  <2>13. PartsFit(repair', stock')
    <3>1. \A p \in Products : stock'[p] = stock[p] + Back(p, repair.parts)
      BY <1>3 DEF PutBack
    <3>2. \A p \in Products : Back(p, repair'.parts) = 0 /\ Back(p, repair.parts) \in Nat
      BY <1>6, BackNone, BackNat, JobFields
    <3>3. \A p \in Products : stock[p] + Back(p, repair.parts) = InitialStock[p]
      BY <1>8 DEF CleanJob, PartsFit
    <3>4. \A p \in Products : stock[p] \in Nat
      BY DEF Base
    <3> QED BY <1>6, <3>1, <3>2, <3>3, <3>4 DEF PartsFit
  <2> QED BY <2>10, <2>11, <2>12, <2>13 DEF CleanJob
<1> QED BY <1>5, <1>8, CleanStep

LEMMA CommitCancelClean == ASSUME Base, Clean, NEW r \in Requests, CommitCancel(r) PROVE Clean'
<1>1. req[r].op = "cancel"
  BY DEF CommitCancel
<1>2. /\ repair' = [repair EXCEPT !.status = "CANCELLED", !.parts = repair.parts \ req[r].parts]
      /\ stock' = PutBack(req[r].parts) /\ drawer' = DepositBack(drawer)
      /\ overtaken' = (overtaken \/ ~Stands(r))
  BY DEF CommitCancel, Finish
<1>3. ~overtaken' => ~overtaken /\ repair.status # "DELIVERED" /\ repair.parts = req[r].parts
  BY <1>1, <1>2, FinishStands, StandsMeans
<1>4. /\ repair'.status = "CANCELLED" /\ repair'.pay = repair.pay /\ repair'.paid = repair.paid
      /\ repair'.parts = repair.parts \ req[r].parts /\ repair'.adds = repair.adds
      /\ repair'.rounds = repair.rounds /\ repair'.deposit = repair.deposit
  BY <1>2, JobFields DEF Job
<1>5. drawer \subseteq LedgerEntries /\ IsFiniteSet(drawer)
  BY DEF Base, LedgerOK
<1>6. ASSUME CleanJob(repair, drawer, stock), repair.status # "DELIVERED",
             repair.parts = req[r].parts
      PROVE  CleanJob(repair', drawer', stock')
  <2>1. PartsFit(repair', stock')
    <3>1. \A p \in Products : stock'[p] = stock[p] + Back(p, repair.parts)
      BY <1>2, <1>6 DEF PutBack
    <3>2. repair'.parts = {}
      BY <1>4, <1>6
    <3>3. \A p \in Products : Back(p, repair'.parts) = 0 /\ Back(p, repair.parts) \in Nat
      BY <3>2, BackNone, BackNat, JobFields
    <3>4. \A p \in Products : stock[p] + Back(p, repair.parts) = InitialStock[p]
      BY <1>6 DEF CleanJob, PartsFit
    <3>5. \A p \in Products : stock[p] \in Nat
      BY DEF Base
    <3> QED BY <3>1, <3>2, <3>3, <3>4, <3>5 DEF PartsFit
  <2>2. \A x \in drawer : ~(x.src = "REPAIR_FINAL_PAYMENT" /\ x.n = repair.rounds)
    BY <1>6 DEF CleanJob, PaymentsFit
  <2>3. repair.pay = "PENDING" /\ repair.paid = 0
    BY <1>6 DEF CleanJob, PaymentsFit
  <2>4. CASE repair.status # "CANCELLED"
    <3>1. \A x \in drawer : x.src \notin RefundSources
      BY <1>6, <2>4 DEF CleanJob, PaymentsFit
    <3>2. \A x \in drawer : x.src # "REPAIR_DEPOSIT_REFUND"
      BY <3>1 DEF RefundSources
    <3>3. /\ Net(DepositBack(drawer)) = Net(drawer) - repair.deposit
          /\ \A x \in DepositBack(drawer) : x \in drawer \/ x.src = "REPAIR_DEPOSIT_REFUND"
          /\ repair.deposit > 0 => \E x \in DepositBack(drawer) :
               Key(x) = Key(Entry("REPAIR_DEPOSIT_REFUND", 0, "OUT", 0))
      BY <1>5, <3>2, JobFields, DepositBackNet
    <3>4. PaymentsFit(repair', drawer')
      <4>1. \A x \in drawer' : ~(x.src = "REPAIR_FINAL_PAYMENT" /\ x.n = repair.rounds)
        BY <1>2, <2>2, <3>3
      <4>2. repair.deposit > 0 =>
              \E x \in drawer' : Key(x) = Key(Entry("REPAIR_DEPOSIT_REFUND", 0, "OUT", 0))
        BY <1>2, <3>3
      <4> QED BY <1>4, <2>3, <4>1, <4>2 DEF PaymentsFit
    <3>5. Net(drawer') = HeldBy(repair')
      <4>1. Total({a \in repair.adds : a.kept}) \in Nat
        BY CountedNat, JobFields
      <4>2. Net(drawer) = repair.deposit + repair.paid + Total({a \in repair.adds : a.kept})
        BY <1>6, <2>4 DEF CleanJob, HeldBy
      <4>3. HeldBy(repair') = 0 + repair.paid + Total({a \in repair.adds : a.kept})
        BY <1>4 DEF HeldBy
      <4> QED BY <1>2, <3>3, <4>1, <4>2, <4>3, JobFields
    <3> QED BY <2>1, <3>4, <3>5 DEF CleanJob
  <2>5. CASE repair.status = "CANCELLED"
    <3>1. DepositBack(drawer) = drawer
      <4>1. CASE repair.deposit > 0
        <5> DEFINE e == Entry("REPAIR_DEPOSIT_REFUND", 0, "OUT", repair.deposit)
        <5>1. Key(e) = Key(Entry("REPAIR_DEPOSIT_REFUND", 0, "OUT", 0))
          BY DEF Key, Entry
        <5> HIDE DEF e
        <5>2. \E x \in drawer : Key(x) = Key(e)
          BY <1>6, <2>5, <4>1, <5>1 DEF CleanJob, PaymentsFit
        <5>3. Record(drawer, {e}) = drawer
          BY <5>2 DEF Record
        <5> QED BY <5>3 DEF DepositBack, e
      <4>2. CASE ~(repair.deposit > 0)
        BY <4>2 DEF DepositBack
      <4> QED BY <4>1, <4>2
    <3>2. PaymentsFit(repair', drawer)
      BY <1>4, <1>6, <2>5 DEF CleanJob, PaymentsFit
    <3>3. HeldBy(repair') = HeldBy(repair)
      BY <1>4, <2>5 DEF HeldBy
    <3> QED BY <1>2, <1>6, <2>1, <3>1, <3>2, <3>3 DEF CleanJob
  <2> QED BY <2>4, <2>5
<1> QED BY <1>3, <1>6, CleanStep

LEMMA CommitAddPartClean ==
  ASSUME Base, Clean, NEW r \in Requests, CommitAddPart(r) PROVE Clean'
<1> DEFINE p == req[r].product
           x == [n |-> repair.taken + 1, product |-> p]
<1>1. req[r] \in Request /\ req[r].op = "addPart"
  BY DEF Base, CommitAddPart
<1>2. p \in Products
  BY <1>1, RequestForms
<1>3. /\ repair' = [repair EXCEPT !.parts = repair.parts \cup {x}, !.taken = repair.taken + 1]
      /\ stock' = [stock EXCEPT ![p] = @ - 1] /\ drawer' = drawer
      /\ overtaken' = (overtaken \/ ~Stands(r))
  BY DEF CommitAddPart, Finish
<1>4. ~overtaken' => ~overtaken /\ repair.status # "CANCELLED"
  BY <1>1, <1>3, FinishStands, StandsMeans DEF TakesParts, LateParts
<1>5. x.product = p /\ x \notin repair.parts
  BY JobFields DEF Base, JobOK, Parts
<1> HIDE DEF p, x
<1>6. /\ repair'.status = repair.status /\ repair'.pay = repair.pay /\ repair'.paid = repair.paid
      /\ repair'.parts = repair.parts \cup {x} /\ repair'.adds = repair.adds
      /\ repair'.rounds = repair.rounds /\ repair'.deposit = repair.deposit
  BY <1>3, JobFields DEF Job
<1>7. ASSUME CleanJob(repair, drawer, stock), repair.status # "CANCELLED"
      PROVE  CleanJob(repair', drawer', stock')
  <2>1. PaymentsFit(repair', drawer') /\ HeldBy(repair') = HeldBy(repair)
    BY <1>3, <1>6, <1>7 DEF CleanJob, PaymentsFit, HeldBy
  <2>2. ASSUME NEW q \in Products
        PROVE  stock'[q] + Back(q, repair'.parts) = InitialStock[q]
    <3>1. Back(q, repair.parts \cup {x}) = Back(q, repair.parts) + (IF p = q THEN 1 ELSE 0)
      BY <1>5, BackWith, JobFields
    <3>2. stock'[q] = stock[q] - (IF p = q THEN 1 ELSE 0)
      BY <1>2, <1>3 DEF Base
    <3>3. stock[q] \in Nat /\ Back(q, repair.parts) \in Nat
      BY BackNat, JobFields DEF Base
    <3>4. stock[q] + Back(q, repair.parts) = InitialStock[q]
      BY <1>7 DEF CleanJob, PartsFit
    <3>5. Back(q, repair'.parts) = Back(q, repair.parts) + (IF p = q THEN 1 ELSE 0)
      BY <1>6, <3>1
    <3> QED BY <3>2, <3>3, <3>4, <3>5
  <2>3. PartsFit(repair', stock')
    BY <1>6, <1>7, <2>2 DEF PartsFit
  <2> QED BY <1>3, <1>7, <2>1, <2>3 DEF CleanJob
<1> QED BY <1>4, <1>7, CleanStep

LEMMA CommitRemovePartClean ==
  ASSUME Base, Clean, NEW r \in Requests, CommitRemovePart(r) PROVE Clean'
<1> DEFINE x == req[r].part
<1>1. req[r] \in Request /\ req[r].op = "removePart"
  BY DEF Base, CommitRemovePart
<1>2. /\ repair' = [repair EXCEPT !.parts = repair.parts \ {x}]
      /\ stock' = PutBack({x}) /\ drawer' = drawer
      /\ overtaken' = (overtaken \/ ~Stands(r))
  BY DEF CommitRemovePart, Finish
<1>3. ~overtaken' => ~overtaken /\ x \in repair.parts
  BY <1>1, <1>2, FinishStands, StandsMeans
<1> HIDE DEF x
<1>4. /\ repair'.status = repair.status /\ repair'.pay = repair.pay /\ repair'.paid = repair.paid
      /\ repair'.parts = repair.parts \ {x} /\ repair'.adds = repair.adds
      /\ repair'.rounds = repair.rounds /\ repair'.deposit = repair.deposit
  BY <1>2, JobFields DEF Job
<1>5. ASSUME CleanJob(repair, drawer, stock), x \in repair.parts
      PROVE  CleanJob(repair', drawer', stock')
  <2>1. PaymentsFit(repair', drawer') /\ HeldBy(repair') = HeldBy(repair)
    BY <1>2, <1>4, <1>5 DEF CleanJob, PaymentsFit, HeldBy
  <2>2. ASSUME NEW q \in Products
        PROVE  stock'[q] + Back(q, repair'.parts) = InitialStock[q]
    <3>1. Back(q, repair.parts \ {x}) + Back(q, {x}) = Back(q, repair.parts)
      BY <1>5, BackWithout, JobFields
    <3>2. stock'[q] = stock[q] + Back(q, {x})
      BY <1>2 DEF PutBack
    <3>3. /\ stock[q] \in Nat /\ Back(q, repair.parts) \in Nat /\ Back(q, {x}) \in Nat
          /\ Back(q, repair.parts \ {x}) \in Nat
      BY BackNat, JobFields, FS_Singleton, FS_Subset DEF Base
    <3>4. stock[q] + Back(q, repair.parts) = InitialStock[q]
      BY <1>5 DEF CleanJob, PartsFit
    <3>5. Back(q, repair'.parts) = Back(q, repair.parts \ {x})
      BY <1>4
    <3> QED BY <3>1, <3>2, <3>3, <3>4, <3>5
  <2>3. PartsFit(repair', stock')
    BY <1>4, <1>5, <2>2 DEF PartsFit, CleanJob
  <2> QED BY <1>2, <1>5, <2>1, <2>3 DEF CleanJob
<1> QED BY <1>3, <1>5, CleanStep

\* An additional payment on a job whose payments fit: the drawer and the job hold that much more.
LEMMA TakeAmountClean ==
  ASSUME Base, CleanJob(repair, drawer, stock), NEW m, m.amount \in Nat,
         NEW pay \in {"PENDING", "PARTIAL", "PAID"}, TakeAmount(m, pay), stock' = stock,
         pay = "PENDING" <=> repair.pay = "PENDING"
  PROVE  CleanJob(repair', drawer', stock')
<1> DEFINE n == Cardinality(repair.adds) + 1
           x == [n |-> n, amount |-> m.amount, kept |-> TRUE]
           e == Entry("REPAIR_ADDITIONAL_PAYMENT", n, "IN", m.amount)
<1>1. /\ x \notin repair.adds /\ x.amount = m.amount /\ x.kept
      /\ repair'.adds = repair.adds \cup {x}
      /\ repair'.parts = repair.parts /\ repair'.rounds = repair.rounds
      /\ repair'.status = repair.status /\ repair'.deposit = repair.deposit
      /\ repair'.pay = pay /\ repair'.paid = repair.paid
  BY TakeAmountOK
<1>2. drawer' = Record(drawer, {e})
  BY DEF TakeAmount
<1>3. /\ n \in Nat /\ e \in LedgerEntries /\ e.src = "REPAIR_ADDITIONAL_PAYMENT" /\ e.n = n
      /\ e.dir = "IN" /\ e.amount = m.amount
  BY JobFields DEF Sources, Entry, LedgerEntries
<1>4. \A y \in drawer : Key(y) # Key(e)
  <2>1. \A y \in drawer : y.src = "REPAIR_ADDITIONAL_PAYMENT" =>
          y.n \in Nat /\ y.n <= Cardinality(repair.adds)
    BY DEF Base, LedgerOK, LedgerEntries
  <2>2. \A y \in drawer : y.src = "REPAIR_ADDITIONAL_PAYMENT" => y.n # n
    BY <2>1, JobFields
  <2> HIDE DEF n, e
  <2> QED BY <1>3, <2>2 DEF Key
<1> HIDE DEF x, e, n
<1>5. drawer \subseteq LedgerEntries /\ IsFiniteSet(drawer)
  BY DEF Base, LedgerOK
<1>6. Net(drawer') = Net(drawer) + m.amount /\ drawer' = drawer \cup {e}
  BY <1>2, <1>3, <1>4, <1>5, NetOne
<1>7. HeldBy(repair') = HeldBy(repair) + m.amount
  <2> DEFINE C == {a \in repair.adds : a.kept}
  <2>1. IsFiniteSet(C) /\ \A a \in C : a.amount \in Nat
    BY JobFields, FS_Subset DEF Payments
  <2>2. {a \in repair'.adds : a.kept} = C \cup {x} /\ x \notin C
    BY <1>1
  <2>3. Total(C) \in Nat
    BY CountedNat, JobFields
  <2> HIDE DEF C
  <2>4. Total(C \cup {x}) = Total(C) + m.amount
    BY <1>1, <2>1, <2>2, TotalWith
  <2>5. Total({a \in repair'.adds : a.kept}) = Total(C) + m.amount
    BY <2>2, <2>4
  <2>6. HeldBy(repair) = (IF repair.status = "CANCELLED" THEN 0 ELSE repair.deposit)
                           + repair.paid + Total(C)
    BY DEF HeldBy, C
  <2>7. HeldBy(repair') = (IF repair.status = "CANCELLED" THEN 0 ELSE repair.deposit)
                            + repair.paid + (Total(C) + m.amount)
    BY <1>1, <2>5 DEF HeldBy
  <2> QED BY <2>3, <2>6, <2>7, JobFields
<1>8. PaymentsFit(repair', drawer')
  <2>1. \A y \in drawer' :
          /\ y.src = "REPAIR_FINAL_PAYMENT" /\ y.n = repair.rounds => repair.status = "DELIVERED"
          /\ y.src \in RefundSources => repair.status = "CANCELLED"
    BY <1>3, <1>6 DEF CleanJob, PaymentsFit, RefundSources
  <2>2. repair.status # "CANCELLED" => \A a \in repair'.adds : a.kept
    BY <1>1 DEF CleanJob, PaymentsFit
  <2>3. repair.status = "CANCELLED" /\ repair.deposit > 0 =>
          \E y \in drawer' : Key(y) = Key(Entry("REPAIR_DEPOSIT_REFUND", 0, "OUT", 0))
    BY <1>6 DEF CleanJob, PaymentsFit
  <2>4. /\ repair.status = "DELIVERED" <=> repair.pay # "PENDING"
        /\ repair.pay = "PENDING" => repair.paid = 0
    BY DEF CleanJob, PaymentsFit
  <2> QED BY <1>1, <2>1, <2>2, <2>3, <2>4 DEF PaymentsFit
<1>9. PartsFit(repair', stock')
  BY <1>1 DEF CleanJob, PartsFit
<1> QED BY <1>6, <1>7, <1>8, <1>9 DEF CleanJob

LEMMA CommitAddClean == ASSUME Base, Clean, NEW r \in Requests, CommitAdd(r) PROVE Clean'
<1>1. req[r] \in Request /\ req[r].op = "add"
  BY DEF Base, CommitAdd
<1>2. req[r].amount \in Nat
  BY <1>1, RequestForms
<1>3. PICK pay \in {"PENDING", "PARTIAL", "PAID"} :
        TakeAmount(req[r], pay) /\ (pay = "PENDING" <=> repair.pay = "PENDING")
  <2> DEFINE full == Collected(repair) + req[r].amount >=
                       AtLeastZero(req[r].price - repair.deposit)
             pays == PaysDebt(req[r].price) /\ full
  <2>1. TakeAmount(req[r], IF pays THEN "PAID" ELSE repair.pay)
    BY DEF CommitAdd
  <2>2. pays => repair.pay = "PARTIAL"
    BY DEF PaysDebt
  <2> HIDE DEF pays
  <2> QED BY <2>1, <2>2, PayAfter
<1>4. stock' = stock /\ overtaken' = (overtaken \/ ~Stands(r))
  BY DEF CommitAdd, Finish
<1>5. CleanJob(repair, drawer, stock) => CleanJob(repair', drawer', stock')
  BY <1>2, <1>3, <1>4, TakeAmountClean
<1> QED BY <1>4, <1>5, FinishStands, CleanStep

LEMMA CommitDebtClean == ASSUME Base, Clean, NEW r \in Requests, CommitDebt(r) PROVE Clean'
<1>1. req[r] \in Request /\ req[r].op = "debt"
  BY DEF Base, CommitDebt
<1>2. req[r].amount \in Nat
  BY <1>1, RequestForms
<1>3. PICK pay \in {"PARTIAL", "PAID"} : TakeAmount(req[r], pay)
  BY DEF CommitDebt
<1>4. stock' = stock /\ overtaken' = (overtaken \/ ~Stands(r))
  BY DEF CommitDebt, Finish
<1>5. ~overtaken' => ~overtaken /\ repair.status = "DELIVERED"
  BY <1>1, <1>4, FinishStands, StandsMeans
<1>6. ASSUME CleanJob(repair, drawer, stock), repair.status = "DELIVERED"
      PROVE  CleanJob(repair', drawer', stock')
  <2>1. repair.pay # "PENDING"
    BY <1>6 DEF CleanJob, PaymentsFit
  <2> QED BY <1>2, <1>3, <1>4, <1>6, <2>1, TakeAmountClean
<1> QED BY <1>5, <1>6, CleanStep

LEMMA InitClean == ASSUME Init PROVE Clean
<1>1. /\ repair.status = "NONE" /\ repair.pay = "PENDING" /\ repair.paid = 0 /\ repair.adds = {}
      /\ repair.deposit = 0 /\ repair.parts = {} /\ drawer = {} /\ stock = InitialStock
  BY DEF Init, NoRepair
<1>2. PaymentsFit(repair, drawer)
  BY <1>1 DEF PaymentsFit
<1>3. PartsFit(repair, stock)
  BY <1>1, BackNone, ConstantsAssumption DEF PartsFit
<1>4. HeldBy(repair) = 0
  <2>1. {a \in repair.adds : a.kept} = {}
    BY <1>1
  <2> QED BY <1>1, <2>1, TotalIsSum, AmountsEmpty DEF HeldBy
<1> QED BY <1>1, <1>2, <1>3, <1>4, NetEmpty DEF Clean

LEMMA NextClean == ASSUME IInv, [Next]_vars PROVE Clean'
<1>1. Base /\ Clean
  BY DEF IInv
<1>2. CASE UNCHANGED vars
  BY <1>1, <1>2 DEF vars, Clean
<1>3. CASE Create \/ Edit \/ PartsDone
  BY <1>1, <1>3, CreateClean, EditClean, PartsDoneClean
<1>4. ASSUME NEW r \in Requests,
             \/ AskMove(r) \/ AskCancel(r) \/ AskQc(r) \/ AskAddPart(r) \/ AskRemovePart(r)
             \/ AskPay(r) \/ AskReverse(r) \/ AskRefund(r) \/ AskAdd(r) \/ AskDebt(r)
             \/ QuickAskPay(r) \/ Abort(r)
      PROVE  Clean'
  <2>1. (\E m : Ask(r, m)) \/ Abort(r)
    BY <1>4 DEF AskMove, AskCancel, AskQc, AskAddPart, AskRemovePart, AskPay, AskReverse,
                AskRefund, AskAdd, AskDebt, QuickAskPay
  <2> QED BY <1>1, <2>1, AskClean, AbortClean
<1>5. ASSUME NEW r \in Requests,
             \/ CommitMove(r) \/ CommitCancel(r) \/ CommitAddPart(r) \/ CommitRemovePart(r)
             \/ QuickCreate(r) \/ QuickFinish(r) \/ QuickGiveUp(r) \/ CommitPay(r)
             \/ CommitReverse(r) \/ CommitRefund(r) \/ CommitAdd(r) \/ CommitDebt(r)
      PROVE  Clean'
  BY <1>1, <1>5, CommitMoveClean, CommitCancelClean, CommitAddPartClean, CommitRemovePartClean,
     QuickCreateClean, QuickFinishClean, QuickGiveUpClean, CommitPayClean, CommitReverseClean,
     CommitRefundClean, CommitAddClean, CommitDebtClean
<1> QED BY <1>2, <1>3, <1>4, <1>5 DEF Next

\* What is true until a transaction is overtaken.
LEMMA Invariant == Spec => []IInv
<1>1. Init => IInv
  BY InitBase, InitClean DEF IInv
<1>2. IInv /\ [Next]_vars => IInv'
  <2>1. IInv /\ [Next]_vars => Base'
    BY NextBase DEF IInv
  <2>2. IInv /\ [Next]_vars => Clean'
    BY NextClean
  <2> QED BY <2>1, <2>2 DEF IInv
<1> QED BY <1>1, <1>2, PTL DEF Spec

-----------------------------------------------------------------------------
(* The invariants the run checks                                           *)

\* While nothing was overtaken, the drawer ledger holds what the rows of the job say the shop
\* holds.
THEOREM LedgerIsRight == Spec => []DrawerMatchesJob
<1>1. HeldBy(repair) = Held
  BY DEF HeldBy, Held
<1>2. IInv => DrawerMatchesJob
  BY <1>1 DEF IInv, Clean, DrawerMatchesJob
<1> QED BY <1>2, Invariant, PTL

\* While nothing was overtaken, a device has been handed over exactly when a payment stands.
THEOREM HandOver == Spec => []HandedOverWhenPaid
<1>1. IInv => HandedOverWhenPaid
  BY DEF IInv, Clean, PaymentsFit, HandedOverWhenPaid
<1> QED BY <1>1, Invariant, PTL

\* While nothing was overtaken, every unit is on the shelf or on the job, and a cancelled job
\* keeps none.
THEOREM NoPartLost == Spec => []PartsConserved
<1>1. IInv => PartsConserved
  BY DEF IInv, Clean, PartsFit, PartsConserved
<1> QED BY <1>1, Invariant, PTL

-----------------------------------------------------------------------------
(* What a step may not do                                                  *)

\* What a customer has given and owes, as numbers
LEMMA MoneyTypes ==
  ASSUME NEW j, JobOK(j)
  PROVE  /\ Total(j.adds) \in Nat /\ Collected(j) \in Nat /\ Owed(j) \in Int
         /\ j.price \in Nat /\ j.deposit \in Nat /\ j.paid \in Nat
         /\ Collected(j) = j.paid + Total(j.adds)
         /\ Owed(j) = j.price - j.deposit - Collected(j)
<1>1. j.adds \subseteq Payments /\ IsFiniteSet(j.adds)
      /\ j.price \in Nat /\ j.deposit \in Nat /\ j.paid \in Nat
  BY DEF JobOK, Job
<1>2. Total(j.adds) \in Nat
  BY <1>1, TotalNat DEF Payments
<1> QED BY <1>1, <1>2 DEF Collected, Owed

\* A payment stored reduces what is owed by its amount.
LEMMA TakeAmountOwed ==
  ASSUME Base, NEW m, m.amount \in Nat, NEW pay \in {"PENDING", "PARTIAL", "PAID"},
         TakeAmount(m, pay)
  PROVE  Owed(repair') = Owed(repair) - m.amount
<1> DEFINE x == [n |-> Cardinality(repair.adds) + 1, amount |-> m.amount, kept |-> TRUE]
<1>1. /\ x \notin repair.adds /\ x.amount = m.amount
      /\ repair'.adds = repair.adds \cup {x} /\ repair'.deposit = repair.deposit
      /\ repair'.paid = repair.paid /\ repair'.price = repair.price /\ JobOK(repair')
  BY TakeAmountOK
<1> HIDE DEF x
<1>2. Total(repair.adds \cup {x}) = Total(repair.adds) + m.amount
  BY <1>1, JobFields, TotalWith DEF Payments
<1>3. Total(repair'.adds) = Total(repair.adds) + m.amount
  BY <1>1, <1>2
<1>4. /\ Total(repair.adds) \in Nat /\ repair.price \in Nat /\ repair.deposit \in Nat
      /\ repair.paid \in Nat
      /\ Owed(repair) = repair.price - repair.deposit - (repair.paid + Total(repair.adds))
  BY MoneyTypes DEF Base, Owed, Collected
<1>5. Owed(repair') = repair'.price - repair'.deposit - (repair'.paid + Total(repair'.adds))
  BY DEF Owed, Collected
<1> QED BY <1>1, <1>3, <1>4, <1>5

LEMMA DebtStep ==
  ASSUME Base, NEW r \in Requests, req[r].op = "debt", CommitDebt(r)
  PROVE  Owed(repair') >= 0
<1>1. req[r] \in Request
  BY DEF Base
<1>2. req[r].amount \in Nat
  BY <1>1, RequestForms
<1>3. PICK pay \in {"PENDING", "PARTIAL", "PAID"} : TakeAmount(req[r], pay)
  BY PayAfter DEF CommitDebt
<1>4. Owed(repair') = Owed(repair) - req[r].amount
  BY <1>2, <1>3, TakeAmountOwed
<1>5. req[r].amount <= Owed(repair)
  BY DEF CommitDebt, WithinDebt
<1>6. Owed(repair) \in Int
  BY MoneyTypes DEF Base
<1> QED BY <1>2, <1>4, <1>5, <1>6

\* However the requests race, a debt payment never takes more than is owed when it is stored.
THEOREM DebtWithinBalance == Spec => DebtNeverOverpaid
<1>1. Base => ((\E r \in Requests : req[r].op = "debt" /\ CommitDebt(r)) => Owed(repair') >= 0)
  BY DebtStep
<1>2. Base /\ [Next]_vars =>
        [(\E r \in Requests : req[r].op = "debt" /\ CommitDebt(r)) => Owed(repair') >= 0]_vars
  BY <1>1
<1> QED BY <1>2, BaseInvariant, PTL DEF Spec, DebtNeverOverpaid

\* The payment at pickup, when it is in full, leaves nothing open.
LEMMA PayCovers ==
  ASSUME Base, NEW r \in Requests, CommitPay(r), repair'.pay = "PAID"
  PROVE  Owed(repair') <= 0
<1> DEFINE m == req[r]
           pay == IF m.partial THEN "PARTIAL" ELSE "PAID"
<1>1. m \in Request /\ m.op \in {"pay", "quickPay"}
  BY DEF Base, CommitPay
<1>2. m.received \in Nat /\ m.total \in Nat
  BY <1>1, RequestForms
<1>3. m.partial \/ m.total - repair.deposit <= m.received
  BY <1>1 DEF Base, AskedOK
<1>4. repair' = [repair EXCEPT !.status = "DELIVERED", !.paid = m.received, !.price = m.total,
                               !.cut = m.cut, !.pay = pay]
  BY DEF CommitPay, TakePayment
<1>5. pay = "PAID" => ~m.partial
  OBVIOUS
<1> HIDE DEF m, pay
<1>6. /\ repair'.pay = pay /\ repair'.paid = m.received /\ repair'.price = m.total
      /\ repair'.deposit = repair.deposit /\ repair'.adds = repair.adds
  BY <1>4, JobFields DEF Job
<1>7. m.total - repair.deposit <= m.received
  BY <1>3, <1>5, <1>6
<1>8. Total(repair.adds) \in Nat
  BY MoneyTypes DEF Base
<1>9. Owed(repair') = repair'.price - repair'.deposit - (repair'.paid + Total(repair'.adds))
  BY DEF Owed, Collected
<1> QED BY <1>2, <1>6, <1>7, <1>8, <1>9, JobFields

LEMMA AddCovers ==
  ASSUME Base, NEW r \in Requests, CommitAdd(r), repair'.pay = "PAID", repair.pay # "PAID",
         ~overtaken'
  PROVE  Owed(repair') <= 0
<1> DEFINE m == req[r]
           full == Collected(repair) + m.amount >= AtLeastZero(m.price - repair.deposit)
           pays == PaysDebt(m.price) /\ full
           pay == IF pays THEN "PAID" ELSE repair.pay
<1>1. m \in Request /\ m.op = "add"
  BY DEF Base, CommitAdd
<1>2. m.amount \in Nat
  BY <1>1, RequestForms
<1>3. TakeAmount(m, pay) /\ pay \in {"PENDING", "PARTIAL", "PAID"}
  BY PayAfter DEF CommitAdd
<1>4. repair.price = m.price
  BY <1>1, FinishStands, StandsMeans DEF CommitAdd, Finish
<1>5. repair'.pay = pay
  <2> HIDE DEF pay
  <2> QED BY <1>2, <1>3, TakeAmountOK
<1>6. full
  BY <1>5
<1>7. /\ Collected(repair) \in Nat /\ repair.price \in Nat /\ repair.deposit \in Nat
      /\ Owed(repair) = repair.price - repair.deposit - Collected(repair)
  BY MoneyTypes DEF Base
<1>8. Owed(repair) - m.amount <= 0
  BY <1>2, <1>4, <1>6, <1>7 DEF AtLeastZero
<1>9. Owed(repair') = Owed(repair) - m.amount
  <2> HIDE DEF pay
  <2> QED BY <1>2, <1>3, TakeAmountOwed
<1> QED BY <1>8, <1>9

LEMMA DebtCovers ==
  ASSUME Base, NEW r \in Requests, CommitDebt(r), repair'.pay = "PAID"
  PROVE  Owed(repair') <= 0
<1> DEFINE m == req[r]
           settled == Settled(m.amount)
           pay == IF settled THEN "PAID" ELSE "PARTIAL"
<1>1. m \in Request /\ m.op = "debt"
  BY DEF Base, CommitDebt
<1>2. m.amount \in Nat
  BY <1>1, RequestForms
<1>3. TakeAmount(m, pay) /\ pay \in {"PENDING", "PARTIAL", "PAID"}
  BY DEF CommitDebt
<1>4. repair'.pay = pay
  <2> HIDE DEF pay
  <2> QED BY <1>2, <1>3, TakeAmountOK
<1>5. settled
  BY <1>4
<1>6. Owed(repair') = Owed(repair) - m.amount
  <2> HIDE DEF pay
  <2> QED BY <1>2, <1>3, TakeAmountOwed
<1> QED BY <1>5, <1>6 DEF Settled

\* No other operation makes a job paid.
LEMMA OthersNotPaid ==
  ASSUME Base, NEW r \in Requests, 
         \/ CommitMove(r) \/ CommitCancel(r) \/ CommitAddPart(r) \/ CommitRemovePart(r)
         \/ QuickCreate(r) \/ QuickFinish(r) \/ QuickGiveUp(r) \/ CommitReverse(r) \/ CommitRefund(r)
  PROVE  repair'.pay = repair.pay \/ repair'.pay = "PENDING"
<1>1. CASE CommitMove(r) \/ CommitCancel(r) \/ CommitAddPart(r) \/ CommitRemovePart(r)
  BY <1>1, JobFields DEF CommitMove, CommitCancel, CommitAddPart, CommitRemovePart, Job
<1>2. CASE QuickCreate(r) \/ QuickFinish(r) \/ QuickGiveUp(r)
  BY <1>2, JobFields DEF QuickCreate, QuickFinish, QuickGiveUp, Job
<1>3. CASE CommitReverse(r)
  BY <1>3, JobFields DEF CommitReverse, Job
<1>4. CASE CommitRefund(r)
  BY <1>4, JobFields DEF CommitRefund, Job
<1> QED BY <1>1, <1>2, <1>3, <1>4

LEMMA PaidStep ==
  ASSUME Base, [Next]_vars, ~overtaken', repair'.pay = "PAID", repair.pay # "PAID"
  PROVE  Owed(repair') <= 0
<1>1. CASE UNCHANGED vars
  BY <1>1 DEF vars
<1>2. CASE Create \/ Edit \/ PartsDone
  BY <1>2, JobFields DEF Create, Edit, PartsDone, Job
<1>3. ASSUME NEW r \in Requests,
             \/ AskMove(r) \/ AskCancel(r) \/ AskQc(r) \/ AskAddPart(r) \/ AskRemovePart(r)
             \/ AskPay(r) \/ AskReverse(r) \/ AskRefund(r) \/ AskAdd(r) \/ AskDebt(r)
             \/ QuickAskPay(r) \/ Abort(r)
      PROVE  FALSE
  <2>1. (\E m : Ask(r, m)) \/ Abort(r)
    BY <1>3 DEF AskMove, AskCancel, AskQc, AskAddPart, AskRemovePart, AskPay, AskReverse,
                AskRefund, AskAdd, AskDebt, QuickAskPay
  <2>2. repair' = repair
    BY <2>1 DEF Ask, Abort
  <2> QED BY <2>2
<1>4. ASSUME NEW r \in Requests,
             \/ CommitMove(r) \/ CommitCancel(r) \/ CommitAddPart(r) \/ CommitRemovePart(r)
             \/ QuickCreate(r) \/ QuickFinish(r) \/ QuickGiveUp(r)
             \/ CommitReverse(r) \/ CommitRefund(r)
      PROVE  FALSE
  BY <1>4, OthersNotPaid
<1>5. ASSUME NEW r \in Requests, CommitPay(r) \/ CommitAdd(r) \/ CommitDebt(r)
      PROVE  Owed(repair') <= 0
  BY <1>5, PayCovers, AddCovers, DebtCovers
<1> QED BY <1>1, <1>2, <1>3, <1>4, <1>5 DEF Next

\* A job becomes paid only when deposit and payments cover its price.
THEOREM PaidIsCovered == Spec => PaidWhenCovered
<1>1. Base /\ [Next]_vars =>
        [~overtaken' /\ repair'.pay = "PAID" /\ repair.pay # "PAID" => Owed(repair') <= 0]_vars
  BY PaidStep
<1> QED BY <1>1, BaseInvariant, PTL DEF Spec, PaidWhenCovered

\* A cancelled job can only be cancelled again.
LEMMA CancelledStep ==
  ASSUME Base, [Next]_vars, ~overtaken', repair.status = "CANCELLED"
  PROVE  repair'.status = "CANCELLED"
<1>1. CASE UNCHANGED vars
  BY <1>1 DEF vars
<1>2. CASE Create \/ Edit \/ PartsDone
  BY <1>2, JobFields DEF Create, Edit, PartsDone, Job
<1>3. ASSUME NEW r \in Requests,
             \/ AskMove(r) \/ AskCancel(r) \/ AskQc(r) \/ AskAddPart(r) \/ AskRemovePart(r)
             \/ AskPay(r) \/ AskReverse(r) \/ AskRefund(r) \/ AskAdd(r) \/ AskDebt(r)
             \/ QuickAskPay(r) \/ Abort(r)
      PROVE  repair'.status = "CANCELLED"
  <2>1. (\E m : Ask(r, m)) \/ Abort(r)
    BY <1>3 DEF AskMove, AskCancel, AskQc, AskAddPart, AskRemovePart, AskPay, AskReverse,
                AskRefund, AskAdd, AskDebt, QuickAskPay
  <2>2. repair' = repair
    BY <2>1 DEF Ask, Abort
  <2> QED BY <2>2
<1>4. ASSUME NEW r \in Requests, CommitMove(r) PROVE FALSE
  <2>1. req[r] \in Request /\ req[r].op \in {"move", "qc"}
    BY <1>4 DEF Base, CommitMove
  <2>2. req[r].op = "move" => req[r].from \in DOMAIN Allowed
    BY <2>1, RequestForms
  <2>3. Stands(r)
    BY <1>4, FinishStands DEF CommitMove, Finish
  <2>4. repair.status \in DOMAIN Allowed
    BY <2>1, <2>2, <2>3, StandsMeans, AllowedStatuses
  <2> QED BY <2>4, AllowedStatuses
<1>5. ASSUME NEW r \in Requests, QuickFinish(r) PROVE FALSE
  BY <1>5, FinishStands, StandsMeans DEF QuickFinish
<1>6. ASSUME NEW r \in Requests, QuickCreate(r) \/ CommitPay(r) \/ CommitReverse(r)
      PROVE  FALSE
  BY <1>6 DEF QuickCreate, CommitPay, TakePayment, StillPayable, Payable, CommitReverse, StillPaid
<1>7. ASSUME NEW r \in Requests, CommitCancel(r) \/ QuickGiveUp(r) \/ CommitRefund(r)
      PROVE  repair'.status = "CANCELLED"
  BY <1>7, JobFields DEF CommitCancel, QuickGiveUp, CommitRefund, Job
<1>8. ASSUME NEW r \in Requests, CommitAddPart(r) \/ CommitRemovePart(r)
      PROVE  repair'.status = "CANCELLED"
  BY <1>8, JobFields DEF CommitAddPart, CommitRemovePart, Job
<1>9. ASSUME NEW r \in Requests, CommitAdd(r) \/ CommitDebt(r)
      PROVE  repair'.status = "CANCELLED"
  BY <1>9, JobFields DEF CommitAdd, CommitDebt, TakeAmount, Job
<1> QED BY <1>1, <1>2, <1>3, <1>4, <1>5, <1>6, <1>7, <1>8, <1>9 DEF Next

\* A cancelled job stays cancelled while nothing is overtaken.
THEOREM CancelledForGood == Spec => CancelledStaysCancelled
<1>1. Base /\ [Next]_vars =>
        [~overtaken' /\ repair.status = "CANCELLED" => repair'.status = "CANCELLED"]_vars
  BY CancelledStep
<1> QED BY <1>1, BaseInvariant, PTL DEF Spec, CancelledStaysCancelled
=============================================================================
