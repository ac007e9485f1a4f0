------------------------------ MODULE SaleBooks ------------------------------
(***************************************************************************)
(* How the bills of the till get into the accounting books, and how the    *)
(* books catch up after a failure: SalesAccountingAdapter                  *)
(* (src/backend/src/sales/sales-accounting.adapter.ts), JournalService     *)
(* (src/backend/src/journal/journal.service.ts) and the scan of            *)
(* AccountingReconciliationService                                         *)
(* (src/backend/src/accounting-reconciliation/).                           *)
(*                                                                         *)
(* A handler of SalesService commits its transaction and only then posts   *)
(* journals, one document at a time: a payment leg, the cost of the goods, *)
(* a refund, the cost of what came back.  Posting never throws.  When it   *)
(* fails half-way, or the server dies, the rest is left to a scan that     *)
(* runs every 15 minutes, reads bills and journals, and posts or reverses  *)
(* what is missing - from what it has read, while the till goes on.        *)
(*                                                                         *)
(* SaleBill models the transactions themselves; here a bill is the         *)
(* documents it has.  The scan looks only at bills of the last 24 hours: a *)
(* bill grows old, and from then on nothing but a retry by hand makes good *)
(* what was lost of it.                                                    *)
(***************************************************************************)
EXTENDS Naturals, FiniteSets

CONSTANTS
  Bills,       \* bill ids
  Requests,    \* till requests that can be under way
  Scans,       \* scans and retries of a bill that can be under way
  MaxLegs,     \* bound: payment legs a bill has ever had
  MaxRefunds,  \* bound: refunds of a bill
  MaxFaults    \* bound: failed postings and crashes

ASSUME ConstantsAssumption ==
  /\ Requests \cap Scans = {}
  /\ MaxLegs \in Nat \ {0}
  /\ MaxRefunds \in Nat
  /\ MaxFaults \in Nat

VARIABLES
  bill,      \* Sale with its SalePayment and SaleRefund rows
  books,     \* JournalEntry: the documents that have been posted
  reversed,  \* JournalEntry of type JOURNAL_REVERSAL: the documents taken out again
  work,      \* what each request and each scan still has to do
  faults,    \* failures so far
  aged,      \* bills created more than 24 hours ago
  tangled    \* legs replaced while another request or scan was about to post them

vars == <<bill, books, reversed, work, faults, aged, tangled>>

Workers == Requests \cup Scans
Idle == {}

NoBill == [status |-> "NONE", legs |-> {}, last |-> 0, refunds |-> 0, free |-> {}]

\* The documents of a bill that are journals of their own: (sourceType, sourceId)
Doc(kind, b, n) == [kind |-> kind, bill |-> b, n |-> n]
Payments(b, legs) == {Doc("SALE_PAYMENT", b, n) : n \in legs}
Cost(b) == {Doc("SALE_COGS", b, 0)}

\* Mutant: a refund is filed under the source type it has in the drawer ledger
RefundDocsAsInDrawer(b, n) == {Doc("REFUND", b, n), Doc("SALE_REFUND_COGS", b, n)}

RefundDocs(b, n) == {Doc("SALE_REFUND", b, n), Doc("SALE_REFUND_COGS", b, n)}

SaleDocs(b) == Payments(b, bill[b].legs) \cup Cost(b)
AllDocs(b) ==
  SaleDocs(b) \cup UNION {RefundDocs(b, n) : n \in (1..bill[b].refunds) \ bill[b].free}

Live(b) == bill[b].status \notin {"NONE", "VOIDED"}

\* What is left to do of a call to the adapter: documents to post or to reverse
Task(act, call, doc) == [act |-> act, call |-> call, doc |-> doc]
Tasks(act, call, docs) == {Task(act, call, d) : d \in docs}

\* A void that has not committed yet: what voidSale has read of the bill
VoidRead(b, legs) == {[act |-> "void", call |-> "void", bill |-> b, legs |-> legs]}
Voiding(w) == \E t \in work[w] : t.act = "void"

Init ==
  /\ bill = [b \in Bills |-> NoBill]
  /\ books = {}
  /\ reversed = {}
  /\ work = [w \in Workers |-> Idle]
  /\ faults = 0
  /\ aged = {}
  /\ tangled = {}

-----------------------------------------------------------------------------
(* The till: a transaction commits, its journals are still to be posted    *)

Free(w) == work[w] = Idle
Start(w, tasks) == work' = [work EXCEPT ![w] = tasks]

Sell(r) ==
  /\ Free(r)
  /\ \E b \in Bills, legs \in {1..n : n \in 1..2} :
       /\ bill[b].status = "NONE"
       /\ legs \subseteq 1..MaxLegs
       /\ bill' = [bill EXCEPT ![b] = [status |-> "COMPLETED", legs |-> legs,
                                       last |-> Cardinality(legs), refunds |-> 0,
                                       free |-> {}]]
       /\ Start(r, Tasks("post", "sale", Payments(b, legs) \cup Cost(b)))
  /\ UNCHANGED <<books, reversed, faults, aged, tangled>>

\* A refund of no money (units taken back for nothing) has no journals
Refund(r) ==
  /\ Free(r)
  /\ \E b \in Bills, status \in {"PARTIAL_REFUND", "REFUNDED"}, free \in BOOLEAN :
       LET n == bill[b].refunds + 1 IN
       /\ bill[b].status \in {"COMPLETED", "PARTIAL_REFUND"}
       /\ n <= MaxRefunds
       /\ bill' = [bill EXCEPT ![b].status = status, ![b].refunds = n,
                               ![b].free = IF free THEN @ \cup {n} ELSE @]
       /\ Start(r, IF free THEN Idle ELSE Tasks("post", "refund", RefundDocs(b, n)))
  /\ UNCHANGED <<books, reversed, faults, aged, tangled>>

\* Legs that somebody else is about to post
BeingPosted(docs) == {d \in docs : \E w \in Workers : \E t \in work[w] : t.act = "post" /\ t.doc = d}

\* Mutant: the new leg is booked and the old one left
RebookNewOnly(b, old, new) == Tasks("post", "rebook", Payments(b, new))

\* rebookPayments: the old leg is reversed, if it has been posted, and the new one posted
Rebook(b, old, new) ==
  Tasks("undo", "rebook", Payments(b, old)) \cup Tasks("post", "rebook", Payments(b, new))

\* changePaymentMethod, of a bill paid one way
ChangeMethod(r) ==
  /\ Free(r)
  /\ \E b \in Bills :
       LET new == {bill[b].last + 1} IN
       /\ bill[b].status = "COMPLETED"
       /\ Cardinality(bill[b].legs) = 1
       /\ bill[b].last < MaxLegs
       /\ bill' = [bill EXCEPT ![b].legs = new, ![b].last = @ + 1]
       /\ Start(r, Rebook(b, bill[b].legs, new))
       /\ tangled' = tangled \cup BeingPosted(Payments(b, bill[b].legs))
  /\ UNCHANGED <<books, reversed, faults, aged>>

\* voidSale reads the bill before its transaction, and has the journals of the legs it read reversed
AskVoid(r) ==
  /\ Free(r)
  /\ \E b \in Bills : Live(b) /\ Start(r, VoidRead(b, bill[b].legs))
  /\ UNCHANGED <<bill, books, reversed, faults, aged, tangled>>

CommitVoid(r) ==
  /\ \E t \in work[r] :
       /\ t.act = "void"
       /\ bill' = [bill EXCEPT ![t.bill].status = "VOIDED"]
       /\ Start(r, Tasks("undo", "void", Payments(t.bill, t.legs) \cup Cost(t.bill)))
  /\ UNCHANGED <<books, reversed, faults, aged, tangled>>

-----------------------------------------------------------------------------
(* The journals, one at a time                                             *)

\* The order of the adapter: reversals before the new legs, payments before cost, the sale
\* before its refunds
Rank(t) ==
  CASE t.act = "undo" /\ t.call = "rebook" -> 0
    [] t.doc.kind = "SALE_PAYMENT" -> 1
    [] t.doc.kind = "SALE_COGS" -> 2
    [] t.doc.kind = "SALE_REFUND" -> 3
    [] OTHER -> 4

First(tasks) == {t \in tasks : \A u \in tasks : Rank(t) <= Rank(u)}

\* reverse: only what is found in the books; a second reversal finds the first (JOURNAL_REVERSAL:id)
Undone(docs, d) == IF d \in books THEN docs \cup {d} ELSE docs

\* create: one journal per (sourceType, sourceId), found before it is created or by the unique index
Post(w) ==
  /\ ~Voiding(w)
  /\ \E t \in First(work[w]) :
       /\ books' = IF t.act = "post" THEN books \cup {t.doc} ELSE books
       /\ reversed' = IF t.act = "undo" THEN Undone(reversed, t.doc) ELSE reversed
       /\ Start(w, work[w] \ {t})
  /\ UNCHANGED <<bill, faults, aged, tangled>>

\* A posting fails: the adapter logs it and gives the rest of the call up; the caller goes on
Fail(w) ==
  /\ ~Voiding(w)
  /\ faults < MaxFaults
  /\ \E t \in First(work[w]) :
       Start(w, {u \in work[w] : u.call # t.call \/ u.doc.bill # t.doc.bill})
  /\ faults' = faults + 1
  /\ UNCHANGED <<bill, books, reversed, aged, tangled>>

\* The server dies: whatever was under way is gone, what had committed stays
Crash ==
  /\ faults < MaxFaults
  /\ \E w \in Workers : ~Free(w)
  /\ work' = [w \in Workers |-> Idle]
  /\ faults' = faults + 1
  /\ UNCHANGED <<bill, books, reversed, aged, tangled>>

-----------------------------------------------------------------------------
(* The scan                                                                *)

\* Mutant: a bill whose payments are booked counts as booked
PostedByPayments(b) ==
  IF Live(b) THEN Payments(b, bill[b].legs) \subseteq books ELSE SaleDocs(b) \cap books \subseteq reversed

\* Mutant: a voided bill needs no look at its journals
PostedWhenVoided(b) == IF Live(b) THEN AllDocs(b) \subseteq books ELSE TRUE

\* classifySale: a bill needs nothing when all its documents are posted, a voided bill when those
\* of the sale that are posted are reversed.  A journal is looked for of every refund, so a bill
\* with a refund of no money is found behind by every scan.
Posted(b) ==
  IF Live(b) THEN AllDocs(b) \subseteq books /\ bill[b].free = {}
  ELSE SaleDocs(b) \cap books \subseteq reversed

\* Mutant: the scan undoes what has been refunded
RecoverRefundedUndone(b) ==
  IF bill[b].status \in {"VOIDED", "REFUNDED"} THEN Tasks("undo", "sale", SaleDocs(b))
  ELSE Tasks("post", "sale", SaleDocs(b))
         \cup Tasks("post", "refund", AllDocs(b) \ SaleDocs(b))

\* recoverSale: reverse the sale of a voided bill, or post the sale and its refunds
Recover(b) ==
  IF Live(b)
  THEN Tasks("post", "sale", SaleDocs(b)) \cup Tasks("post", "refund", AllDocs(b) \ SaleDocs(b))
  ELSE Tasks("undo", "sale", SaleDocs(b))

Behind(bs) == {b \in bs : bill[b].status # "NONE" /\ ~Posted(b)}

\* The bills a scan looks at: created in the last 24 hours
InReach == Bills \ aged

\* scanTenants reads the bills and their journals and sets to work
StartScan(s) ==
  /\ Free(s)
  /\ Behind(InReach) # {}
  /\ Start(s, UNION {Recover(b) : b \in Behind(InReach)})
  /\ UNCHANGED <<bill, books, reversed, faults, aged, tangled>>

\* retrySale: somebody has one bill looked at, however old it is
RetryBill(s) ==
  /\ Free(s)
  /\ \E b \in Behind(Bills) : Start(s, Recover(b))
  /\ UNCHANGED <<bill, books, reversed, faults, aged, tangled>>

\* 24 hours have passed since the sale
GrowOld ==
  /\ \E b \in Bills \ aged : bill[b].status # "NONE" /\ aged' = aged \cup {b}
  /\ UNCHANGED <<bill, books, reversed, work, faults, tangled>>

\* A void whose transaction fails
AbortVoid(r) ==
  /\ Voiding(r)
  /\ Start(r, Idle)
  /\ UNCHANGED <<bill, books, reversed, faults, aged, tangled>>

Next ==
  \/ \E r \in Requests :
       Sell(r) \/ Refund(r) \/ ChangeMethod(r) \/ AskVoid(r) \/ CommitVoid(r) \/ AbortVoid(r)
  \/ \E w \in Workers : Post(w) \/ Fail(w)
  \/ \E s \in Scans : StartScan(s) \/ RetryBill(s)
  \/ GrowOld
  \/ Crash

\* The server goes on with what it has begun, and cron starts a scan every 15 minutes, which looks
\* at a bill while it is young.  Nobody has to sell, refund, void or retry anything.
Fairness ==
  /\ \A w \in Workers : WF_vars(Post(w))
  /\ \A s \in Scans : WF_vars(StartScan(s))

Spec == Init /\ [][Next]_vars
FairSpec == Spec /\ Fairness

-----------------------------------------------------------------------------
(* Properties                                                              *)

Kinds == {"SALE_PAYMENT", "SALE_COGS", "SALE_REFUND", "SALE_REFUND_COGS"}
Docs == [kind : Kinds, bill : Bills, n : Nat]
Todo == [act : {"post", "undo"}, call : {"sale", "refund", "rebook", "void"}, doc : Docs]

\* The rows are well formed.
TypeOK ==
  /\ bill \in [Bills -> [status : {"NONE", "COMPLETED", "PARTIAL_REFUND", "REFUNDED", "VOIDED"},
                         legs : SUBSET (1..MaxLegs), last : 0..MaxLegs, refunds : 0..MaxRefunds,
                         free : SUBSET (1..MaxRefunds)]]
  /\ books \subseteq Docs
  /\ reversed \subseteq Docs
  /\ DOMAIN work = Workers
  /\ \A w \in Workers :
       \/ work[w] \subseteq Todo
       \/ \E b \in Bills, legs \in SUBSET (1..MaxLegs) : work[w] = VoidRead(b, legs)
  /\ faults \in 0..MaxFaults
  /\ aged \subseteq Bills
  /\ tangled \subseteq Docs

\* Nothing is taken out of the books but what was in them and is no longer due: the sale of a
\* voided bill, a leg replaced by another.  In particular no refund and no live bill loses its
\* journals, whatever stale reading a scan or a void works from.
OnlyUndueIsReversed ==
  \A d \in reversed :
    /\ d \in books
    /\ \/ bill[d.bill].status = "VOIDED" /\ d.kind \in {"SALE_PAYMENT", "SALE_COGS"}
       \/ d.kind = "SALE_PAYMENT" /\ d.n \notin bill[d.bill].legs

\* A leg replaced by another way of paying stays in the books only while its reversal is still to
\* come - if nothing failed and nobody was about to post it when it was replaced.  (Otherwise it
\* may stay for good: no scan looks at a leg that is not the bill's any more.)
ReplacedLegLeavesBooks ==
  faults = 0 =>
    \A d \in (books \ reversed) \ tangled :
      d.kind = "SALE_PAYMENT" /\ d.n \notin bill[d.bill].legs =>
        \E w \in Workers : Task("undo", "rebook", d) \in work[w]

\* In the end every document of a bill that is not voided is in the books, and stays there: the
\* handler posts it, and what a failure or a crash has cost is made good by a scan while the bill is
\* young.  Of an old bill (a refund of yesterday's sale) it holds only if nothing has failed.
BooksCatchUp ==
  <>[](\A b \in Bills : Live(b) /\ (b \in aged => faults = 0) => AllDocs(b) \subseteq books \ reversed)

\* In the end a voided bill that has not grown old has neither its cost nor the payments it ended
\* with in the books, also when the void raced their posting, a method change or a scan, or its
\* reversals failed.  (A payment replaced before is the matter of ReplacedLegLeavesBooks.)
VoidsCatchUp ==
  <>[](\A b \in InReach : bill[b].status = "VOIDED" => SaleDocs(b) \cap books \subseteq reversed)
=============================================================================
