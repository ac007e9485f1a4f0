--------------------------- MODULE SaleBooksProofs ---------------------------
(***************************************************************************)
(* Proofs about SaleBooks, for any number of bills, requests, scans, legs, *)
(* refunds and failures: the rows stay well formed, nothing that is still  *)
(* due is taken out of the books, and a replaced leg leaves them.          *)
(***************************************************************************)
EXTENDS SaleBooks, TLAPS, FiniteSetTheorems

Statuses == {"NONE", "COMPLETED", "PARTIAL_REFUND", "REFUNDED", "VOIDED"}
BillRow == [status : Statuses, legs : SUBSET (1..MaxLegs), last : 0..MaxLegs, refunds : 0..MaxRefunds,
            free : SUBSET (1..MaxRefunds)]

Calls == {"sale", "refund", "rebook", "void"}
WorkType(tasks) ==
  tasks \subseteq Todo \/ \E b \in Bills, legs \in SUBSET (1..MaxLegs) : tasks = VoidRead(b, legs)

\* A document of a bill that exists, no leg newer than the bill's last
Known(d) ==
  /\ bill[d.bill].status # "NONE"
  /\ d.kind = "SALE_PAYMENT" => d.n <= bill[d.bill].last

\* A document that may be taken out of the books
Undue(d) ==
  \/ bill[d.bill].status = "VOIDED" /\ d.kind \in {"SALE_PAYMENT", "SALE_COGS"}
  \/ d.kind = "SALE_PAYMENT" /\ d.n \notin bill[d.bill].legs

Replaced(d) == d.kind = "SALE_PAYMENT" /\ d.n \notin bill[d.bill].legs

\* What a task rests on, whatever happens after it was planned
TaskFits(t) ==
  /\ t.act = "undo" => Known(t.doc) /\ Undue(t.doc)
  /\ t.act = "post" => (Replaced(t.doc) => t.doc \in tangled) /\ Known(t.doc)
  /\ t.act = "void" => bill[t.bill].status # "NONE" /\ \A n \in t.legs : n <= bill[t.bill].last

LegsFit == \A b \in Bills : \A n \in bill[b].legs : n <= bill[b].last

Books ==
  /\ TypeOK
  /\ LegsFit
  /\ \A w \in Workers : \A t \in work[w] : TaskFits(t)
  /\ \A d \in books : Known(d)
  /\ \A d \in reversed : d \in books /\ Undue(d)

-----------------------------------------------------------------------------
(* Documents, tasks and rows                                               *)

\* A document has the fields it is made of.
LEMMA DocFields ==
  ASSUME NEW kind, NEW b, NEW n
  PROVE  /\ Doc(kind, b, n).kind = kind /\ Doc(kind, b, n).bill = b /\ Doc(kind, b, n).n = n
         /\ kind \in Kinds /\ b \in Bills /\ n \in Nat => Doc(kind, b, n) \in Docs
BY DEF Doc, Docs

\* The payments and the cost of a bill are documents of that bill.
LEMMA SaleDocsOf ==
  ASSUME NEW b \in Bills, NEW legs \in SUBSET Nat
  PROVE  /\ Payments(b, legs) \subseteq Docs /\ Cost(b) \subseteq Docs
         /\ \A d \in Payments(b, legs) : d.kind = "SALE_PAYMENT" /\ d.bill = b /\ d.n \in legs
         /\ \A d \in Cost(b) : d.kind = "SALE_COGS" /\ d.bill = b
<1>1. ASSUME NEW d \in Payments(b, legs)
      PROVE  d \in Docs /\ d.kind = "SALE_PAYMENT" /\ d.bill = b /\ d.n \in legs
  <2>1. PICK n \in legs : d = Doc("SALE_PAYMENT", b, n)
    BY DEF Payments
  <2> QED BY <2>1, DocFields DEF Kinds
<1>2. ASSUME NEW d \in Cost(b)
      PROVE  d \in Docs /\ d.kind = "SALE_COGS" /\ d.bill = b
  <2>1. d = Doc("SALE_COGS", b, 0)
    BY DEF Cost
  <2> QED BY <2>1, DocFields DEF Kinds
<1> QED BY <1>1, <1>2

\* The documents of a refund are documents of that bill, and none is a payment.
LEMMA RefundDocsOf ==
  ASSUME NEW b \in Bills, NEW n \in Nat
  PROVE  /\ RefundDocs(b, n) \subseteq Docs
         /\ \A d \in RefundDocs(b, n) : d.bill = b /\ d.kind \notin {"SALE_PAYMENT", "SALE_COGS"}
<1>1. ASSUME NEW d \in RefundDocs(b, n)
      PROVE  d \in Docs /\ d.bill = b /\ d.kind \notin {"SALE_PAYMENT", "SALE_COGS"}
  <2>1. d = Doc("SALE_REFUND", b, n) \/ d = Doc("SALE_REFUND_COGS", b, n)
    BY DEF RefundDocs
  <2> QED BY <2>1, DocFields DEF Kinds
<1> QED BY <1>1

\* A task has the fields it is made of, and is made of documents.
LEMMA TasksOf ==
  ASSUME NEW act \in {"post", "undo"}, NEW call \in Calls, NEW docs \in SUBSET Docs
  PROVE  /\ Tasks(act, call, docs) \subseteq Todo
         /\ \A t \in Tasks(act, call, docs) : t.act = act /\ t.call = call /\ t.doc \in docs
         /\ \A d \in docs : Task(act, call, d) \in Tasks(act, call, docs)
<1>1. ASSUME NEW t \in Tasks(act, call, docs)
      PROVE  t \in Todo /\ t.act = act /\ t.call = call /\ t.doc \in docs
  <2>1. PICK d \in docs : t = [act |-> act, call |-> call, doc |-> d]
    BY DEF Tasks, Task
  <2>2. d \in Docs
    OBVIOUS
  <2> QED BY <2>1, <2>2 DEF Todo, Calls
<1>2. \A d \in docs : Task(act, call, d) \in Tasks(act, call, docs)
  BY DEF Tasks
<1> QED BY <1>1, <1>2

\* A task about the sale of a bill is about its legs and its cost.
LEMMA SaleTasksOf ==
  ASSUME NEW act \in {"post", "undo"}, NEW call \in Calls, NEW b \in Bills, NEW legs \in SUBSET Nat,
         NEW docs, docs = Payments(b, legs) \/ docs = Payments(b, legs) \cup Cost(b),
         NEW t \in Tasks(act, call, docs)
  PROVE  /\ t \in Todo /\ t.act = act /\ t.call = call /\ t.doc \in Docs /\ t.doc.bill = b
         /\ t.doc.kind \in {"SALE_PAYMENT", "SALE_COGS"}
         /\ t.doc.kind = "SALE_PAYMENT" => t.doc.n \in legs
<1>1. /\ docs \in SUBSET Docs
      /\ \A d \in docs : d.bill = b /\ d.kind \in {"SALE_PAYMENT", "SALE_COGS"}
      /\ \A d \in docs : d.kind = "SALE_PAYMENT" => d.n \in legs
  BY SaleDocsOf
<1>2. t \in Todo /\ t.act = act /\ t.call = call /\ t.doc \in docs
  BY <1>1, TasksOf
<1> QED BY <1>1, <1>2

\* What a void has read.
LEMMA VoidReadIs ==
  ASSUME NEW b, NEW legs, NEW t \in VoidRead(b, legs)
  PROVE  t.act = "void" /\ t.bill = b /\ t.legs = legs
BY DEF VoidRead

\* A task is one of a few kinds of records.
LEMMA TaskIs ==
  ASSUME NEW t \in Todo
  PROVE  t.act \in {"post", "undo"} /\ t.call \in Calls /\ t.doc \in Docs
BY DEF Todo, Calls

\* A document has a kind, a bill and a number.
LEMMA DocIs ==
  ASSUME NEW d \in Docs
  PROVE  d.kind \in Kinds /\ d.bill \in Bills /\ d.n \in Nat
BY DEF Docs

\* A bill has a status, legs and a number of refunds.
LEMMA RowIs ==
  ASSUME TypeOK, NEW b \in Bills
  PROVE  /\ bill[b] \in BillRow /\ bill[b].status \in Statuses /\ bill[b].legs \subseteq 1..MaxLegs
         /\ bill[b].legs \subseteq Nat /\ bill[b].last \in Nat /\ bill[b].refunds \in Nat
<1>1. bill[b] \in BillRow
  BY DEF TypeOK, BillRow, Statuses
<1> QED BY <1>1 DEF BillRow

\* What a worker has to do: tasks, unless it is a void that has not committed.
LEMMA WorkIs ==
  ASSUME TypeOK, NEW w \in Workers
  PROVE  /\ WorkType(work[w])
         /\ ~Voiding(w) => work[w] \subseteq Todo
         /\ \A t \in work[w] : t.act = "void" =>
              work[w] = VoidRead(t.bill, t.legs) /\ t.bill \in Bills /\ t.legs \subseteq 1..MaxLegs
         /\ \A t \in work[w] : t.act # "void" => t \in Todo
<1>1. WorkType(work[w])
  BY DEF TypeOK, WorkType
<1>2. CASE work[w] \subseteq Todo
  BY <1>1, <1>2, TaskIs
<1>3. CASE \E b \in Bills, legs \in SUBSET (1..MaxLegs) : work[w] = VoidRead(b, legs)
  <2>1. PICK b \in Bills, legs \in SUBSET (1..MaxLegs) : work[w] = VoidRead(b, legs)
    BY <1>3
  <2>2. \A t \in work[w] : t.act = "void" /\ t.bill = b /\ t.legs = legs
    BY <2>1, VoidReadIs
  <2>3. Voiding(w)
    BY <2>1, <2>2 DEF Voiding, VoidRead
  <2> QED BY <1>1, <2>1, <2>2, <2>3
<1> QED BY <1>1, <1>2, <1>3 DEF WorkType

\* All documents of a bill.
LEMMA AllDocsOf ==
  ASSUME TypeOK, NEW b \in Bills
  PROVE  /\ SaleDocs(b) \subseteq Docs /\ AllDocs(b) \subseteq Docs
         /\ \A d \in SaleDocs(b) : d.bill = b /\ d.kind \in {"SALE_PAYMENT", "SALE_COGS"}
         /\ \A d \in SaleDocs(b) : d.kind = "SALE_PAYMENT" => d.n \in bill[b].legs
         /\ \A d \in AllDocs(b) : d.bill = b
         /\ \A d \in AllDocs(b) \ SaleDocs(b) : d.kind \notin {"SALE_PAYMENT", "SALE_COGS"}
<1>1. bill[b].legs \in SUBSET Nat /\ bill[b].refunds \in Nat
  BY RowIs
<1>2. /\ SaleDocs(b) \subseteq Docs
      /\ \A d \in SaleDocs(b) : d.bill = b /\ d.kind \in {"SALE_PAYMENT", "SALE_COGS"}
      /\ \A d \in SaleDocs(b) : d.kind = "SALE_PAYMENT" => d.n \in bill[b].legs
  BY <1>1, SaleDocsOf DEF SaleDocs
<1>3. ASSUME NEW d \in AllDocs(b), d \notin SaleDocs(b)
      PROVE  d \in Docs /\ d.bill = b /\ d.kind \notin {"SALE_PAYMENT", "SALE_COGS"}
  <2>1. PICK n \in (1..bill[b].refunds) \ bill[b].free : d \in RefundDocs(b, n)
    BY <1>3 DEF AllDocs
  <2> QED BY <1>1, <2>1, RefundDocsOf
<1> QED BY <1>2, <1>3

-----------------------------------------------------------------------------
(* What a step does to the bills                                           *)

\* A bill is made, changes its status, or changes its only leg
RowMoves(x, y) ==
  \/ y = x
  \/ x.status = "NONE" /\ y.status # "NONE"
  \/ /\ x.status # "NONE" /\ y.status # "NONE" /\ y.legs = x.legs /\ y.last = x.last
     /\ x.status = "VOIDED" => y.status = "VOIDED"
  \/ /\ x.status = "COMPLETED" /\ y.status = "COMPLETED"
     /\ y.legs = {x.last + 1} /\ y.last = x.last + 1

BillsMove ==
  /\ bill' \in [Bills -> BillRow]
  /\ \A b \in Bills : RowMoves(bill[b], bill'[b])

\* A document of a bill that exists stays one, and what may be taken out of the books stays so.
LEMMA Stable ==
  ASSUME TypeOK, LegsFit, BillsMove, NEW d \in Docs, Known(d)
  PROVE  Known(d)' /\ (Undue(d) => Undue(d)')
<1> DEFINE b == d.bill
<1>1. b \in Bills /\ d.n \in Nat
  BY DocIs
<1>2. RowMoves(bill[b], bill'[b]) /\ bill[b].last \in Nat
  BY <1>1, RowIs DEF BillsMove
<1>3. bill[b].status # "NONE" /\ (d.kind = "SALE_PAYMENT" => d.n <= bill[b].last)
  BY DEF Known
<1>4. bill'[b].status # "NONE" /\ (d.kind = "SALE_PAYMENT" => d.n <= bill'[b].last)
  BY <1>1, <1>2, <1>3 DEF RowMoves
<1>5. ASSUME Undue(d)
      PROVE  \/ bill'[b].status = "VOIDED" /\ d.kind \in {"SALE_PAYMENT", "SALE_COGS"}
             \/ d.kind = "SALE_PAYMENT" /\ d.n \notin bill'[b].legs
  BY <1>1, <1>2, <1>3, <1>5 DEF RowMoves, Undue
<1> QED BY <1>4, <1>5 DEF Known, Undue

\* The legs of a bill stay old enough when a new bill's are.
LEMMA LegsStay ==
  ASSUME TypeOK, LegsFit, BillsMove,
         \A b \in Bills : bill[b].status = "NONE" => bill'[b] = bill[b] \/ \A n \in bill'[b].legs : n <= bill'[b].last
  PROVE  LegsFit'
<1> SUFFICES ASSUME NEW b \in Bills, NEW n \in bill'[b].legs
             PROVE  n <= bill'[b].last
  BY DEF LegsFit
<1>1. RowMoves(bill[b], bill'[b]) /\ bill[b].last \in Nat /\ \A m \in bill[b].legs : m <= bill[b].last
  BY RowIs DEF BillsMove, LegsFit
<1> QED BY <1>1 DEF RowMoves

\* A step keeps Books when what it plans, posts and reverses fits the bills, and no leg of a
\* planned posting is replaced unnoticed.
LEMMA Keep ==
  ASSUME Books, TypeOK', LegsFit', BillsMove,
         \A w \in Workers : \A t \in work'[w] : (\E v \in Workers : t \in work[v]) \/ TaskFits(t)',
         books \subseteq books',
         \A d \in books' : d \in books \/ (d \in Docs /\ Known(d)),
         \A d \in reversed' : d \in reversed \/ (d \in books /\ Undue(d)),
         tangled \subseteq tangled',
         \A w \in Workers : \A t \in work[w] :
           t.act = "post" /\ Replaced(t.doc)' => Replaced(t.doc) \/ t.doc \in tangled'
  PROVE  Books'
<1>1. TypeOK /\ LegsFit /\ books \subseteq Docs /\ reversed \subseteq Docs
  BY DEF Books, TypeOK
<1>2. ASSUME NEW w \in Workers, NEW t \in work'[w]
      PROVE  TaskFits(t)'
  <2>1. CASE TaskFits(t)'
    BY <2>1
  <2>2. CASE \E v \in Workers : t \in work[v]
    <3>1. PICK v \in Workers : t \in work[v]
      BY <2>2
    <3>2. TaskFits(t)
      BY <3>1 DEF Books
    <3>3. CASE t.act = "void"
      <4> DEFINE b == t.bill
      <4>1. b \in Bills /\ t.legs \subseteq 1..MaxLegs
        BY <1>1, <3>1, <3>3, WorkIs
      <4>2. RowMoves(bill[b], bill'[b]) /\ bill[b].last \in Nat
        BY <1>1, <4>1, RowIs DEF BillsMove
      <4>3. bill[b].status # "NONE" /\ \A n \in t.legs : n <= bill[b].last
        BY <3>2, <3>3 DEF TaskFits
      <4>4. \A n \in t.legs : n \in Nat
        BY <4>1
      <4>5. bill'[b].status # "NONE" /\ (bill'[b].last = bill[b].last \/ bill'[b].last = bill[b].last + 1)
        BY <4>2, <4>3 DEF RowMoves
      <4>6. \A n \in t.legs : n <= bill'[b].last
        BY <4>2, <4>3, <4>4, <4>5
      <4> QED BY <3>3, <4>5, <4>6 DEF TaskFits
    <3>4. CASE t.act # "void"
      <4>1. t \in Todo
        BY <1>1, <3>1, <3>4, WorkIs
      <4>2. t.doc \in Docs /\ t.act \in {"post", "undo"}
        BY <4>1, TaskIs
      <4>3. Known(t.doc)
        BY <3>2, <4>2 DEF TaskFits
      <4>4. Known(t.doc)' /\ (Undue(t.doc) => Undue(t.doc)')
        BY <1>1, <4>2, <4>3, Stable
      <4>5. CASE t.act = "undo"
        BY <3>2, <4>4, <4>5 DEF TaskFits
      <4>6. CASE t.act = "post"
        <5>1. Replaced(t.doc)' => t.doc \in tangled'
          BY <3>1, <3>2, <4>6 DEF TaskFits
        <5> QED BY <4>4, <4>6, <5>1 DEF TaskFits
      <4> QED BY <4>2, <4>5, <4>6
    <3> QED BY <3>3, <3>4
  <2> QED BY <2>1, <2>2
<1>3. \A d \in books' : Known(d)'
  <2> SUFFICES ASSUME NEW d \in books'
               PROVE  Known(d)'
    OBVIOUS
  <2>1. d \in Docs /\ Known(d)
    BY <1>1 DEF Books
  <2> QED BY <1>1, <2>1, Stable
<1>4. \A d \in reversed' : d \in books' /\ Undue(d)'
  <2> SUFFICES ASSUME NEW d \in reversed'
               PROVE  d \in books' /\ Undue(d)'
    OBVIOUS
  <2>1. d \in books /\ Undue(d) /\ Known(d) /\ d \in Docs
    BY <1>1 DEF Books
  <2> QED BY <1>1, <2>1, Stable
<1> QED BY <1>2, <1>3, <1>4 DEF Books

-----------------------------------------------------------------------------
(* The steps                                                               *)

\* What a worker has to do after it has been given tasks.
LEMMA StartIs ==
  ASSUME TypeOK, NEW v \in Workers, NEW tasks, Start(v, tasks)
  PROVE  /\ \A w \in Workers : work'[w] = IF w = v THEN tasks ELSE work[w]
         /\ WorkType(tasks) => \A w \in Workers : WorkType(work'[w])
         /\ DOMAIN work' = Workers
<1>1. \A w \in Workers : work'[w] = IF w = v THEN tasks ELSE work[w]
  BY DEF Start, TypeOK
<1>2. \A w \in Workers : WorkType(work[w])
  BY WorkIs
<1>3. DOMAIN work' = Workers
  BY DEF Start, TypeOK
<1> QED BY <1>1, <1>2, <1>3

\* Every bill keeps its row.
LEMMA SameBills ==
  ASSUME TypeOK, bill' = bill
  PROVE  BillsMove /\ (LegsFit => LegsFit')
BY DEF BillsMove, RowMoves, LegsFit, TypeOK, BillRow, Statuses

\* The rows stay well formed when bills and tasks do.
LEMMA TypeKept ==
  ASSUME BillsMove, DOMAIN work' = Workers, \A w \in Workers : WorkType(work'[w]), books' \subseteq Docs, reversed' \subseteq Docs,
         faults' \in 0..MaxFaults, aged' \subseteq Bills, tangled' \subseteq Docs
  PROVE  TypeOK'
BY DEF TypeOK, WorkType, BillsMove, BillRow, Statuses

\* A sale keeps Books: its tasks are about the legs it has made.
LEMMA SellStep ==
  ASSUME Books, NEW r \in Requests, Sell(r)
  PROVE  Books'
<1>1. PICK b \in Bills, legs \in {1..n : n \in 1..2} :
        /\ bill[b].status = "NONE"
        /\ legs \subseteq 1..MaxLegs
        /\ bill' = [bill EXCEPT ![b] = [status |-> "COMPLETED", legs |-> legs,
                                        last |-> Cardinality(legs), refunds |-> 0,
                                        free |-> {}]]
        /\ Start(r, Tasks("post", "sale", Payments(b, legs) \cup Cost(b)))
  BY DEF Sell
<1>2. /\ UNCHANGED <<books, reversed, faults, aged, tangled>> /\ TypeOK /\ LegsFit
      /\ r \in Workers /\ bill \in [Bills -> BillRow]
  BY DEF Sell, Books, Workers, TypeOK, BillRow, Statuses
<1>3. PICK n \in 1..2 : legs = 1..n
  OBVIOUS
<1>4. Cardinality(legs) = n
  <2>1. Cardinality(1..n) = IF 1 > n THEN 0 ELSE n - 1 + 1
    BY FS_Interval
  <2> QED BY <1>3, <2>1
<1>5. n \in 0..MaxLegs /\ 0 \in 0..MaxRefunds /\ legs \subseteq Nat
  BY <1>1, <1>3, ConstantsAssumption
<1> DEFINE row == [status |-> "COMPLETED", legs |-> legs, last |-> n, refunds |-> 0, free |-> {}]
<1>6. row \in BillRow /\ row.status = "COMPLETED" /\ row.legs = legs /\ row.last = n
  BY <1>1, <1>5 DEF BillRow, Statuses
<1>7. bill'[b] = row /\ (\A c \in Bills : c # b => bill'[c] = bill[c]) /\ bill' \in [Bills -> BillRow]
  BY <1>1, <1>2, <1>4, <1>6
<1> HIDE DEF row
<1>8. BillsMove
  BY <1>1, <1>6, <1>7 DEF BillsMove, RowMoves
<1>9. LegsFit'
  BY <1>2, <1>3, <1>6, <1>7, <1>8, LegsStay
<1>10. \A t \in Tasks("post", "sale", Payments(b, legs) \cup Cost(b)) :
         /\ t \in Todo /\ t.act = "post" /\ t.doc \in Docs /\ t.doc.bill = b
         /\ t.doc.kind = "SALE_PAYMENT" => t.doc.n \in legs
  BY <1>5, SaleTasksOf DEF Calls
<1>11. DOMAIN work' = Workers /\ \A w \in Workers : work'[w] = IF w = r THEN Tasks("post", "sale", Payments(b, legs) \cup Cost(b)) ELSE work[w]
  BY <1>1, <1>2, StartIs
<1>12. TypeOK'
  <2>1. \A w \in Workers : WorkType(work'[w])
    <3>1. WorkType(Tasks("post", "sale", Payments(b, legs) \cup Cost(b)))
      BY <1>10 DEF WorkType
    <3> QED BY <1>2, <1>11, <3>1, WorkIs
  <2> QED BY <1>2, <1>8, <1>11, <2>1, TypeKept DEF TypeOK
<1>13. ASSUME NEW t \in Tasks("post", "sale", Payments(b, legs) \cup Cost(b))
       PROVE  TaskFits(t)'
  <2>1. t.act = "post" /\ t.doc.bill = b /\ (t.doc.kind = "SALE_PAYMENT" => t.doc.n \in 1..n)
    BY <1>3, <1>10
  <2> QED BY <1>3, <1>6, <1>7, <2>1 DEF TaskFits, Replaced, Known
<1>14. \A w \in Workers : \A t \in work[w] :
         t.act = "post" /\ Replaced(t.doc)' => Replaced(t.doc) \/ t.doc \in tangled'
  <2> SUFFICES ASSUME NEW w \in Workers, NEW t \in work[w], t.act = "post", Replaced(t.doc)'
               PROVE  Replaced(t.doc)
    OBVIOUS
  <2>1. t.doc.bill \in Bills /\ Known(t.doc)
    BY <1>2, WorkIs, TaskIs, DocIs DEF Books, TaskFits
  <2>2. t.doc.bill # b
    BY <1>1, <2>1 DEF Known
  <2> QED BY <1>7, <2>1, <2>2 DEF Replaced
<1> QED
  <2>1. \A w \in Workers : \A t \in work'[w] : (\E v \in Workers : t \in work[v]) \/ TaskFits(t)'
    BY <1>11, <1>13
  <2> QED BY <1>2, <1>8, <1>9, <1>12, <1>14, <2>1, Keep

\* The rows stay well formed when a worker is given tasks.
LEMMA TypeStart ==
  ASSUME TypeOK, BillsMove, NEW v \in Workers, NEW tasks, Start(v, tasks), WorkType(tasks),
         books' \subseteq Docs, reversed' \subseteq Docs, faults' \in 0..MaxFaults,
         aged' \subseteq Bills, tangled' \subseteq Docs
  PROVE  TypeOK'
<1>1. DOMAIN work' = Workers /\ \A w \in Workers : WorkType(work'[w])
  BY StartIs
<1> QED BY <1>1, TypeKept

\* A refund keeps Books: nothing it plans is a payment.
LEMMA RefundStep ==
  ASSUME Books, NEW r \in Requests, Refund(r)
  PROVE  Books'
<1>1. PICK b \in Bills, status \in {"PARTIAL_REFUND", "REFUNDED"}, free \in BOOLEAN :
        /\ bill[b].status \in {"COMPLETED", "PARTIAL_REFUND"}
        /\ bill[b].refunds + 1 <= MaxRefunds
        /\ bill' = [bill EXCEPT ![b].status = status, ![b].refunds = bill[b].refunds + 1,
                                ![b].free = IF free THEN @ \cup {bill[b].refunds + 1} ELSE @]
        /\ Start(r, IF free THEN Idle ELSE Tasks("post", "refund", RefundDocs(b, bill[b].refunds + 1)))
  BY DEF Refund
<1>2. /\ UNCHANGED <<books, reversed, faults, aged, tangled>> /\ TypeOK /\ LegsFit
      /\ r \in Workers /\ bill \in [Bills -> BillRow]
  BY DEF Refund, Books, Workers, TypeOK, BillRow, Statuses
<1> DEFINE n == bill[b].refunds + 1
           tasks == IF free THEN {} ELSE Tasks("post", "refund", RefundDocs(b, n))
<1>3. n \in Nat /\ n \in 1..MaxRefunds
  BY <1>1, <1>2, RowIs, ConstantsAssumption
<1>4. /\ \A c \in Bills : c # b => bill'[c] = bill[c]
      /\ bill'[b].status = status /\ bill'[b].legs = bill[b].legs /\ bill'[b].last = bill[b].last
      /\ bill'[b] \in BillRow
  <2>1. bill[b] \in BillRow
    BY <1>2
  <2> DEFINE given == IF free THEN bill[b].free \cup {n} ELSE bill[b].free
  <2>2. bill'[b] = [bill[b] EXCEPT !.status = status, !.refunds = n, !.free = given]
    BY <1>1, <1>2
  <2>3. given \subseteq 1..MaxRefunds
    BY <1>3, <2>1 DEF BillRow
  <2> HIDE DEF n, given
  <2> QED BY <1>1, <1>2, <1>3, <2>1, <2>2, <2>3 DEF BillRow, Statuses
<1>5. BillsMove
  <2>1. \A c \in Bills : bill'[c] \in BillRow /\ RowMoves(bill[c], bill'[c])
    BY <1>1, <1>2, <1>4 DEF RowMoves
  <2>2. bill' = [c \in Bills |-> bill'[c]]
    BY <1>1, <1>2
  <2> QED BY <2>1, <2>2 DEF BillsMove
<1>6. LegsFit'
  BY <1>1, <1>2, <1>4, <1>5, LegsStay
<1>7. Start(r, tasks)
  BY <1>1 DEF Idle
<1> HIDE DEF n
<1>8. \A t \in tasks :
        /\ t \in Todo /\ t.act = "post" /\ t.doc.bill = b /\ t.doc.kind # "SALE_PAYMENT"
  BY <1>3, RefundDocsOf, TasksOf DEF Calls
<1> HIDE DEF tasks
<1>9. TypeOK'
  BY <1>2, <1>5, <1>7, <1>8, TypeStart DEF TypeOK, WorkType
<1>10. \A t \in tasks : TaskFits(t)'
  BY <1>1, <1>4, <1>8 DEF TaskFits, Replaced, Known
<1>11. \A w \in Workers : work'[w] = IF w = r THEN tasks ELSE work[w]
  BY <1>2, <1>7, StartIs
<1>12. \A w \in Workers : \A t \in work[w] :
         t.act = "post" /\ Replaced(t.doc)' => Replaced(t.doc) \/ t.doc \in tangled'
  <2> SUFFICES ASSUME NEW w \in Workers, NEW t \in work[w], t.act = "post", Replaced(t.doc)'
               PROVE  Replaced(t.doc)
    OBVIOUS
  <2>1. t.doc.bill \in Bills
    BY <1>2, WorkIs, TaskIs, DocIs
  <2> QED BY <1>4, <2>1 DEF Replaced
<1>13. \A w \in Workers : \A t \in work'[w] : (\E v \in Workers : t \in work[v]) \/ TaskFits(t)'
  BY <1>10, <1>11
<1> QED BY <1>2, <1>5, <1>6, <1>9, <1>12, <1>13, Keep

\* A change of the way of paying keeps Books: the old leg is older than the new one, and whoever
\* is about to post it is remembered.
LEMMA ChangeMethodStep ==
  ASSUME Books, NEW r \in Requests, ChangeMethod(r)
  PROVE  Books'
<1>1. PICK b \in Bills :
        /\ bill[b].status = "COMPLETED"
        /\ bill[b].last < MaxLegs
        /\ bill' = [bill EXCEPT ![b].legs = {bill[b].last + 1}, ![b].last = @ + 1]
        /\ Start(r, Rebook(b, bill[b].legs, {bill[b].last + 1}))
        /\ tangled' = tangled \cup BeingPosted(Payments(b, bill[b].legs))
  BY DEF ChangeMethod
<1>2. /\ UNCHANGED <<books, reversed, faults, aged>> /\ TypeOK /\ LegsFit
      /\ r \in Workers /\ bill \in [Bills -> BillRow]
  BY DEF ChangeMethod, Books, Workers, TypeOK, BillRow, Statuses
<1> DEFINE old == bill[b].legs
           n == bill[b].last + 1
<1>3. old \in SUBSET Nat /\ n \in Nat /\ n \in 1..MaxLegs /\ n \in 0..MaxLegs /\ \A m \in old : m < n
  BY <1>1, <1>2, RowIs, ConstantsAssumption DEF LegsFit
<1>4. /\ \A c \in Bills : c # b => bill'[c] = bill[c]
      /\ bill'[b].status = "COMPLETED" /\ bill'[b].legs = {n} /\ bill'[b].last = n
      /\ bill'[b] \in BillRow
  <2>1. bill[b] \in BillRow
    BY <1>2
  <2>2. bill'[b] = [bill[b] EXCEPT !.legs = {n}, !.last = n]
    BY <1>1, <1>2
  <2> HIDE DEF n, old
  <2> QED BY <1>1, <1>2, <1>3, <2>1, <2>2 DEF BillRow, Statuses
<1>5. BillsMove
  <2>1. \A c \in Bills : bill'[c] \in BillRow /\ RowMoves(bill[c], bill'[c])
    BY <1>1, <1>2, <1>4 DEF RowMoves
  <2>2. bill' = [c \in Bills |-> bill'[c]]
    BY <1>1, <1>2
  <2> QED BY <2>1, <2>2 DEF BillsMove
<1>6. LegsFit'
  BY <1>1, <1>2, <1>4, <1>5, LegsStay
<1>7. Start(r, Rebook(b, old, {n})) /\ tangled' = tangled \cup BeingPosted(Payments(b, old))
  BY <1>1
<1> HIDE DEF n, old
<1>8. /\ \A t \in Tasks("undo", "rebook", Payments(b, old)) :
           /\ t \in Todo /\ t.act = "undo" /\ t.doc.bill = b
           /\ t.doc.kind \in {"SALE_PAYMENT", "SALE_COGS"}
           /\ t.doc.kind = "SALE_PAYMENT" => t.doc.n \in old
      /\ \A t \in Tasks("post", "rebook", Payments(b, {n})) :
           /\ t \in Todo /\ t.act = "post" /\ t.doc.bill = b
           /\ t.doc.kind = "SALE_PAYMENT" => t.doc.n = n
  <2>1. {n} \in SUBSET Nat
    BY <1>3
  <2> QED BY <1>3, <2>1, SaleTasksOf DEF Calls
<1>9. \A t \in Tasks("undo", "rebook", Payments(b, old)) : t.doc.kind = "SALE_PAYMENT"
  BY <1>3, SaleDocsOf, TasksOf DEF Calls
<1>10. Rebook(b, old, {n}) = Tasks("undo", "rebook", Payments(b, old)) \cup Tasks("post", "rebook", Payments(b, {n}))
  BY DEF Rebook
<1>11. TypeOK'
  <2>1. WorkType(Rebook(b, old, {n}))
    BY <1>8, <1>10 DEF WorkType
  <2>2. tangled' \subseteq Docs
    <3>1. Payments(b, old) \subseteq Docs
      BY <1>3, SaleDocsOf
    <3> QED BY <1>2, <1>7, <3>1 DEF BeingPosted, TypeOK
  <2> QED BY <1>2, <1>5, <1>7, <2>1, <2>2, TypeStart DEF TypeOK
<1>12. \A t \in Rebook(b, old, {n}) : TaskFits(t)'
  <2>1. ASSUME NEW t \in Tasks("undo", "rebook", Payments(b, old))
        PROVE  TaskFits(t)'
    <3>1. t.act = "undo" /\ t.doc.bill = b /\ t.doc.kind = "SALE_PAYMENT" /\ t.doc.n \in old
      BY <1>8, <1>9
    <3>2. t.doc.n \in Nat /\ t.doc.n < n
      BY <1>3, <3>1
    <3>3. t.doc.n <= n /\ t.doc.n \notin {n}
      BY <1>3, <3>2
    <3> QED BY <1>4, <3>1, <3>3 DEF TaskFits, Known, Undue
  <2>2. ASSUME NEW t \in Tasks("post", "rebook", Payments(b, {n}))
        PROVE  TaskFits(t)'
    <3>1. t.act = "post" /\ t.doc.bill = b /\ (t.doc.kind = "SALE_PAYMENT" => t.doc.n = n)
      BY <1>8
    <3>2. n <= n
      BY <1>3
    <3>3. Known(t.doc)' /\ ~Replaced(t.doc)'
      BY <1>4, <3>1, <3>2 DEF Known, Replaced
    <3> QED BY <3>1, <3>3 DEF TaskFits
  <2> QED BY <1>10, <2>1, <2>2
<1>13. \A w \in Workers : work'[w] = IF w = r THEN Rebook(b, old, {n}) ELSE work[w]
  BY <1>2, <1>7, StartIs
<1>14. \A w \in Workers : \A t \in work[w] :
         t.act = "post" /\ Replaced(t.doc)' => Replaced(t.doc) \/ t.doc \in tangled'
  <2> SUFFICES ASSUME NEW w \in Workers, NEW t \in work[w], t.act = "post", Replaced(t.doc)', ~Replaced(t.doc)
               PROVE  t.doc \in tangled'
    OBVIOUS
  <2>1. t.doc \in Docs /\ t.doc.bill \in Bills
    BY <1>2, WorkIs, TaskIs, DocIs
  <2>2. t.doc.bill = b /\ t.doc.kind = "SALE_PAYMENT" /\ t.doc.n \in old
    BY <1>4, <2>1 DEF Replaced, old
  <2>3. t.doc = Doc("SALE_PAYMENT", b, t.doc.n)
    BY <2>1, <2>2 DEF Docs, Doc
  <2>4. t.doc \in Payments(b, old)
    BY <2>2, <2>3 DEF Payments
  <2>5. t.doc \in BeingPosted(Payments(b, old))
    BY <2>4 DEF BeingPosted
  <2> QED BY <1>7, <2>5
<1>15. \A w \in Workers : \A t \in work'[w] : (\E v \in Workers : t \in work[v]) \/ TaskFits(t)'
  BY <1>12, <1>13
<1> QED BY <1>2, <1>5, <1>6, <1>7, <1>11, <1>14, <1>15, Keep

\* A step that leaves the bills alone replaces no leg.
LEMMA NotReplaced ==
  ASSUME bill' = bill, tangled' = tangled
  PROVE  /\ \A d : Replaced(d)' <=> Replaced(d)
         /\ \A t : TaskFits(t) => TaskFits(t)'
<1>1. \A d : Replaced(d)' <=> Replaced(d)
  BY DEF Replaced
<1>2. \A d : (Known(d) => Known(d)') /\ (Undue(d) => Undue(d)')
  BY DEF Known, Undue
<1>3. ASSUME NEW t, TaskFits(t)
      PROVE  TaskFits(t)'
  <2>1. t.act = "undo" => Known(t.doc)' /\ Undue(t.doc)'
    BY <1>2, <1>3 DEF TaskFits
  <2>2. t.act = "post" => (Replaced(t.doc)' => t.doc \in tangled') /\ Known(t.doc)'
    BY <1>1, <1>2, <1>3 DEF TaskFits
  <2>3. t.act = "void" => bill'[t.bill].status # "NONE" /\ \A n \in t.legs : n <= bill'[t.bill].last
    BY <1>3 DEF TaskFits
  <2> QED BY <2>1, <2>2, <2>3 DEF TaskFits
<1> QED BY <1>1, <1>3

\* A void that has read its bill keeps Books.
LEMMA AskVoidStep ==
  ASSUME Books, NEW r \in Requests, AskVoid(r)
  PROVE  Books'
<1>1. PICK b \in Bills : Live(b) /\ Start(r, VoidRead(b, bill[b].legs))
  BY DEF AskVoid
<1>2. UNCHANGED <<bill, books, reversed, faults, aged, tangled>> /\ TypeOK /\ LegsFit /\ r \in Workers
  BY DEF AskVoid, Books, Workers
<1> DEFINE legs == bill[b].legs
<1>3. legs \in SUBSET (1..MaxLegs) /\ \A n \in legs : n <= bill[b].last
  BY <1>2, RowIs DEF LegsFit
<1>4. BillsMove /\ LegsFit'
  BY <1>2, SameBills
<1>5. Start(r, VoidRead(b, legs))
  BY <1>1
<1>6. bill[b].status # "NONE"
  BY <1>1 DEF Live
<1> HIDE DEF legs
<1>7. TypeOK'
  BY <1>2, <1>3, <1>4, <1>5, TypeStart DEF TypeOK, WorkType
<1>8. \A t \in VoidRead(b, legs) : TaskFits(t)
  <2> SUFFICES ASSUME NEW t \in VoidRead(b, legs)
               PROVE  TaskFits(t)
    OBVIOUS
  <2>1. t.act = "void" /\ t.bill = b /\ t.legs = legs
    BY VoidReadIs
  <2>2. bill[t.bill].status # "NONE" /\ \A n \in t.legs : n <= bill[t.bill].last
    BY <1>3, <1>6, <2>1
  <2> QED BY <2>1, <2>2 DEF TaskFits
<1>9. \A w \in Workers : work'[w] = IF w = r THEN VoidRead(b, legs) ELSE work[w]
  BY <1>2, <1>5, StartIs
<1>10. \A w \in Workers : \A t \in work'[w] : (\E v \in Workers : t \in work[v]) \/ TaskFits(t)'
  BY <1>2, <1>8, <1>9, NotReplaced
<1> QED BY <1>2, <1>4, <1>7, <1>10, NotReplaced, Keep

\* A void that commits keeps Books: what it goes on to reverse is the sale of a voided bill.
LEMMA CommitVoidStep ==
  ASSUME Books, NEW r \in Requests, CommitVoid(r)
  PROVE  Books'
<1>1. PICK u \in work[r] :
        /\ u.act = "void"
        /\ bill' = [bill EXCEPT ![u.bill].status = "VOIDED"]
        /\ Start(r, Tasks("undo", "void", Payments(u.bill, u.legs) \cup Cost(u.bill)))
  BY DEF CommitVoid
<1>2. /\ UNCHANGED <<books, reversed, faults, aged, tangled>> /\ TypeOK /\ LegsFit
      /\ r \in Workers /\ bill \in [Bills -> BillRow] /\ TaskFits(u)
  BY DEF CommitVoid, Books, Workers, TypeOK, BillRow, Statuses
<1> DEFINE b == u.bill
           legs == u.legs
           tasks == Tasks("undo", "void", Payments(b, legs) \cup Cost(b))
<1>3. /\ b \in Bills /\ legs \in SUBSET Nat
      /\ bill[b].status # "NONE" /\ \A n \in legs : n <= bill[b].last
  BY <1>1, <1>2, WorkIs DEF TaskFits
<1>4. Start(r, tasks) /\ bill' = [bill EXCEPT ![b].status = "VOIDED"]
  BY <1>1
<1> HIDE DEF b, legs, tasks
<1>5. /\ \A c \in Bills : c # b => bill'[c] = bill[c]
      /\ bill'[b].status = "VOIDED" /\ bill'[b].legs = bill[b].legs /\ bill'[b].last = bill[b].last
      /\ bill'[b] \in BillRow
  <2>1. bill[b] \in BillRow
    BY <1>2, <1>3
  <2>2. bill'[b] = [bill[b] EXCEPT !.status = "VOIDED"]
    BY <1>2, <1>3, <1>4
  <2> QED BY <1>2, <1>4, <2>1, <2>2 DEF BillRow, Statuses
<1>6. BillsMove
  <2>1. \A c \in Bills : bill'[c] \in BillRow /\ RowMoves(bill[c], bill'[c])
    BY <1>2, <1>3, <1>5 DEF RowMoves
  <2>2. bill' = [c \in Bills |-> bill'[c]]
    BY <1>2, <1>4
  <2> QED BY <2>1, <2>2 DEF BillsMove
<1>7. LegsFit'
  BY <1>2, <1>3, <1>5, <1>6, LegsStay
<1>8. \A t \in tasks : /\ t \in Todo /\ t.act = "undo" /\ t.doc.bill = b
                       /\ t.doc.kind \in {"SALE_PAYMENT", "SALE_COGS"}
                       /\ t.doc.kind = "SALE_PAYMENT" => t.doc.n \in legs
  BY <1>3, SaleTasksOf DEF Calls, tasks
<1>9. TypeOK'
  BY <1>2, <1>4, <1>6, <1>8, TypeStart DEF TypeOK, WorkType
<1>10. \A t \in tasks : TaskFits(t)'
  BY <1>3, <1>5, <1>8 DEF TaskFits, Known, Undue
<1>11. \A w \in Workers : work'[w] = IF w = r THEN tasks ELSE work[w]
  BY <1>2, <1>4, StartIs
<1>12. \A w \in Workers : \A t \in work[w] :
         t.act = "post" /\ Replaced(t.doc)' => Replaced(t.doc) \/ t.doc \in tangled'
  <2> SUFFICES ASSUME NEW w \in Workers, NEW t \in work[w], t.act = "post", Replaced(t.doc)'
               PROVE  Replaced(t.doc)
    OBVIOUS
  <2>1. t.doc.bill \in Bills
    BY <1>2, WorkIs, TaskIs, DocIs
  <2> QED BY <1>5, <2>1 DEF Replaced
<1>13. \A w \in Workers : \A t \in work'[w] : (\E v \in Workers : t \in work[v]) \/ TaskFits(t)'
  BY <1>10, <1>11
<1> QED BY <1>2, <1>6, <1>7, <1>9, <1>12, <1>13, Keep

\* A journal that is posted or reversed keeps Books: only what the bills have is posted, and only
\* what is undue is taken out.
LEMMA PostStep ==
  ASSUME Books, NEW v \in Workers, Post(v)
  PROVE  Books'
<1>1. PICK t \in work[v] :
        /\ books' = IF t.act = "post" THEN books \cup {t.doc} ELSE books
        /\ reversed' = IF t.act = "undo" THEN Undone(reversed, t.doc) ELSE reversed
        /\ Start(v, work[v] \ {t})
  BY DEF Post, First
<1>2. UNCHANGED <<bill, faults, aged, tangled>> /\ TypeOK /\ LegsFit /\ ~Voiding(v) /\ TaskFits(t)
  BY DEF Post, Books
<1>3. work[v] \subseteq Todo
  BY <1>2, WorkIs
<1>4. t.doc \in Docs
  BY <1>3, TaskIs
<1>5. BillsMove /\ LegsFit'
  BY <1>2, SameBills
<1>6. reversed' \subseteq reversed \cup (books \cap {t.doc}) /\ (t.act # "undo" => reversed' = reversed)
  BY <1>1 DEF Undone
<1>7. books' \subseteq books \cup {t.doc} /\ books \subseteq books' /\ (t.act # "post" => books' = books)
  BY <1>1
<1>8. TypeOK'
  BY <1>1, <1>2, <1>3, <1>4, <1>5, <1>6, <1>7, TypeStart DEF TypeOK, WorkType
<1>9. \A w \in Workers : work'[w] = IF w = v THEN work[v] \ {t} ELSE work[w]
  BY <1>1, <1>2, StartIs
<1>10. \A w \in Workers : \A u \in work'[w] : \E x \in Workers : u \in work[x]
  BY <1>9
<1>11. \A d \in books' : d \in books \/ (d \in Docs /\ Known(d))
  BY <1>2, <1>4, <1>7 DEF TaskFits
<1>12. \A d \in reversed' : d \in reversed \/ (d \in books /\ Undue(d))
  BY <1>2, <1>6 DEF TaskFits
<1>13. \A w \in Workers : \A u \in work[w] :
         u.act = "post" /\ Replaced(u.doc)' => Replaced(u.doc) \/ u.doc \in tangled'
  BY <1>2, NotReplaced
<1> QED BY <1>2, <1>5, <1>7, <1>8, <1>10, <1>11, <1>12, <1>13, Keep

\* A posting that fails keeps Books: something planned is given up.
LEMMA FailStep ==
  ASSUME Books, NEW v \in Workers, Fail(v)
  PROVE  Books'
<1>1. PICK t \in work[v] :
        Start(v, {u \in work[v] : u.call # t.call \/ u.doc.bill # t.doc.bill})
  BY DEF Fail, First
<1> DEFINE rest == {u \in work[v] : u.call # t.call \/ u.doc.bill # t.doc.bill}
<1>2. /\ UNCHANGED <<bill, books, reversed, aged, tangled>> /\ TypeOK /\ LegsFit /\ ~Voiding(v)
      /\ faults' \in 0..MaxFaults
  BY ConstantsAssumption DEF Fail, Books, TypeOK
<1>3. Start(v, rest) /\ rest \subseteq work[v]
  BY <1>1
<1> HIDE DEF rest
<1>4. BillsMove /\ LegsFit'
  BY <1>2, SameBills
<1>5. WorkType(rest)
  BY <1>2, <1>3, WorkIs DEF WorkType
<1>6. TypeOK'
  BY <1>2, <1>3, <1>4, <1>5, TypeStart DEF TypeOK
<1>7. \A w \in Workers : work'[w] = IF w = v THEN rest ELSE work[w]
  BY <1>2, <1>3, StartIs
<1>8. \A w \in Workers : \A u \in work'[w] : \E x \in Workers : u \in work[x]
  BY <1>3, <1>7
<1>9. \A w \in Workers : \A u \in work[w] :
         u.act = "post" /\ Replaced(u.doc)' => Replaced(u.doc) \/ u.doc \in tangled'
  BY <1>2, NotReplaced
<1> QED BY <1>2, <1>4, <1>6, <1>8, <1>9, Keep

\* A crash keeps Books: nothing is left to do.
LEMMA CrashStep ==
  ASSUME Books, Crash
  PROVE  Books'
<1>1. /\ UNCHANGED <<bill, books, reversed, aged, tangled>> /\ TypeOK /\ LegsFit
      /\ work' = [w \in Workers |-> Idle] /\ faults' \in 0..MaxFaults
  BY ConstantsAssumption DEF Crash, Books, TypeOK
<1>2. BillsMove /\ LegsFit'
  BY <1>1, SameBills
<1>3. \A w \in Workers : work'[w] = {} /\ WorkType(work'[w])
  BY <1>1 DEF Idle, WorkType
<1>4. TypeOK'
  BY <1>1, <1>2, <1>3, TypeKept DEF TypeOK
<1>5. \A w \in Workers : \A u \in work[w] :
         u.act = "post" /\ Replaced(u.doc)' => Replaced(u.doc) \/ u.doc \in tangled'
  BY <1>1, NotReplaced
<1> QED BY <1>1, <1>2, <1>3, <1>4, <1>5, Keep

\* A void that fails keeps Books.
LEMMA AbortVoidStep ==
  ASSUME Books, NEW r \in Requests, AbortVoid(r)
  PROVE  Books'
<1>1. UNCHANGED <<bill, books, reversed, faults, aged, tangled>> /\ TypeOK /\ LegsFit /\ r \in Workers /\ Start(r, {})
  BY DEF AbortVoid, Books, Workers, Idle
<1>2. BillsMove /\ LegsFit'
  BY <1>1, SameBills
<1>3. TypeOK'
  BY <1>1, <1>2, TypeStart DEF TypeOK, WorkType
<1>4. \A w \in Workers : work'[w] = IF w = r THEN {} ELSE work[w]
  BY <1>1, StartIs
<1>5. \A w \in Workers : \A t \in work'[w] : \E v \in Workers : t \in work[v]
  BY <1>4
<1> QED BY <1>1, <1>2, <1>3, <1>5, NotReplaced, Keep

\* What the scan plans for a bill fits the bill it has just read.
LEMMA RecoverFits ==
  ASSUME TypeOK, LegsFit, NEW b \in Bills, bill[b].status # "NONE", NEW t \in Recover(b)
  PROVE  t \in Todo /\ TaskFits(t) /\ t.doc.bill = b /\ t.call \in {"sale", "refund"}
<1>1. /\ SaleDocs(b) \in SUBSET Docs /\ AllDocs(b) \ SaleDocs(b) \in SUBSET Docs
      /\ \A d \in SaleDocs(b) : /\ d.bill = b /\ d.kind \in {"SALE_PAYMENT", "SALE_COGS"}
                                /\ d.kind = "SALE_PAYMENT" => d.n \in bill[b].legs
      /\ \A d \in AllDocs(b) \ SaleDocs(b) : d.bill = b /\ d.kind \notin {"SALE_PAYMENT", "SALE_COGS"}
  BY AllDocsOf
<1>2. \A n \in bill[b].legs : n <= bill[b].last
  BY DEF LegsFit
<1>3. CASE Live(b) /\ t \in Tasks("post", "sale", SaleDocs(b))
  <2>1. t \in Todo /\ t.act = "post" /\ t.call = "sale" /\ t.doc \in SaleDocs(b)
    BY <1>1, <1>3, TasksOf DEF Calls
  <2> QED BY <1>1, <1>2, <2>1 DEF TaskFits, Known, Replaced
<1>4. CASE Live(b) /\ t \in Tasks("post", "refund", AllDocs(b) \ SaleDocs(b))
  <2>1. t \in Todo /\ t.act = "post" /\ t.call = "refund" /\ t.doc \in AllDocs(b) \ SaleDocs(b)
    BY <1>1, <1>4, TasksOf DEF Calls
  <2> QED BY <1>1, <2>1 DEF TaskFits, Known, Replaced
<1>5. CASE ~Live(b)
  <2>1. t \in Todo /\ t.act = "undo" /\ t.call = "sale" /\ t.doc \in SaleDocs(b)
    BY <1>1, <1>5, TasksOf DEF Calls, Recover
  <2>2. bill[b].status = "VOIDED"
    BY <1>5 DEF Live
  <2> QED BY <1>1, <1>2, <2>1, <2>2 DEF TaskFits, Known, Undue
<1> QED BY <1>3, <1>4, <1>5 DEF Recover

\* Whoever sets to work on bills that are behind keeps Books.
LEMMA RecoveryStep ==
  ASSUME Books, NEW s \in Scans, NEW bs \in SUBSET Behind(Bills),
         Start(s, UNION {Recover(b) : b \in bs}),
         UNCHANGED <<bill, books, reversed, faults, aged, tangled>>
  PROVE  Books'
<1> DEFINE tasks == UNION {Recover(b) : b \in bs}
<1>1. TypeOK /\ LegsFit /\ s \in Workers /\ Start(s, tasks)
  BY DEF Books, Workers
<1>2. ASSUME NEW t \in tasks
      PROVE  t \in Todo /\ TaskFits(t)
  <2>1. PICK b \in bs : t \in Recover(b)
    OBVIOUS
  <2>2. b \in Bills /\ bill[b].status # "NONE"
    BY DEF Behind
  <2> QED BY <1>1, <2>1, <2>2, RecoverFits
<1> HIDE DEF tasks
<1>3. BillsMove /\ LegsFit'
  BY <1>1, SameBills
<1>4. TypeOK'
  BY <1>1, <1>2, <1>3, TypeStart DEF TypeOK, WorkType
<1>5. \A w \in Workers : work'[w] = IF w = s THEN tasks ELSE work[w]
  BY <1>1, StartIs
<1>6. \A w \in Workers : \A t \in work'[w] : (\E v \in Workers : t \in work[v]) \/ TaskFits(t)'
  BY <1>1, <1>2, <1>5, NotReplaced
<1> QED BY <1>1, <1>3, <1>4, <1>6, NotReplaced, Keep

\* A scan, and a retry of one bill, keep Books.
LEMMA StartScanStep ==
  ASSUME Books, NEW s \in Scans, StartScan(s) \/ RetryBill(s)
  PROVE  Books'
<1>1. CASE StartScan(s)
  <2>1. Behind(InReach) \in SUBSET Behind(Bills)
    BY DEF Behind, InReach
  <2> QED BY <1>1, <2>1, RecoveryStep DEF StartScan
<1>2. CASE RetryBill(s)
  <2>1. PICK b \in Behind(Bills) : Start(s, Recover(b))
    BY <1>2 DEF RetryBill
  <2>2. UNION {Recover(c) : c \in {b}} = Recover(b)
    OBVIOUS
  <2>3. Start(s, UNION {Recover(c) : c \in {b}}) /\ {b} \in SUBSET Behind(Bills)
    BY <2>1, <2>2
  <2> QED BY <1>2, <2>3, RecoveryStep DEF RetryBill
<1> QED BY <1>1, <1>2

\* A bill that grows old keeps Books.
LEMMA GrowOldStep ==
  ASSUME Books, GrowOld
  PROVE  Books'
<1>1. UNCHANGED <<bill, books, reversed, work, faults, tangled>> /\ TypeOK /\ LegsFit /\ aged' \subseteq Bills
  BY DEF GrowOld, Books, TypeOK
<1>2. BillsMove /\ LegsFit'
  BY <1>1, SameBills
<1>3. TypeOK'
  BY <1>1, <1>2, TypeKept, WorkIs DEF TypeOK
<1> QED BY <1>1, <1>2, <1>3, NotReplaced, Keep

-----------------------------------------------------------------------------
(* Theorems                                                                *)

\* At the start nothing is sold, posted or planned.
LEMMA BooksInit == Init => Books
<1> SUFFICES ASSUME Init PROVE Books
  OBVIOUS
<1>1. \A b \in Bills : bill[b] = NoBill
  BY DEF Init
<1>2. NoBill \in BillRow /\ NoBill.legs = {}
  BY ConstantsAssumption DEF NoBill, BillRow, Statuses
<1>3. \A w \in Workers : work[w] = {}
  BY DEF Init, Idle
<1>4. TypeOK
  BY <1>2, <1>3, ConstantsAssumption DEF Init, TypeOK, BillRow, Statuses
<1>5. LegsFit
  BY <1>1, <1>2 DEF LegsFit
<1> QED BY <1>3, <1>4, <1>5 DEF Books, Init

\* Every step keeps Books.
LEMMA BooksNext == Books /\ [Next]_vars => Books'
<1> SUFFICES ASSUME Books, [Next]_vars PROVE Books'
  OBVIOUS
<1>1. CASE \E r \in Requests :
             Sell(r) \/ Refund(r) \/ ChangeMethod(r) \/ AskVoid(r) \/ CommitVoid(r) \/ AbortVoid(r)
  BY <1>1, SellStep, RefundStep, ChangeMethodStep, AskVoidStep, CommitVoidStep, AbortVoidStep
<1>2. CASE \E w \in Workers : Post(w) \/ Fail(w)
  BY <1>2, PostStep, FailStep
<1>3. CASE \E s \in Scans : StartScan(s) \/ RetryBill(s)
  BY <1>3, StartScanStep
<1>4. CASE Crash
  BY <1>4, CrashStep
<1>5. CASE UNCHANGED vars
  <2>1. UNCHANGED <<bill, books, reversed, work, faults, aged, tangled>> /\ TypeOK /\ LegsFit
    BY <1>5 DEF vars, Books
  <2>2. BillsMove /\ LegsFit'
    BY <2>1, SameBills
  <2>3. TypeOK'
    BY <2>1, <2>2, TypeKept, WorkIs DEF TypeOK
  <2> QED BY <2>1, <2>2, <2>3, NotReplaced, Keep
<1>6. CASE GrowOld
  BY <1>6, GrowOldStep
<1> QED BY <1>1, <1>2, <1>3, <1>4, <1>5, <1>6 DEF Next

\* The rows of bills, books and tasks stay well formed.
THEOREM TypeCorrect == Spec => []TypeOK
<1>1. Books => TypeOK
  BY DEF Books
<1> QED BY <1>1, BooksInit, BooksNext, PTL DEF Spec

\* Whatever stale reading a void or a scan works from, nothing is taken out of the books but what
\* was in them and is no longer due.
THEOREM UndueReversals == Spec => []OnlyUndueIsReversed
<1>1. Books => OnlyUndueIsReversed
  BY DEF Books, OnlyUndueIsReversed, Undue
<1> QED BY <1>1, BooksInit, BooksNext, PTL DEF Spec

\* A task to take a replaced leg out is only lost when it has been done
Undoing(d) == \E w \in Workers : Task("undo", "rebook", d) \in work[w]

Leaving ==
  faults = 0 => \A d \in (books \ reversed) \ tangled : Replaced(d) => Undoing(d)

\* A worker that has nothing to do, or a void to commit, has no leg to take out.
LEMMA NoUndoing ==
  ASSUME TypeOK, NEW v \in Workers, Free(v) \/ Voiding(v), NEW d
  PROVE  Task("undo", "rebook", d) \notin work[v]
<1>1. CASE Free(v)
  BY <1>1 DEF Free, Idle
<1>2. CASE Voiding(v)
  <2>1. PICK t \in work[v] : t.act = "void"
    BY <1>2 DEF Voiding
  <2>2. work[v] = VoidRead(t.bill, t.legs)
    BY <2>1, WorkIs
  <2>3. \A u \in work[v] : u.act = "void"
    BY <2>2, VoidReadIs
  <2>4. Task("undo", "rebook", d).act = "undo"
    BY DEF Task
  <2> QED BY <2>3, <2>4
<1> QED BY <1>1, <1>2

\* A worker that had nothing to take out starts something: every leg to be taken out still is.
LEMMA LeavingStart ==
  ASSUME Books, Leaving, NEW v \in Workers, NEW tasks, Start(v, tasks), Free(v) \/ Voiding(v),
         UNCHANGED <<books, reversed, faults, aged>>, tangled \subseteq tangled',
         \A d \in (books \ reversed) \ tangled' :
           Replaced(d)' => Replaced(d) \/ Task("undo", "rebook", d) \in tasks
  PROVE  Leaving'
<1> SUFFICES ASSUME faults = 0, NEW d \in (books \ reversed) \ tangled', Replaced(d)'
             PROVE  \E w \in Workers : Task("undo", "rebook", d) \in work'[w]
  BY DEF Leaving, Undoing
<1>1. TypeOK
  BY DEF Books
<1>2. \A w \in Workers : work'[w] = IF w = v THEN tasks ELSE work[w]
  BY <1>1, StartIs
<1>3. CASE Task("undo", "rebook", d) \in tasks
  BY <1>2, <1>3
<1>4. CASE Replaced(d)
  <2>1. PICK w \in Workers : Task("undo", "rebook", d) \in work[w]
    BY <1>4 DEF Leaving, Undoing
  <2>2. w # v
    BY <1>1, <2>1, NoUndoing
  <2> QED BY <1>2, <2>1, <2>2
<1> QED BY <1>3, <1>4

\* Every step keeps Leaving.
LEMMA LeavingNext == Books /\ Leaving /\ [Next]_vars => Leaving'
<1> SUFFICES ASSUME Books, Leaving, [Next]_vars PROVE Leaving'
  OBVIOUS
<1>0. TypeOK /\ LegsFit /\ books \subseteq Docs /\ \A d \in books : Known(d)
  BY DEF Books, TypeOK
<1>1. ASSUME NEW r \in Requests, Sell(r)
      PROVE  Leaving'
  <2>1. PICK b \in Bills :
          /\ bill[b].status = "NONE"
          /\ \E row : bill' = [bill EXCEPT ![b] = row]
          /\ \E tasks : Start(r, tasks)
    BY <1>1 DEF Sell
  <2>2. UNCHANGED <<books, reversed, faults, aged, tangled>> /\ r \in Workers /\ Free(r)
    BY <1>1 DEF Sell, Workers
  <2>3. ASSUME NEW d \in books, Replaced(d)'
        PROVE  Replaced(d)
    <3>1. d.bill \in Bills /\ d.bill # b
      BY <1>0, <2>1, DocIs DEF Known
    <3>2. bill'[d.bill] = bill[d.bill]
      BY <1>0, <2>1, <3>1 DEF TypeOK
    <3> QED BY <2>3, <3>2 DEF Replaced
  <2> QED BY <2>1, <2>2, <2>3, LeavingStart
<1>2. ASSUME NEW r \in Requests, Refund(r)
      PROVE  Leaving'
  <2>1. PICK b \in Bills :
          /\ \E status, free :
               bill' = [bill EXCEPT ![b].status = status, ![b].refunds = bill[b].refunds + 1, ![b].free = free]
          /\ \E tasks : Start(r, tasks)
    <3>1. PICK b \in Bills, status \in {"PARTIAL_REFUND", "REFUNDED"}, free \in BOOLEAN :
            /\ bill' = [bill EXCEPT ![b].status = status, ![b].refunds = bill[b].refunds + 1,
                                    ![b].free = IF free THEN @ \cup {bill[b].refunds + 1} ELSE @]
            /\ \E tasks : Start(r, tasks)
      BY <1>2 DEF Refund
    <3> QED BY <3>1
  <2>2. UNCHANGED <<books, reversed, faults, aged, tangled>> /\ r \in Workers /\ Free(r)
    BY <1>2 DEF Refund, Workers
  <2>3. ASSUME NEW d \in books, Replaced(d)'
        PROVE  Replaced(d)
    <3>1. d.bill \in Bills /\ bill[d.bill] \in BillRow
      BY <1>0, DocIs, RowIs
    <3>2. bill'[d.bill].legs = bill[d.bill].legs
      BY <1>0, <2>1, <3>1 DEF TypeOK, BillRow
    <3> QED BY <2>3, <3>2 DEF Replaced
  <2> QED BY <2>1, <2>2, <2>3, LeavingStart
<1>3. ASSUME NEW r \in Requests, ChangeMethod(r)
      PROVE  Leaving'
  <2>1. PICK b \in Bills :
          /\ bill' = [bill EXCEPT ![b].legs = {bill[b].last + 1}, ![b].last = @ + 1]
          /\ Start(r, Rebook(b, bill[b].legs, {bill[b].last + 1}))
    BY <1>3 DEF ChangeMethod
  <2>2. /\ UNCHANGED <<books, reversed, faults, aged>> /\ tangled \subseteq tangled'
        /\ r \in Workers /\ Free(r)
    BY <1>3 DEF ChangeMethod, Workers
  <2>3. ASSUME NEW d \in books, Replaced(d)', ~Replaced(d)
        PROVE  Task("undo", "rebook", d) \in Rebook(b, bill[b].legs, {bill[b].last + 1})
    <3>1. d \in Docs /\ d.bill \in Bills /\ d.kind = "SALE_PAYMENT" /\ d.n \in bill[d.bill].legs
      BY <1>0, <2>3, DocIs DEF Replaced
    <3>2. d.bill = b
      <4>1. d.bill # b => bill'[d.bill] = bill[d.bill]
        BY <1>0, <2>1, <3>1 DEF TypeOK
      <4> QED BY <2>3, <4>1 DEF Replaced
    <3>3. d = Doc("SALE_PAYMENT", b, d.n)
      BY <3>1, <3>2 DEF Docs, Doc
    <3>4. d \in Payments(b, bill[b].legs)
      BY <3>1, <3>2, <3>3 DEF Payments
    <3> QED BY <3>4 DEF Rebook, Tasks
  <2> QED BY <2>1, <2>2, <2>3, LeavingStart
<1>4. ASSUME NEW r \in Requests, AskVoid(r) \/ AbortVoid(r)
      PROVE  Leaving'
  <2>1. PICK tasks : Start(r, tasks)
    BY <1>4 DEF AskVoid, AbortVoid
  <2>2. /\ UNCHANGED <<bill, books, reversed, faults, aged, tangled>> /\ r \in Workers
        /\ Free(r) \/ Voiding(r)
    BY <1>4 DEF AskVoid, AbortVoid, Workers
  <2> QED BY <2>1, <2>2, LeavingStart, NotReplaced
<1>5. ASSUME NEW r \in Requests, CommitVoid(r)
      PROVE  Leaving'
  <2>1. PICK u \in work[r] :
          /\ u.act = "void"
          /\ bill' = [bill EXCEPT ![u.bill].status = "VOIDED"]
          /\ \E tasks : Start(r, tasks)
    BY <1>5 DEF CommitVoid
  <2>2. UNCHANGED <<books, reversed, faults, aged, tangled>> /\ r \in Workers /\ Voiding(r)
    BY <1>5, <2>1 DEF CommitVoid, Workers, Voiding
  <2>3. ASSUME NEW d \in books, Replaced(d)'
        PROVE  Replaced(d)
    <3>1. d.bill \in Bills /\ bill[d.bill] \in BillRow
      BY <1>0, DocIs, RowIs
    <3>2. bill'[d.bill].legs = bill[d.bill].legs
      BY <1>0, <2>1, <3>1 DEF TypeOK, BillRow
    <3> QED BY <2>3, <3>2 DEF Replaced
  <2> QED BY <2>1, <2>2, <2>3, LeavingStart
<1>6. ASSUME NEW v \in Workers, Post(v)
      PROVE  Leaving'
  <2>1. PICK t \in work[v] :
          /\ books' = IF t.act = "post" THEN books \cup {t.doc} ELSE books
          /\ reversed' = IF t.act = "undo" THEN Undone(reversed, t.doc) ELSE reversed
          /\ Start(v, work[v] \ {t})
    BY <1>6 DEF Post, First
  <2>2. UNCHANGED <<bill, faults, aged, tangled>> /\ TaskFits(t)
    BY <1>6 DEF Post, Books
  <2>3. \A w \in Workers : work'[w] = IF w = v THEN work[v] \ {t} ELSE work[w]
    BY <1>0, <2>1, StartIs
  <2> SUFFICES ASSUME faults = 0, NEW d \in (books' \ reversed') \ tangled, Replaced(d)
               PROVE  \E w \in Workers : Task("undo", "rebook", d) \in work'[w]
    BY <2>2, NotReplaced DEF Leaving, Undoing
  <2>4. d \in books
    BY <2>1, <2>2 DEF TaskFits
  <2>5. d \notin reversed
    BY <2>1 DEF Undone
  <2>6. PICK w \in Workers : Task("undo", "rebook", d) \in work[w]
    BY <2>4, <2>5 DEF Leaving, Undoing
  <2>7. t # Task("undo", "rebook", d)
    <3>1. Task("undo", "rebook", d).act = "undo" /\ Task("undo", "rebook", d).doc = d
      BY DEF Task
    <3> QED BY <2>1, <2>4, <3>1 DEF Undone
  <2> QED BY <2>3, <2>6, <2>7
<1>7. ASSUME NEW s \in Scans, StartScan(s) \/ RetryBill(s)
      PROVE  Leaving'
  <2>1. PICK tasks : Start(s, tasks)
    BY <1>7 DEF StartScan, RetryBill
  <2>2. UNCHANGED <<bill, books, reversed, faults, aged, tangled>> /\ s \in Workers /\ Free(s)
    BY <1>7 DEF StartScan, RetryBill, Workers
  <2> QED BY <2>1, <2>2, LeavingStart, NotReplaced
<1>8. ASSUME Crash \/ \E v \in Workers : Fail(v)
      PROVE  Leaving'
  <2>1. faults \in Nat /\ faults' = faults + 1
    BY <1>0, <1>8, ConstantsAssumption DEF TypeOK, Crash, Fail
  <2> QED BY <2>1 DEF Leaving
<1>9. CASE UNCHANGED vars
  BY <1>9 DEF vars, Leaving, Undoing, Replaced
<1>10. CASE GrowOld
  BY <1>10 DEF GrowOld, Leaving, Undoing, Replaced
<1> QED BY <1>1, <1>2, <1>3, <1>4, <1>5, <1>6, <1>7, <1>8, <1>9, <1>10 DEF Next

\* When nothing fails, a leg that has been replaced is in the books only until its reversal, which
\* is planned and is not forgotten.
THEOREM ReplacedLegs == Spec => []ReplacedLegLeavesBooks
<1>1. Init => Leaving
  BY DEF Init, Leaving
<1>2. Leaving => ReplacedLegLeavesBooks
  BY DEF Leaving, Undoing, Replaced, ReplacedLegLeavesBooks
<1> QED BY <1>1, <1>2, BooksInit, BooksNext, LeavingNext, PTL DEF Spec
=============================================================================
