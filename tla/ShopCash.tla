------------------------------- MODULE ShopCash -------------------------------
(***************************************************************************)
(* The cash of one branch on one day: shifts that are opened, counted and  *)
(* closed (ShiftsService, src/backend/src/shifts/), the session of the     *)
(* cash drawer that is counted on its own (CashDrawerService,              *)
(* src/backend/src/cash-drawer/), and the cash expenses that both must     *)
(* agree with (ExpensesService, src/backend/src/expenses/), each with its  *)
(* entry in the drawer ledger (AccountingService.record).                  *)
(*                                                                         *)
(* A shift is counted from the rows that point to it, a drawer session     *)
(* from the ledger.  Both are read before the transaction that closes, and *)
(* an expense reads its shift before its own.  Every amount is one, opening *)
(* balances are zero: what a shift or session should hold is below zero by *)
(* the expenses paid from it.                                              *)
(***************************************************************************)
EXTENDS Integers, FiniteSets

CONSTANTS
  Shifts,    \* shift ids of the branch
  Sessions,  \* drawer session ids of the branch
  Expenses,  \* expense ids
  Requests,  \* requests under way
  Nobody     \* no shift, no session

ASSUME ConstantsAssumption ==
  /\ Nobody \notin Shifts \cup Sessions
  /\ IsFiniteSet(Expenses)

VARIABLES
  shift,      \* Shift rows: status, and the expected balance the close went by
  session,    \* CashDrawerSession rows: status and expectedAmount
  expense,    \* Expense rows
  drawer,     \* CashDrawerTransaction rows
  req,        \* what each request has read
  raced,      \* expenses made or voided while their shift was being closed, or after
  late,       \* ledger entries made while their session was being closed, or after
  contested   \* sessions two requests have closed at once

cashVars == <<shift, session, expense, drawer, req, raced, late, contested>>

NoShift == [status |-> "NONE", expected |-> 0]
NoExpense == [status |-> "NONE", shift |-> Nobody]
Idle == [op |-> "IDLE"]

Init ==
  /\ shift = [s \in Shifts |-> NoShift]
  /\ session = [d \in Sessions |-> NoShift]
  /\ expense = [e \in Expenses |-> NoExpense]
  /\ drawer = {}
  /\ req = [r \in Requests |-> Idle]
  /\ raced = {}
  /\ late = {}
  /\ contested = {}

Is(r, op) == req[r].op = op
Tell(r, message) == req' = [req EXCEPT ![r] = message]
Done(r) == Tell(r, Idle)
InStatus(rows, ids, status) == {x \in ids : rows[x].status = status}

\* The open ones, Nobody when there is none
OpenShifts == InStatus(shift, Shifts, "OPEN")
OpenSessions == InStatus(session, Sessions, "OPEN")
FoundIn(ids) == IF ids = {} THEN {Nobody} ELSE ids

-----------------------------------------------------------------------------
(* Shifts                                                                  *)

\* Mutant: only the opener's own shifts are looked at
BranchFreeUnchecked == TRUE

BranchFree == OpenShifts = {}

\* openShift: under the lock of the branch, only when no shift of the branch is open; then, after
\* the commit, the drawer gets a session
OpenShift(r) ==
  /\ Is(r, "IDLE")
  /\ BranchFree
  /\ \E s \in Shifts :
       /\ shift[s].status = "NONE"
       /\ shift' = [shift EXCEPT ![s].status = "OPEN"]
  /\ Tell(r, [op |-> "DRAWER"])
  /\ UNCHANGED <<session, expense, drawer, raced, late, contested>>

\* A session that is open already is left alone
FindSession(r) ==
  /\ Is(r, "DRAWER")
  /\ Tell(r, IF OpenSessions = {} THEN [op |-> "NEW_SESSION"] ELSE Idle)
  /\ UNCHANGED <<shift, session, expense, drawer, raced, late, contested>>

\* openSession, by hand
AskOpenSession(r) ==
  /\ Is(r, "IDLE")
  /\ OpenSessions = {}
  /\ Tell(r, [op |-> "NEW_SESSION"])
  /\ UNCHANGED <<shift, session, expense, drawer, raced, late, contested>>

\* Both make it without looking again
OpenSession(r) ==
  /\ Is(r, "NEW_SESSION")
  /\ \E d \in InStatus(session, Sessions, "NONE") :
       session' = [session EXCEPT ![d].status = "OPEN"]
  /\ Done(r)
  /\ UNCHANGED <<shift, expense, drawer, raced, late, contested>>

OfShift(s) == {e \in Expenses : expense[e].shift = s}

\* Mutant: voided expenses still count
ShiftTotalVoided(s) == -Cardinality(OfShift(s))

\* computeShiftTotals: the cash expenses of the shift that are not voided
ShiftTotal(s) == -Cardinality({e \in OfShift(s) : expense[e].status = "LIVE"})

AskCloseShift(r) ==
  /\ Is(r, "IDLE")
  /\ \E s \in OpenShifts : Tell(r, [op |-> "CLOSE_SHIFT", shift |-> s, expected |-> ShiftTotal(s)])
  /\ UNCHANGED <<shift, session, expense, drawer, raced, late, contested>>

\* Mutant: whoever counts last is right
StillOpenUnchecked(s) == TRUE

\* Only one close wins: the update has isActive in its condition
StillOpen(s) == shift[s].status = "OPEN"

CloseShift(r) ==
  LET s == req[r].shift IN
  /\ Is(r, "CLOSE_SHIFT")
  /\ shift' = IF StillOpen(s) THEN [shift EXCEPT ![s] = [status |-> "CLOSED", expected |-> req[r].expected]]
              ELSE shift
  /\ Done(r)
  /\ UNCHANGED <<session, expense, drawer, raced, late, contested>>

-----------------------------------------------------------------------------
(* Drawer sessions                                                         *)

In(entries, dir) == {x \in entries : x.dir = dir}
Net(entries) == Cardinality(In(entries, "IN")) - Cardinality(In(entries, "OUT"))
Entries(d) == {x \in drawer : x.session = d}

\* Mutant: what came back is not counted
DrawerTotalOut(d) == -Cardinality(In(Entries(d), "OUT"))

\* computeExpected
DrawerTotal(d) == Net(Entries(d))

\* Mutant: a session that has been closed can be counted again
CountableAgain(d) == session[d].status # "NONE"

Countable(d) == session[d].status = "OPEN"

ClosingSession(d) == {r \in Requests : Is(r, "CLOSE_SESSION") /\ req[r].session = d}
ClosingShift(s) == {r \in Requests : Is(r, "CLOSE_SHIFT") /\ req[r].shift = s}

\* A difference waits for approval unless who counts may approve it
AskCloseSession(r) ==
  /\ Is(r, "IDLE")
  /\ \E d \in Sessions, status \in {"CLOSED", "PENDING_APPROVAL"} :
       /\ Countable(d)
       /\ Tell(r, [op |-> "CLOSE_SESSION", session |-> d, status |-> status, expected |-> DrawerTotal(d)])
       /\ contested' = IF ClosingSession(d) = {} THEN contested ELSE contested \cup {d}
  /\ UNCHANGED <<shift, session, expense, drawer, raced, late>>

\* closeSession updates without a condition
CloseSession(r) ==
  /\ Is(r, "CLOSE_SESSION")
  /\ session' = [session EXCEPT ![req[r].session] =
                   [status |-> req[r].status, expected |-> req[r].expected]]
  /\ Done(r)
  /\ UNCHANGED <<shift, expense, drawer, raced, late, contested>>

ApproveDifference(d) ==
  /\ session[d].status = "PENDING_APPROVAL"
  /\ session' = [session EXCEPT ![d].status = "CLOSED"]
  /\ UNCHANGED <<shift, expense, drawer, req, raced, late, contested>>

-----------------------------------------------------------------------------
(* Expenses                                                                *)

\* createRecorded reads the shift of who enters it; an owner may be in none
AskCreate(r) ==
  /\ Is(r, "IDLE")
  /\ \E s \in OpenShifts \cup {Nobody} : Tell(r, [op |-> "CREATE", shift |-> s])
  /\ UNCHANGED <<shift, session, expense, drawer, raced, late, contested>>

\* In its transaction it looks for the open session of the branch
FindForCreate(r) ==
  /\ Is(r, "CREATE")
  /\ \E d \in FoundIn(OpenSessions) : Tell(r, [op |-> "PAY", shift |-> req[r].shift, session |-> d])
  /\ UNCHANGED <<shift, session, expense, drawer, raced, late, contested>>

\* Mutant: an entry of its own for every request
OccurrenceEach(e, kind) == Cardinality({x \in drawer : x.expense = e /\ x.kind = kind}) + 1

\* keyFor: an expense has one entry of a kind
Occurrence(e, kind) == 1

Entry(e, kind, dir, d) ==
  [expense |-> e, kind |-> kind, dir |-> dir, session |-> d, occurrence |-> Occurrence(e, kind)]

\* record: an entry whose key is there already is not written again
Recorded(x) ==
  IF \E y \in drawer : y.expense = x.expense /\ y.kind = x.kind /\ y.occurrence = x.occurrence
  THEN drawer ELSE drawer \cup {x}

\* A transaction changes an expense of a shift and writes an entry in a session
Write(e, s, x) ==
  /\ drawer' = Recorded(x)
  /\ raced' = IF s # Nobody /\ (ClosingShift(s) # {} \/ shift[s].status # "OPEN")
              THEN raced \cup {e} ELSE raced
  /\ late' = IF x.session # Nobody /\ (ClosingSession(x.session) # {} \/ session[x.session].status # "OPEN")
             THEN late \cup ({x} \cap drawer') ELSE late

Create(r, e) ==
  LET m == req[r] IN
  /\ Is(r, "PAY")
  /\ expense[e].status = "NONE"
  /\ expense' = [expense EXCEPT ![e] = [status |-> "LIVE", shift |-> m.shift]]
  /\ Write(e, m.shift, Entry(e, "PAYMENT", "OUT", m.session))
  /\ Done(r)
  /\ UNCHANGED <<shift, session, contested>>

\* voidExpense reads the expense before its transaction
AskVoid(r) ==
  /\ Is(r, "IDLE")
  /\ \E e \in InStatus(expense, Expenses, "LIVE") : Tell(r, [op |-> "VOID", expense |-> e])
  /\ UNCHANGED <<shift, session, expense, drawer, raced, late, contested>>

\* The update locks the row until the commit; then record looks for the open session
FindForVoid(r) ==
  LET e == req[r].expense IN
  /\ Is(r, "VOID")
  /\ ~\E q \in Requests : Is(q, "GIVE_BACK") /\ req[q].expense = e
  /\ \E d \in FoundIn(OpenSessions) : Tell(r, [op |-> "GIVE_BACK", expense |-> e, session |-> d])
  /\ UNCHANGED <<shift, session, expense, drawer, raced, late, contested>>

Void(r) ==
  LET e == req[r].expense IN
  /\ Is(r, "GIVE_BACK")
  /\ expense' = [expense EXCEPT ![e].status = "VOIDED"]
  /\ Write(e, expense[e].shift, Entry(e, "REVERSAL", "IN", req[r].session))
  /\ Done(r)
  /\ UNCHANGED <<shift, session, contested>>

\* A request fails before its commit
Abort(r) ==
  /\ ~Is(r, "IDLE")
  /\ Done(r)
  /\ UNCHANGED <<shift, session, expense, drawer, raced, late, contested>>

ShopStep(r) ==
  \/ OpenShift(r) \/ FindSession(r) \/ AskOpenSession(r) \/ OpenSession(r) \/ AskCloseShift(r) \/ CloseShift(r)
  \/ AskCloseSession(r) \/ CloseSession(r)
  \/ AskCreate(r) \/ FindForCreate(r) \/ (\E e \in Expenses : Create(r, e))
  \/ AskVoid(r) \/ FindForVoid(r) \/ Void(r) \/ Abort(r)

Next ==
  \/ \E r \in Requests : ShopStep(r)
  \/ \E d \in Sessions : ApproveDifference(d)

Spec == Init /\ [][Next]_cashVars

-----------------------------------------------------------------------------
(* Properties                                                              *)

ShiftStatuses == {"NONE", "OPEN", "CLOSED"}
SessionStatuses == ShiftStatuses \cup {"PENDING_APPROVAL"}
ExpenseStatuses == {"NONE", "LIVE", "VOIDED"}
Drawers == Sessions \cup {Nobody}

LedgerEntry ==
  [expense : Expenses, kind : {"PAYMENT", "REVERSAL"}, dir : {"IN", "OUT"}, session : Drawers,
   occurrence : Nat]

Request ==
  [op : {"IDLE", "DRAWER", "NEW_SESSION"}]
  \cup [op : {"CLOSE_SHIFT"}, shift : Shifts, expected : Int]
  \cup [op : {"CLOSE_SESSION"}, session : Sessions, status : {"CLOSED", "PENDING_APPROVAL"},
        expected : Int]
  \cup [op : {"CREATE"}, shift : Shifts \cup {Nobody}]
  \cup [op : {"PAY"}, shift : Shifts \cup {Nobody}, session : Drawers]
  \cup [op : {"VOID"}, expense : Expenses]
  \cup [op : {"GIVE_BACK"}, expense : Expenses, session : Drawers]

\* The rows are well formed, and no two shifts of the branch are open at once.
TypeOK ==
  /\ shift \in [Shifts -> [status : ShiftStatuses, expected : Int]]
  /\ session \in [Sessions -> [status : SessionStatuses, expected : Int]]
  /\ expense \in [Expenses -> [status : ExpenseStatuses, shift : Shifts \cup {Nobody}]]
  /\ drawer \subseteq LedgerEntry
  /\ req \in [Requests -> Request]
  /\ raced \subseteq Expenses
  /\ late \subseteq drawer
  /\ contested \subseteq Sessions
  /\ \A s, t \in OpenShifts : s = t

\* An expense has taken its cash out of the drawer once, and a voided one has put it back once,
\* however many people void it and whichever session is open by then.
DrawerMatchesExpenses ==
  \A e \in Expenses :
    LET entries(kind) == Cardinality({x \in drawer : x.expense = e /\ x.kind = kind}) IN
    /\ entries("PAYMENT") = (IF expense[e].status = "NONE" THEN 0 ELSE 1)
    /\ entries("REVERSAL") = (IF expense[e].status = "VOIDED" THEN 1 ELSE 0)

\* The balance a closed shift was judged by is that of its expenses; it is off by no more than the
\* expenses that were made or voided while it was being closed, or later.
ShiftCountExplained ==
  \A s \in InStatus(shift, Shifts, "CLOSED") :
    LET settled == {e \in OfShift(s) \ raced : expense[e].status = "LIVE"} IN
    -shift[s].expected \in
      Cardinality(settled)..(Cardinality(settled) + Cardinality(OfShift(s) \cap raced))

\* The amount a drawer session was counted against is that of its ledger, but for the entries that
\* came while it was being closed, or later.
DrawerCountExplained ==
  \A d \in InStatus(session, Sessions, "CLOSED") :
    LET missing == Entries(d) \cap late
        off == session[d].expected - Net(Entries(d) \ missing) IN
    off \in -Cardinality(missing)..Cardinality(missing)

\* Two people who close one shift do not overwrite each other's count.
CountedOnce ==
  [][\A s \in Shifts : shift[s].status = "CLOSED" => shift'[s] = shift[s]]_cashVars

\* A drawer session that is closed stays as it was counted, unless two requests closed it at once.
ClosedSessionStands ==
  [][\A d \in Sessions \ contested : session[d].status = "CLOSED" => session'[d] = session[d]]_cashVars
=============================================================================
