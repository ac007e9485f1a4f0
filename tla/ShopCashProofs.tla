--------------------------- MODULE ShopCashProofs ---------------------------
(***************************************************************************)
(* Proofs about ShopCash, for any number of shifts, drawer sessions,       *)
(* expenses and requests.  Cash is the invariant: the rows are well        *)
(* formed, an expense has one ledger entry of a kind and has it when its   *)
(* status says so, and who closes a session nobody else is closing finds   *)
(* it open.  Counts is the invariant of the closes: every balance a shift  *)
(* or session was closed by, or that a request still holds, is explained.  *)
(***************************************************************************)
EXTENDS ShopCash, TLAPS, FiniteSetTheorems

ShiftRow == [status : ShiftStatuses, expected : Int]
SessionRow == [status : SessionStatuses, expected : Int]
ExpenseRow == [status : ExpenseStatuses, shift : Shifts \cup {Nobody}]

HasEntry(e, kind) == \E x \in drawer : x.expense = e /\ x.kind = kind

\* An expense has at most one entry of a kind
OneEntry ==
  /\ \A x, y \in drawer : x.expense = y.expense /\ x.kind = y.kind => x = y
  /\ \A x \in drawer : x.occurrence = 1

\* It has the entries its status asks for
EntriesFit ==
  \A e \in Expenses :
    /\ HasEntry(e, "PAYMENT") <=> expense[e].status # "NONE"
    /\ HasEntry(e, "REVERSAL") <=> expense[e].status = "VOIDED"

\* A request to void is about an expense that has been made
VoidsFit ==
  \A r \in Requests : req[r].op \in {"VOID", "GIVE_BACK"} => expense[req[r].expense].status # "NONE"

\* Only one request closes a session, and it will find it open, unless two asked at once
ClosesFit ==
  \A d \in Sessions \ contested :
    /\ \A q, r \in ClosingSession(d) : q = r
    /\ ClosingSession(d) # {} => session[d].status = "OPEN"

Cash ==
  /\ TypeOK
  /\ IsFiniteSet(drawer)
  /\ OneEntry
  /\ EntriesFit
  /\ VoidsFit
  /\ ClosesFit

-----------------------------------------------------------------------------
(* Rows, messages and amounts                                              *)

\* What a request remembers, operation by operation.
LEMMA RequestIs ==
  ASSUME TypeOK, NEW r \in Requests
  PROVE  /\ req[r] \in Request
         /\ Is(r, "CLOSE_SHIFT") => req[r].shift \in Shifts /\ req[r].expected \in Int
         /\ Is(r, "CLOSE_SESSION") =>
              /\ req[r].session \in Sessions /\ req[r].expected \in Int
              /\ req[r].status \in {"CLOSED", "PENDING_APPROVAL"}
         /\ Is(r, "CREATE") \/ Is(r, "PAY") => req[r].shift \in Shifts \cup {Nobody}
         /\ Is(r, "PAY") \/ Is(r, "GIVE_BACK") => req[r].session \in Drawers
         /\ Is(r, "VOID") \/ Is(r, "GIVE_BACK") => req[r].expense \in Expenses
<1>1. req[r] \in Request
  BY DEF TypeOK
<1> QED BY <1>1 DEF Request, Is

\* The messages are well formed.
LEMMA MessageIs ==
  ASSUME NEW s \in Shifts, NEW s0 \in Shifts \cup {Nobody}, NEW d \in Sessions, NEW d0 \in Drawers,
         NEW e \in Expenses, NEW n \in Int, NEW status \in {"CLOSED", "PENDING_APPROVAL"}
  PROVE  /\ Idle \in Request /\ [op |-> "DRAWER"] \in Request /\ [op |-> "NEW_SESSION"] \in Request
         /\ [op |-> "CLOSE_SHIFT", shift |-> s, expected |-> n] \in Request
         /\ [op |-> "CLOSE_SESSION", session |-> d, status |-> status, expected |-> n] \in Request
         /\ [op |-> "CREATE", shift |-> s0] \in Request
         /\ [op |-> "PAY", shift |-> s0, session |-> d0] \in Request
         /\ [op |-> "VOID", expense |-> e] \in Request
         /\ [op |-> "GIVE_BACK", expense |-> e, session |-> d0] \in Request
BY DEF Request, Idle

\* What a shift or a session should hold is a number.
LEMMA AmountIs ==
  ASSUME IsFiniteSet(drawer), NEW s, NEW d
  PROVE  ShiftTotal(s) \in Int /\ DrawerTotal(d) \in Int
<1>1. \A S \in SUBSET Expenses : Cardinality(S) \in Nat
  BY ConstantsAssumption, FS_Subset, FS_CardinalityType
<1>2. \A S \in SUBSET drawer : Cardinality(S) \in Nat
  BY FS_Subset, FS_CardinalityType
<1>3. {e \in OfShift(s) : expense[e].status = "LIVE"} \in SUBSET Expenses
  BY DEF OfShift
<1>4. In(Entries(d), "IN") \in SUBSET drawer /\ In(Entries(d), "OUT") \in SUBSET drawer
  BY DEF In, Entries
<1>5. ShiftTotal(s) \in Int
  BY <1>1, <1>3 DEF ShiftTotal
<1>6. DrawerTotal(d) \in Int
  BY <1>2, <1>4 DEF DrawerTotal, Net
<1> QED BY <1>5, <1>6

\* What the requests remember after one has been told something.
LEMMA TellIs ==
  ASSUME TypeOK, NEW r \in Requests, NEW m, Tell(r, m)
  PROVE  /\ \A q \in Requests : req'[q] = IF q = r THEN m ELSE req[q]
         /\ m \in Request => req' \in [Requests -> Request]
BY DEF Tell, TypeOK

\* Rows that are found by their status.
LEMMA FoundIs ==
  ASSUME TypeOK
  PROVE  /\ OpenShifts \subseteq Shifts /\ OpenSessions \subseteq Sessions
         /\ FoundIn(OpenSessions) \subseteq Drawers
BY DEF OpenShifts, OpenSessions, InStatus, FoundIn, Drawers
-----------------------------------------------------------------------------
(* The steps that leave expenses and ledger alone                          *)

ShiftsFit == shift \in [Shifts -> ShiftRow] /\ \A s, t \in OpenShifts : s = t
SessionsFit == session \in [Sessions -> SessionRow]

\* The rows of shifts and sessions.
LEMMA RowsAre ==
  ASSUME TypeOK
  PROVE  /\ ShiftsFit /\ SessionsFit
         /\ \A s \in Shifts : shift[s] \in ShiftRow /\ shift[s].expected \in Int
         /\ \A d \in Sessions : session[d] \in SessionRow /\ session[d].expected \in Int
BY DEF TypeOK, ShiftsFit, SessionsFit, ShiftRow, SessionRow

\* A step that leaves expenses and ledger alone keeps Cash when what it tells a request fits.
LEMMA Quiet ==
  ASSUME Cash, NEW r \in Requests, NEW m \in Request, Tell(r, m),
         UNCHANGED <<expense, drawer, raced, late>>,
         ShiftsFit', SessionsFit', contested' \subseteq Sessions, ClosesFit',
         m.op \in {"VOID", "GIVE_BACK"} => expense[m.expense].status # "NONE"
  PROVE  Cash'
<1>1. TypeOK
  BY DEF Cash
<1>2. req' \in [Requests -> Request] /\ \A q \in Requests : req'[q] = IF q = r THEN m ELSE req[q]
  BY <1>1, TellIs
<1>3. TypeOK'
  BY <1>1, <1>2 DEF TypeOK, ShiftsFit, SessionsFit, ShiftRow, SessionRow
<1>4. VoidsFit'
  BY <1>2 DEF Cash, VoidsFit
<1>5. IsFiniteSet(drawer)' /\ OneEntry'
  BY DEF Cash, OneEntry
<1>6. EntriesFit'
  BY DEF Cash, EntriesFit, HasEntry
<1> QED BY <1>3, <1>4, <1>5, <1>6 DEF Cash

\* Who closes a session finds it open as before.
LEMMA ClosesStay ==
  ASSUME TypeOK, ClosesFit, NEW r \in Requests, NEW m, Tell(r, m), m.op # "CLOSE_SESSION", contested' = contested,
         \A d \in Sessions : session[d].status = "OPEN" => session'[d].status = "OPEN"
  PROVE  ClosesFit'
<1>1. \A q \in Requests : req'[q] = IF q = r THEN m ELSE req[q]
  BY TellIs
<1>2. ASSUME NEW d \in Sessions, NEW q \in ClosingSession(d)'
      PROVE  q \in ClosingSession(d)
  BY <1>1 DEF ClosingSession, Is
<1> QED BY <1>2 DEF ClosesFit

\* A message that neither closes a session nor voids an expense keeps Cash.
LEMMA Plain ==
  ASSUME Cash, NEW r \in Requests, NEW m \in Request, Tell(r, m), m.op \notin {"CLOSE_SESSION", "VOID", "GIVE_BACK"},
         UNCHANGED <<expense, drawer, raced, late, contested>>, ShiftsFit', SessionsFit',
         \A d \in Sessions : session[d].status = "OPEN" => session'[d].status = "OPEN"
  PROVE  Cash'
<1>1. TypeOK /\ ClosesFit /\ contested \subseteq Sessions
  BY DEF Cash, TypeOK
<1>2. ClosesFit'
  BY <1>1, ClosesStay
<1> QED BY <1>1, <1>2, Quiet

\* A request that does nothing to shifts and sessions leaves them well formed.
LEMMA SameRows ==
  ASSUME TypeOK, UNCHANGED <<shift, session>>
  PROVE  ShiftsFit' /\ SessionsFit'
BY RowsAre DEF ShiftsFit, SessionsFit, OpenShifts, InStatus

\* Opening a shift keeps Cash.
LEMMA OpenShiftStep ==
  ASSUME Cash, NEW r \in Requests, OpenShift(r)
  PROVE  Cash'
<1>1. PICK s \in Shifts : shift' = [shift EXCEPT ![s].status = "OPEN"]
  BY DEF OpenShift
<1>2. /\ Tell(r, [op |-> "DRAWER"]) /\ OpenShifts = {} /\ TypeOK
      /\ UNCHANGED <<session, expense, drawer, raced, late, contested>>
  BY DEF OpenShift, BranchFree, Cash
<1>3. shift \in [Shifts -> ShiftRow] /\ SessionsFit
  BY <1>2, RowsAre DEF ShiftsFit
<1>4. shift' \in [Shifts -> ShiftRow]
  BY <1>1, <1>3 DEF ShiftRow, ShiftStatuses
<1>5. \A t \in Shifts \ {s} : shift'[t].status # "OPEN"
  BY <1>1, <1>2, <1>3 DEF OpenShifts, InStatus
<1>6. ShiftsFit'
  BY <1>4, <1>5 DEF ShiftsFit, OpenShifts, InStatus
<1>7. SessionsFit'
  BY <1>2, <1>3 DEF SessionsFit
<1>8. [op |-> "DRAWER"] \in Request
  BY DEF Request
<1> QED BY <1>2, <1>6, <1>7, <1>8, Plain

\* Finding no session, asking for one, and making it keep Cash.
LEMMA OpenSessionStep ==
  ASSUME Cash, NEW r \in Requests, FindSession(r) \/ AskOpenSession(r) \/ OpenSession(r)
  PROVE  Cash'
<1>1. TypeOK /\ [op |-> "NEW_SESSION"] \in Request /\ Idle \in Request
  BY DEF Cash, Request, Idle
<1>2. CASE FindSession(r) \/ AskOpenSession(r)
  <2>1. PICK m \in {[op |-> "NEW_SESSION"], Idle} : Tell(r, m)
    BY <1>2 DEF FindSession, AskOpenSession
  <2>2. UNCHANGED <<shift, session, expense, drawer, raced, late, contested>>
    BY <1>2 DEF FindSession, AskOpenSession
  <2>3. m \in Request /\ m.op \notin {"CLOSE_SESSION", "VOID", "GIVE_BACK"}
    BY <1>1, <2>1 DEF Idle
  <2> QED BY <1>1, <2>1, <2>2, <2>3, SameRows, Plain
<1>3. CASE OpenSession(r)
  <2>1. PICK d \in Sessions : session' = [session EXCEPT ![d].status = "OPEN"]
    BY <1>3 DEF OpenSession, InStatus
  <2>2. Tell(r, Idle) /\ UNCHANGED <<shift, expense, drawer, raced, late, contested>>
    BY <1>3 DEF OpenSession, Done
  <2>3. ShiftsFit /\ session \in [Sessions -> SessionRow]
    BY <1>1, RowsAre DEF SessionsFit
  <2>4. session' \in [Sessions -> SessionRow]
    BY <2>1, <2>3 DEF SessionRow, SessionStatuses, ShiftStatuses
  <2>5. \A c \in Sessions : session[c].status = "OPEN" => session'[c].status = "OPEN"
    BY <2>1, <2>3 DEF SessionRow
  <2>6. ShiftsFit'
    BY <2>2, <2>3 DEF ShiftsFit, OpenShifts, InStatus
  <2>7. Idle.op \notin {"CLOSE_SESSION", "VOID", "GIVE_BACK"}
    BY DEF Idle
  <2> QED BY <1>1, <2>2, <2>4, <2>5, <2>6, <2>7, Plain DEF SessionsFit
<1> QED BY <1>2, <1>3

\* Counting and closing a shift keep Cash.
LEMMA CloseShiftStep ==
  ASSUME Cash, NEW r \in Requests, AskCloseShift(r) \/ CloseShift(r)
  PROVE  Cash'
<1>1. TypeOK /\ IsFiniteSet(drawer) /\ Idle \in Request /\ Idle.op = "IDLE"
  BY DEF Cash, Request, Idle
<1>2. CASE AskCloseShift(r)
  <2>1. PICK s \in OpenShifts : Tell(r, [op |-> "CLOSE_SHIFT", shift |-> s, expected |-> ShiftTotal(s)])
    BY <1>2 DEF AskCloseShift
  <2>2. UNCHANGED <<shift, session, expense, drawer, raced, late, contested>>
    BY <1>2 DEF AskCloseShift
  <2>3. s \in Shifts /\ ShiftTotal(s) \in Int
    BY <1>1, FoundIs, AmountIs
  <2>4. [op |-> "CLOSE_SHIFT", shift |-> s, expected |-> ShiftTotal(s)] \in Request
    BY <2>3 DEF Request
  <2> QED BY <1>1, <2>1, <2>2, <2>4, SameRows, Plain
<1>3. CASE CloseShift(r)
  <2> DEFINE s == req[r].shift
             n == req[r].expected
  <2>1. s \in Shifts /\ n \in Int
    BY <1>1, <1>3, RequestIs DEF CloseShift
  <2>2. /\ shift' = shift \/ shift' = [shift EXCEPT ![s] = [status |-> "CLOSED", expected |-> n]]
        /\ Tell(r, Idle) /\ UNCHANGED <<session, expense, drawer, raced, late, contested>>
    BY <1>3 DEF CloseShift, Done
  <2> HIDE DEF s, n
  <2>3. shift \in [Shifts -> ShiftRow] /\ SessionsFit /\ \A t, u \in OpenShifts : t = u
    BY <1>1, RowsAre DEF ShiftsFit
  <2>4. [status |-> "CLOSED", expected |-> n] \in ShiftRow
    BY <2>1 DEF ShiftRow, ShiftStatuses
  <2>5. shift' \in [Shifts -> ShiftRow]
    BY <2>1, <2>2, <2>3, <2>4
  <2>6. \A t \in Shifts : shift'[t].status = "OPEN" => shift[t].status = "OPEN"
    BY <2>1, <2>2, <2>3
  <2>7. ShiftsFit'
    BY <2>3, <2>5, <2>6 DEF ShiftsFit, OpenShifts, InStatus
  <2>8. SessionsFit'
    BY <2>2, <2>3 DEF SessionsFit
  <2> QED BY <1>1, <2>2, <2>7, <2>8, Plain
<1> QED BY <1>2, <1>3

\* Counting a session keeps Cash: who counts it while another does contests it.
LEMMA AskCloseSessionStep ==
  ASSUME Cash, NEW r \in Requests, AskCloseSession(r)
  PROVE  Cash'
<1>1. PICK d \in Sessions, status \in {"CLOSED", "PENDING_APPROVAL"} :
        /\ Countable(d)
        /\ Tell(r, [op |-> "CLOSE_SESSION", session |-> d, status |-> status, expected |-> DrawerTotal(d)])
        /\ contested' = IF ClosingSession(d) = {} THEN contested ELSE contested \cup {d}
  BY DEF AskCloseSession
<1>2. /\ UNCHANGED <<shift, session, expense, drawer, raced, late>>
      /\ TypeOK /\ IsFiniteSet(drawer) /\ contested \subseteq Sessions /\ ClosesFit
  BY DEF AskCloseSession, Cash, TypeOK
<1> DEFINE m == [op |-> "CLOSE_SESSION", session |-> d, status |-> status, expected |-> DrawerTotal(d)]
<1>3. m \in Request /\ m.op = "CLOSE_SESSION" /\ m.session = d
  <2>1. DrawerTotal(d) \in Int
    BY <1>2, AmountIs
  <2> QED BY <2>1 DEF Request
<1>4. Tell(r, m)
  BY <1>1
<1> HIDE DEF m
<1>5. \A q \in Requests : req'[q] = IF q = r THEN m ELSE req[q]
  BY <1>2, <1>4, TellIs
<1>6. ClosesFit'
  <2> SUFFICES ASSUME NEW c \in Sessions \ contested'
               PROVE  /\ \A p, q \in ClosingSession(c)' : p = q
                      /\ ClosingSession(c)' # {} => session'[c].status = "OPEN"
    BY DEF ClosesFit
  <2>1. c \notin contested
    BY <1>1
  <2>2. CASE c = d
    <3>1. ClosingSession(d) = {}
      BY <1>1, <2>2
    <3>2. \A q \in ClosingSession(c)' : q = r
      BY <1>5, <2>2, <3>1 DEF ClosingSession, Is
    <3>3. session'[c].status = "OPEN"
      BY <1>1, <1>2, <2>2 DEF Countable
    <3> QED BY <3>2, <3>3
  <2>3. CASE c # d
    <3>1. \A q \in ClosingSession(c)' : q \in ClosingSession(c)
      BY <1>3, <1>5, <2>3 DEF ClosingSession, Is
    <3> QED BY <1>2, <2>1, <3>1 DEF ClosesFit
  <2> QED BY <2>2, <2>3
<1>7. contested' \subseteq Sessions
  BY <1>1, <1>2
<1> QED BY <1>2, <1>3, <1>4, <1>6, <1>7, SameRows, Quiet

\* Closing a session keeps Cash: nobody else is closing it, unless it is contested.
LEMMA CloseSessionStep ==
  ASSUME Cash, NEW r \in Requests, CloseSession(r)
  PROVE  Cash'
<1> DEFINE d == req[r].session
           row == [status |-> req[r].status, expected |-> req[r].expected]
<1>1. /\ UNCHANGED <<shift, expense, drawer, raced, late, contested>> /\ Tell(r, Idle)
      /\ TypeOK /\ contested \subseteq Sessions /\ ClosesFit /\ r \in ClosingSession(d)
      /\ Idle \in Request /\ Idle.op = "IDLE"
  BY DEF CloseSession, Cash, TypeOK, ClosingSession, Done, Request, Idle
<1>2. d \in Sessions /\ row \in SessionRow
  BY <1>1, RequestIs DEF CloseSession, SessionRow, SessionStatuses, ShiftStatuses
<1>3. session' = [session EXCEPT ![d] = row]
  BY DEF CloseSession
<1> HIDE DEF d, row
<1>4. ShiftsFit /\ session \in [Sessions -> SessionRow]
  BY <1>1, RowsAre DEF SessionsFit
<1>5. SessionsFit'
  BY <1>2, <1>3, <1>4 DEF SessionsFit
<1>6. ShiftsFit'
  BY <1>1, <1>4 DEF ShiftsFit, OpenShifts, InStatus
<1>7. \A q \in Requests : req'[q] = IF q = r THEN Idle ELSE req[q]
  BY <1>1, TellIs
<1>8. ClosesFit'
  <2> SUFFICES ASSUME NEW c \in Sessions \ contested
               PROVE  /\ \A p, q \in ClosingSession(c)' : p = q
                      /\ ClosingSession(c)' # {} => session'[c].status = "OPEN"
    BY <1>1 DEF ClosesFit
  <2>1. \A q \in ClosingSession(c)' : q \in ClosingSession(c) /\ q # r
    BY <1>1, <1>7 DEF ClosingSession, Is
  <2>2. CASE c = d
    BY <1>1, <2>1, <2>2 DEF ClosesFit
  <2>3. CASE c # d
    <3>1. session'[c] = session[c]
      BY <1>3, <1>4, <2>3
    <3> QED BY <1>1, <2>1, <3>1 DEF ClosesFit
  <2> QED BY <2>2, <2>3
<1> QED BY <1>1, <1>5, <1>6, <1>8, Quiet

\* Approving a difference keeps Cash: the session was counted, so it is not open.
LEMMA ApproveStep ==
  ASSUME Cash, NEW d \in Sessions, ApproveDifference(d)
  PROVE  Cash'
<1>1. /\ session[d].status = "PENDING_APPROVAL" /\ session' = [session EXCEPT ![d].status = "CLOSED"]
      /\ UNCHANGED <<shift, expense, drawer, req, raced, late, contested>> /\ TypeOK /\ ClosesFit
  BY DEF ApproveDifference, Cash
<1>2. ShiftsFit /\ session \in [Sessions -> SessionRow]
  BY <1>1, RowsAre DEF SessionsFit
<1>3. session' \in [Sessions -> SessionRow]
  BY <1>1, <1>2 DEF SessionRow, SessionStatuses, ShiftStatuses
<1>4. \A c \in Sessions : session[c].status = "OPEN" => session'[c].status = "OPEN"
  BY <1>1, <1>2 DEF SessionRow
<1>5. \A c \in Sessions : ClosingSession(c)' = ClosingSession(c)
  BY <1>1 DEF ClosingSession, Is
<1>6. ClosesFit'
  BY <1>1, <1>4, <1>5 DEF ClosesFit
<1>7. TypeOK'
  BY <1>1, <1>3 DEF TypeOK, SessionRow, OpenShifts, InStatus
<1>8. VoidsFit' /\ IsFiniteSet(drawer)' /\ OneEntry'
  BY <1>1 DEF Cash, VoidsFit, OneEntry
<1>9. EntriesFit'
  BY <1>1 DEF Cash, EntriesFit, HasEntry
<1> QED BY <1>6, <1>7, <1>8, <1>9 DEF Cash

\* Reading what an expense is made or voided with keeps Cash, and so does giving up.
LEMMA ReadStep ==
  ASSUME Cash, NEW r \in Requests,
         AskCreate(r) \/ FindForCreate(r) \/ AskVoid(r) \/ FindForVoid(r) \/ Abort(r)
  PROVE  Cash'
<1>1. /\ UNCHANGED <<shift, session, expense, drawer, raced, late, contested>>
      /\ TypeOK /\ ClosesFit /\ VoidsFit /\ contested \subseteq Sessions
  BY DEF AskCreate, FindForCreate, AskVoid, FindForVoid, Abort, Cash, TypeOK
<1>2. CASE AskCreate(r)
  <2>1. PICK s \in OpenShifts \cup {Nobody} : Tell(r, [op |-> "CREATE", shift |-> s])
    BY <1>2 DEF AskCreate
  <2>2. [op |-> "CREATE", shift |-> s] \in Request
    BY <1>1, FoundIs DEF Request
  <2> QED BY <1>1, <2>1, <2>2, SameRows, Plain
<1>3. CASE FindForCreate(r)
  <2>1. PICK d \in Drawers : Tell(r, [op |-> "PAY", shift |-> req[r].shift, session |-> d])
    BY <1>1, <1>3, FoundIs DEF FindForCreate
  <2>2. req[r].shift \in Shifts \cup {Nobody}
    BY <1>1, <1>3, RequestIs DEF FindForCreate
  <2>3. [op |-> "PAY", shift |-> req[r].shift, session |-> d] \in Request
    BY <2>2 DEF Request
  <2> QED BY <1>1, <2>1, <2>3, SameRows, Plain
<1>4. CASE AskVoid(r)
  <2>1. PICK e \in Expenses : expense[e].status = "LIVE" /\ Tell(r, [op |-> "VOID", expense |-> e])
    BY <1>4 DEF AskVoid, InStatus
  <2>2. [op |-> "VOID", expense |-> e] \in Request
    BY DEF Request
  <2>3. ClosesFit'
    BY <1>1, <2>1, ClosesStay
  <2> QED BY <1>1, <2>1, <2>2, <2>3, SameRows, Quiet
<1>5. CASE FindForVoid(r)
  <2>1. PICK d \in Drawers : Tell(r, [op |-> "GIVE_BACK", expense |-> req[r].expense, session |-> d])
    BY <1>1, <1>5, FoundIs DEF FindForVoid
  <2>2. req[r].expense \in Expenses /\ expense[req[r].expense].status # "NONE"
    BY <1>1, <1>5, RequestIs DEF FindForVoid, VoidsFit, Is
  <2>3. [op |-> "GIVE_BACK", expense |-> req[r].expense, session |-> d] \in Request
    BY <2>2 DEF Request
  <2>4. ClosesFit'
    BY <1>1, <2>1, ClosesStay
  <2> QED BY <1>1, <2>1, <2>2, <2>3, <2>4, SameRows, Quiet
<1>6. CASE Abort(r)
  <2>1. Tell(r, Idle) /\ Idle \in Request /\ Idle.op = "IDLE"
    BY <1>6 DEF Abort, Done, Idle, Request
  <2> QED BY <1>1, <2>1, SameRows, Plain
<1> QED BY <1>2, <1>3, <1>4, <1>5, <1>6

-----------------------------------------------------------------------------
(* The steps that write an expense and its entry                           *)

\* An entry is a row of the ledger.
LEMMA EntryIs ==
  ASSUME NEW e \in Expenses, NEW kind \in {"PAYMENT", "REVERSAL"}, NEW dir \in {"IN", "OUT"}, NEW d \in Drawers
  PROVE  LET x == Entry(e, kind, dir, d) IN
         /\ x \in LedgerEntry /\ x.expense = e /\ x.kind = kind /\ x.session = d /\ x.occurrence = 1
BY DEF Entry, LedgerEntry, Occurrence

\* Recording an entry adds it unless the expense has one of its kind.
LEMMA RecordedIs ==
  ASSUME Cash, NEW x \in LedgerEntry, x.occurrence = 1, drawer' = Recorded(x)
  PROVE  /\ drawer' \subseteq LedgerEntry /\ IsFiniteSet(drawer') /\ OneEntry' /\ drawer \subseteq drawer'
         /\ HasEntry(x.expense, x.kind)'
         /\ \A e, kind : e # x.expense \/ kind # x.kind => (HasEntry(e, kind)' <=> HasEntry(e, kind))
<1>1. drawer \subseteq LedgerEntry /\ IsFiniteSet(drawer) /\ OneEntry
  BY DEF Cash, TypeOK
<1>2. CASE \E y \in drawer : y.expense = x.expense /\ y.kind = x.kind
  <2>1. drawer' = drawer
    BY <1>1, <1>2 DEF Recorded, OneEntry
  <2> QED BY <1>1, <1>2, <2>1 DEF OneEntry, HasEntry
<1>3. CASE ~\E y \in drawer : y.expense = x.expense /\ y.kind = x.kind
  <2>1. drawer' = drawer \cup {x}
    BY <1>3 DEF Recorded
  <2>2. IsFiniteSet(drawer')
    BY <1>1, <2>1, FS_AddElement
  <2>3. OneEntry'
    BY <1>1, <1>3, <2>1 DEF OneEntry
  <2> QED BY <1>1, <2>1, <2>2, <2>3 DEF HasEntry
<1> QED BY <1>2, <1>3

\* A transaction that changes an expense and records its entry keeps Cash.
LEMMA WriteStep ==
  ASSUME Cash, NEW r \in Requests, NEW e \in Expenses, NEW row \in ExpenseRow,
         NEW kind \in {"PAYMENT", "REVERSAL"}, NEW dir \in {"IN", "OUT"}, NEW d \in Drawers, NEW s,
         expense' = [expense EXCEPT ![e] = row], Write(e, s, Entry(e, kind, dir, d)), Tell(r, Idle),
         UNCHANGED <<shift, session, contested>>,
         row.status # "NONE",
         kind = "PAYMENT" => expense[e].status = "NONE" /\ row.status = "LIVE",
         kind = "REVERSAL" => expense[e].status # "NONE" /\ row.status = "VOIDED"
  PROVE  Cash'
<1> DEFINE x == Entry(e, kind, dir, d)
<1>1. x \in LedgerEntry /\ x.expense = e /\ x.kind = kind /\ x.occurrence = 1
  BY EntryIs
<1>2. TypeOK /\ EntriesFit /\ VoidsFit /\ ClosesFit
  BY DEF Cash
<1>3. /\ drawer' = Recorded(x) /\ (raced' = raced \cup {e} \/ raced' = raced)
      /\ late' \subseteq late \cup ({x} \cap drawer')
  BY DEF Write
<1> HIDE DEF x
<1>4. /\ drawer' \subseteq LedgerEntry /\ IsFiniteSet(drawer') /\ OneEntry' /\ drawer \subseteq drawer'
      /\ HasEntry(e, kind)'
      /\ \A f, k : f # e \/ k # kind => (HasEntry(f, k)' <=> HasEntry(f, k))
  BY <1>1, <1>3, RecordedIs
<1>5. Idle \in Request /\ Idle.op = "IDLE"
  BY DEF Request, Idle
<1>6. req' \in [Requests -> Request] /\ \A q \in Requests : req'[q] = IF q = r THEN Idle ELSE req[q]
  BY <1>2, <1>5, TellIs
<1>7. expense \in [Expenses -> ExpenseRow]
  BY <1>2 DEF TypeOK, ExpenseRow
<1>8. expense' \in [Expenses -> ExpenseRow] /\ \A f \in Expenses : expense'[f] = IF f = e THEN row ELSE expense[f]
  BY <1>7
<1>9. TypeOK'
  <2>1. ShiftsFit' /\ SessionsFit'
    BY <1>2, SameRows
  <2> QED BY <1>2, <1>3, <1>4, <1>6, <1>8, <2>1
          DEF TypeOK, ShiftsFit, SessionsFit, ShiftRow, SessionRow, ExpenseRow
<1>10. EntriesFit'
  <2> SUFFICES ASSUME NEW f \in Expenses
               PROVE  /\ HasEntry(f, "PAYMENT")' <=> expense'[f].status # "NONE"
                      /\ HasEntry(f, "REVERSAL")' <=> expense'[f].status = "VOIDED"
    BY DEF EntriesFit
  <2>1. /\ HasEntry(f, "PAYMENT") <=> expense[f].status # "NONE"
        /\ HasEntry(f, "REVERSAL") <=> expense[f].status = "VOIDED"
    BY <1>2 DEF EntriesFit
  <2>2. CASE f # e
    <3>1. expense'[f] = expense[f]
      BY <1>8, <2>2
    <3> QED BY <1>4, <2>1, <2>2, <3>1
  <2>3. CASE f = e /\ kind = "PAYMENT"
    <3>1. expense'[f].status = "LIVE" /\ expense[f].status = "NONE"
      BY <1>8, <2>3
    <3> QED BY <1>4, <2>1, <2>3, <3>1
  <2>4. CASE f = e /\ kind = "REVERSAL"
    <3>1. expense'[f].status = "VOIDED" /\ expense[f].status # "NONE"
      BY <1>8, <2>4
    <3> QED BY <1>4, <2>1, <2>4, <3>1
  <2> QED BY <2>2, <2>3, <2>4
<1>11. VoidsFit'
  <2> SUFFICES ASSUME NEW q \in Requests, req'[q].op \in {"VOID", "GIVE_BACK"}
               PROVE  expense'[req'[q].expense].status # "NONE"
    BY DEF VoidsFit
  <2>1. req'[q] = req[q]
    BY <1>5, <1>6
  <2>2. req[q].expense \in Expenses /\ expense[req[q].expense].status # "NONE"
    BY <1>2, <2>1, RequestIs DEF VoidsFit, Is
  <2> QED BY <1>8, <2>1, <2>2
<1>12. ClosesFit'
  BY <1>2, <1>5, ClosesStay
<1> QED BY <1>4, <1>9, <1>10, <1>11, <1>12 DEF Cash

\* Making an expense keeps Cash.
LEMMA CreateStep ==
  ASSUME Cash, NEW r \in Requests, NEW e \in Expenses, Create(r, e)
  PROVE  Cash'
<1> DEFINE s == req[r].shift
           d == req[r].session
           row == [status |-> "LIVE", shift |-> s]
<1>1. TypeOK /\ Is(r, "PAY")
  BY DEF Cash, Create
<1>2. s \in Shifts \cup {Nobody} /\ d \in Drawers
  BY <1>1, RequestIs
<1>3. /\ expense[e].status = "NONE" /\ expense' = [expense EXCEPT ![e] = row]
      /\ Write(e, s, Entry(e, "PAYMENT", "OUT", d)) /\ Tell(r, Idle)
      /\ UNCHANGED <<shift, session, contested>>
  BY DEF Create, Done
<1>4. row \in ExpenseRow /\ row.status = "LIVE"
  BY <1>2 DEF ExpenseRow, ExpenseStatuses
<1> HIDE DEF s, d, row
<1> QED BY <1>2, <1>3, <1>4, WriteStep

\* Voiding an expense keeps Cash, also when it is voided already.
LEMMA VoidStep ==
  ASSUME Cash, NEW r \in Requests, Void(r)
  PROVE  Cash'
<1> DEFINE e == req[r].expense
           d == req[r].session
           row == [expense[e] EXCEPT !.status = "VOIDED"]
<1>1. TypeOK /\ VoidsFit /\ Is(r, "GIVE_BACK")
  BY DEF Cash, Void
<1>2. e \in Expenses /\ d \in Drawers /\ expense[e].status # "NONE"
  BY <1>1, RequestIs DEF VoidsFit, Is
<1>3. /\ expense' = [expense EXCEPT ![e].status = "VOIDED"]
      /\ Write(e, expense[e].shift, Entry(e, "REVERSAL", "IN", d)) /\ Tell(r, Idle)
      /\ UNCHANGED <<shift, session, contested>>
  BY DEF Void, Done
<1>4. expense[e] \in ExpenseRow
  BY <1>1, <1>2 DEF TypeOK, ExpenseRow
<1>5. row \in ExpenseRow /\ row.status = "VOIDED"
  BY <1>4 DEF ExpenseRow, ExpenseStatuses
<1>6. expense' = [expense EXCEPT ![e] = row]
  BY <1>3
<1> HIDE DEF e, d, row
<1> QED BY <1>2, <1>3, <1>5, <1>6, WriteStep

-----------------------------------------------------------------------------
(* Theorems                                                                *)

\* At the start nothing is open, spent or written.
LEMMA CashInit == Init => Cash
<1> SUFFICES ASSUME Init PROVE Cash
  OBVIOUS
<1>1. /\ NoShift \in ShiftRow /\ NoShift \in SessionRow /\ NoShift.status = "NONE"
      /\ NoExpense \in ExpenseRow /\ NoExpense.status = "NONE" /\ Idle \in Request /\ Idle.op = "IDLE"
  BY DEF NoShift, NoExpense, Idle, ShiftRow, SessionRow, ExpenseRow, Request, ShiftStatuses, SessionStatuses,
         ExpenseStatuses
<1>2. TypeOK
  BY <1>1 DEF Init, TypeOK, ShiftRow, SessionRow, ExpenseRow, OpenShifts, InStatus
<1>3. IsFiniteSet(drawer) /\ OneEntry
  BY FS_EmptySet DEF Init, OneEntry
<1>4. EntriesFit
  BY <1>1 DEF Init, EntriesFit, HasEntry
<1>5. VoidsFit /\ ClosesFit
  BY <1>1 DEF Init, VoidsFit, ClosesFit, ClosingSession, Is
<1> QED BY <1>2, <1>3, <1>4, <1>5 DEF Cash

\* Every step keeps Cash.
LEMMA CashNext == Cash /\ [Next]_cashVars => Cash'
<1> SUFFICES ASSUME Cash, [Next]_cashVars PROVE Cash'
  OBVIOUS
<1>1. ASSUME NEW r \in Requests, ShopStep(r)
      PROVE  Cash'
  BY <1>1, OpenShiftStep, OpenSessionStep, CloseShiftStep, AskCloseSessionStep, CloseSessionStep, ReadStep,
     CreateStep, VoidStep DEF ShopStep
<1>2. ASSUME NEW d \in Sessions, ApproveDifference(d)
      PROVE  Cash'
  BY <1>2, ApproveStep
<1>3. CASE UNCHANGED cashVars
  <2>1. UNCHANGED <<shift, session, expense, drawer, req, raced, late, contested>>
    BY <1>3 DEF cashVars
  <2>2. TypeOK' /\ IsFiniteSet(drawer)' /\ OneEntry' /\ VoidsFit'
    BY <2>1 DEF Cash, TypeOK, OneEntry, VoidsFit, OpenShifts, InStatus
  <2>3. EntriesFit'
    BY <2>1 DEF Cash, EntriesFit, HasEntry
  <2>4. ClosesFit'
    BY <2>1 DEF Cash, ClosesFit, ClosingSession, Is
  <2> QED BY <2>2, <2>3, <2>4 DEF Cash
<1> QED BY <1>1, <1>2, <1>3 DEF Next

\* The rows stay well formed, and a branch never has two open shifts.
THEOREM TypeCorrect == Spec => []TypeOK
<1>1. Cash => TypeOK
  BY DEF Cash
<1> QED BY <1>1, CashInit, CashNext, PTL DEF Spec

\* The entries of one kind an expense has are none or one.
LEMMA EntryCount ==
  ASSUME Cash, NEW e, NEW kind
  PROVE  Cardinality({x \in drawer : x.expense = e /\ x.kind = kind}) = IF HasEntry(e, kind) THEN 1 ELSE 0
<1> DEFINE S == {x \in drawer : x.expense = e /\ x.kind = kind}
<1>1. CASE HasEntry(e, kind)
  <2>1. PICK x \in drawer : x.expense = e /\ x.kind = kind
    BY <1>1 DEF HasEntry
  <2>2. S = {x}
    BY <2>1 DEF Cash, OneEntry
  <2> QED BY <1>1, <2>2, FS_Singleton
<1>2. CASE ~HasEntry(e, kind)
  <2>1. S = {}
    BY <1>2 DEF HasEntry
  <2> QED BY <1>2, <2>1, FS_EmptySet
<1> QED BY <1>1, <1>2

\* However many people void an expense, and whichever session is open by then, its cash leaves the
\* drawer once and comes back once.
THEOREM DrawerAgrees == Spec => []DrawerMatchesExpenses
<1>1. Cash => DrawerMatchesExpenses
  <2> SUFFICES ASSUME Cash, NEW e \in Expenses
               PROVE  /\ Cardinality({x \in drawer : x.expense = e /\ x.kind = "PAYMENT"})
                           = IF expense[e].status = "NONE" THEN 0 ELSE 1
                      /\ Cardinality({x \in drawer : x.expense = e /\ x.kind = "REVERSAL"})
                           = IF expense[e].status = "VOIDED" THEN 1 ELSE 0
    BY DEF DrawerMatchesExpenses
  <2>1. /\ HasEntry(e, "PAYMENT") <=> expense[e].status # "NONE"
        /\ HasEntry(e, "REVERSAL") <=> expense[e].status = "VOIDED"
    BY DEF Cash, EntriesFit
  <2> QED BY <2>1, EntryCount
<1> QED BY <1>1, CashInit, CashNext, PTL DEF Spec

\* Two people who close one shift do not overwrite each other's count.
THEOREM ShiftCountedOnce == Spec => CountedOnce
<1>1. Cash /\ [Next]_cashVars => [\A s \in Shifts : shift[s].status = "CLOSED" => shift'[s] = shift[s]]_cashVars
  <2> SUFFICES ASSUME Cash, [Next]_cashVars, NEW s \in Shifts, shift[s].status = "CLOSED"
               PROVE  shift'[s] = shift[s]
    OBVIOUS
  <2>1. shift \in [Shifts -> ShiftRow]
    BY RowsAre DEF Cash, ShiftsFit
  <2>2. ASSUME NEW r \in Requests, OpenShift(r)
        PROVE  shift'[s] = shift[s]
    BY <2>1, <2>2 DEF OpenShift
  <2>3. ASSUME NEW r \in Requests, CloseShift(r)
        PROVE  shift'[s] = shift[s]
    BY <2>1, <2>3 DEF CloseShift, StillOpen
  <2>4. ASSUME NEW r \in Requests, ShopStep(r), ~OpenShift(r), ~CloseShift(r)
        PROVE  shift' = shift
    BY <2>4 DEF ShopStep, FindSession, AskOpenSession, OpenSession, AskCloseShift, AskCloseSession, CloseSession,
                AskCreate, FindForCreate, Create, AskVoid, FindForVoid, Void, Abort
  <2>5. ASSUME NEW d \in Sessions, ApproveDifference(d)
        PROVE  shift' = shift
    BY <2>5 DEF ApproveDifference
  <2>6. CASE UNCHANGED cashVars
    BY <2>6 DEF cashVars
  <2> QED BY <2>2, <2>3, <2>4, <2>5, <2>6 DEF Next
<1> QED BY <1>1, CashInit, CashNext, PTL DEF Spec, CountedOnce

\* A session that has been closed is overwritten only by somebody who asked to close it while
\* another was closing it.
THEOREM ClosedSessions == Spec => ClosedSessionStands
<1>1. Cash /\ [Next]_cashVars =>
        [\A d \in Sessions \ contested : session[d].status = "CLOSED" => session'[d] = session[d]]_cashVars
  <2> SUFFICES ASSUME Cash, [Next]_cashVars, NEW d \in Sessions \ contested, session[d].status = "CLOSED"
               PROVE  session'[d] = session[d]
    OBVIOUS
  <2>1. session \in [Sessions -> SessionRow] /\ ClosesFit
    BY RowsAre DEF Cash, SessionsFit
  <2>2. ASSUME NEW r \in Requests, OpenSession(r)
        PROVE  session'[d] = session[d]
    BY <2>1, <2>2 DEF OpenSession, InStatus
  <2>3. ASSUME NEW r \in Requests, CloseSession(r)
        PROVE  session'[d] = session[d]
    <3>1. req[r].session # d
      BY <2>1, <2>3 DEF ClosesFit, ClosingSession, CloseSession
    <3> QED BY <2>1, <2>3, <3>1 DEF CloseSession
  <2>4. ASSUME NEW r \in Requests, ShopStep(r), ~OpenSession(r), ~CloseSession(r)
        PROVE  session' = session
    BY <2>4 DEF ShopStep, OpenShift, FindSession, AskOpenSession, AskCloseShift, CloseShift, AskCloseSession,
                AskCreate, FindForCreate, Create, AskVoid, FindForVoid, Void, Abort
  <2>5. ASSUME NEW c \in Sessions, ApproveDifference(c)
        PROVE  session'[d] = session[d]
    BY <2>1, <2>5 DEF ApproveDifference
  <2>6. CASE UNCHANGED cashVars
    BY <2>6 DEF cashVars
  <2> QED BY <2>2, <2>3, <2>4, <2>5, <2>6 DEF Next
<1> QED BY <1>1, CashInit, CashNext, PTL DEF Spec, ClosedSessionStands

-----------------------------------------------------------------------------
(* Counts: what shifts and drawer sessions are closed by                   *)

Settled(s) == {e \in OfShift(s) \ raced : expense[e].status = "LIVE"}
Unsettled(s) == OfShift(s) \cap raced
Missing(d) == Entries(d) \cap late
Counted(d) == Entries(d) \ Missing(d)

\* A balance is explained by the expenses, but for those made or voided too late
ShiftExplains(s, n) == -n \in Cardinality(Settled(s))..(Cardinality(Settled(s)) + Cardinality(Unsettled(s)))
SessionExplains(d, n) == n - Net(Counted(d)) \in -Cardinality(Missing(d))..Cardinality(Missing(d))

\* The balance a shift or session was closed by, or is about to be closed by
ShiftCount(s, n) ==
  \/ shift[s].status = "CLOSED" /\ shift[s].expected = n
  \/ \E r \in Requests : Is(r, "CLOSE_SHIFT") /\ req[r].shift = s /\ req[r].expected = n
SessionCount(d, n) ==
  \/ session[d].status \in {"CLOSED", "PENDING_APPROVAL"} /\ session[d].expected = n
  \/ \E r \in Requests : Is(r, "CLOSE_SESSION") /\ req[r].session = d /\ req[r].expected = n

Counts ==
  /\ \A e \in Expenses : expense[e].status = "NONE" => expense[e].shift = Nobody
  /\ \A s \in Shifts, n \in Int : ShiftCount(s, n) => ShiftExplains(s, n)
  /\ \A d \in Sessions, n \in Int : SessionCount(d, n) => SessionExplains(d, n)

\* Two sets that share nothing count as many as they count together.
LEMMA Together ==
  ASSUME NEW A, NEW B, IsFiniteSet(A), IsFiniteSet(B), A \cap B = {}
  PROVE  Cardinality(A \cup B) = Cardinality(A) + Cardinality(B)
<1>1. Cardinality(A \cap B) = 0
  BY FS_EmptySet
<1>2. Cardinality(A) \in Nat /\ Cardinality(B) \in Nat
  BY FS_CardinalityType
<1>3. Cardinality(A \cup B) = Cardinality(A) + Cardinality(B) - Cardinality(A \cap B)
  BY FS_Union
<1> QED BY <1>1, <1>2, <1>3

\* The more is unsettled, the less exactly a number of expenses has to fit.
LEMMA Loosened ==
  ASSUME NEW A, NEW B, NEW C, NEW D, IsFiniteSet(A \cup B), IsFiniteSet(C \cup D), A \cap B = {}, C \cap D = {},
         C \subseteq A, A \cup B \subseteq C \cup D,
         NEW n \in Int, n \in Cardinality(A)..(Cardinality(A) + Cardinality(B))
  PROVE  n \in Cardinality(C)..(Cardinality(C) + Cardinality(D))
<1>1. IsFiniteSet(A) /\ IsFiniteSet(B) /\ IsFiniteSet(C) /\ IsFiniteSet(D)
  BY FS_Subset
<1>2. Cardinality(A) \in Nat /\ Cardinality(B) \in Nat /\ Cardinality(C) \in Nat /\ Cardinality(D) \in Nat
  BY <1>1, FS_CardinalityType
<1>3. Cardinality(C) <= Cardinality(A) /\ Cardinality(A \cup B) <= Cardinality(C \cup D)
  BY <1>1, FS_Subset
<1>4. Cardinality(A \cup B) = Cardinality(A) + Cardinality(B)
  BY <1>1, Together
<1>5. Cardinality(C \cup D) = Cardinality(C) + Cardinality(D)
  BY <1>1, Together
<1> QED BY <1>2, <1>3, <1>4, <1>5

\* Leaving entries out changes what a drawer holds by no more than their number.
LEMMA NetLeavingOut ==
  ASSUME NEW S, IsFiniteSet(S), NEW M, M \subseteq S
  PROVE  /\ Net(S) \in Int /\ Net(S \ M) \in Int /\ Cardinality(M) \in Nat
         /\ Net(S) - Net(S \ M) \in -Cardinality(M)..Cardinality(M)
<1>1. IsFiniteSet(M) /\ IsFiniteSet(S \ M)
  BY FS_Subset
<1>2. ASSUME NEW dir
      PROVE  /\ Cardinality(In(S, dir)) \in Nat /\ Cardinality(In(S \ M, dir)) \in Nat
             /\ Cardinality(In(M, dir)) \in 0..Cardinality(M)
             /\ Cardinality(In(S, dir)) = Cardinality(In(S \ M, dir)) + Cardinality(In(M, dir))
  <2> DEFINE T == In(S, dir)
             U == In(S \ M, dir)
             V == In(M, dir)
  <2>1. T \subseteq S /\ U \subseteq S /\ V \subseteq M /\ T = U \cup V /\ U \cap V = {}
    BY DEF In
  <2> HIDE DEF T, U, V
  <2>2. IsFiniteSet(T) /\ IsFiniteSet(U) /\ IsFiniteSet(V) /\ Cardinality(V) <= Cardinality(M)
    BY <1>1, <2>1, FS_Subset
  <2>3. Cardinality(T) \in Nat /\ Cardinality(U) \in Nat /\ Cardinality(V) \in Nat /\ Cardinality(M) \in Nat
    BY <1>1, <2>2, FS_CardinalityType
  <2>4. Cardinality(T) = Cardinality(U) + Cardinality(V)
    BY <2>1, <2>2, Together
  <2> QED BY <2>2, <2>3, <2>4 DEF T, U, V
<1>3. Cardinality(M) \in Nat
  BY <1>1, FS_CardinalityType
<1> QED BY <1>2, <1>3 DEF Net

\* The more entries are missing, the less exactly a drawer has to fit.
LEMMA NetLoosened ==
  ASSUME NEW S, NEW M, NEW T, NEW N, IsFiniteSet(S), IsFiniteSet(N), S \cap M = {}, T \subseteq S, M \cup (S \ T) \subseteq N,
         NEW n \in Int, n - Net(S) \in -Cardinality(M)..Cardinality(M)
  PROVE  n - Net(T) \in -Cardinality(N)..Cardinality(N)
<1> DEFINE L == S \ T
<1>1. L \subseteq S /\ T = S \ L /\ M \cap L = {} /\ M \cup L \subseteq N
  OBVIOUS
<1> HIDE DEF L
<1>2. IsFiniteSet(M) /\ IsFiniteSet(L) /\ IsFiniteSet(M \cup L)
  BY <1>1, FS_Subset
<1>3. Cardinality(M) \in Nat /\ Cardinality(L) \in Nat /\ Cardinality(N) \in Nat
  BY <1>2, FS_CardinalityType
<1>4. Cardinality(M \cup L) = Cardinality(M) + Cardinality(L)
  BY <1>1, <1>2, Together
<1>5. Cardinality(M \cup L) <= Cardinality(N)
  BY <1>1, FS_Subset
<1>6. Net(S) \in Int /\ Net(T) \in Int /\ Net(S) - Net(T) \in -Cardinality(L)..Cardinality(L)
  BY <1>1, NetLeavingOut
<1> QED BY <1>3, <1>4, <1>5, <1>6

\* The sets a count is about are finite.
LEMMA CountSets ==
  ASSUME IsFiniteSet(drawer), NEW s, NEW d
  PROVE  /\ IsFiniteSet(Settled(s) \cup Unsettled(s)) /\ Settled(s) \cap Unsettled(s) = {}
         /\ IsFiniteSet(Entries(d)) /\ IsFiniteSet(Counted(d)) /\ IsFiniteSet(Missing(d))
         /\ Counted(d) \cap Missing(d) = {}
<1>1. Settled(s) \cup Unsettled(s) \in SUBSET Expenses /\ Settled(s) \cap Unsettled(s) = {}
  BY DEF Settled, Unsettled, OfShift
<1>2. Entries(d) \subseteq drawer /\ Counted(d) \subseteq drawer /\ Missing(d) \subseteq drawer
  BY DEF Entries, Counted, Missing
<1> QED BY <1>1, <1>2, ConstantsAssumption, FS_Subset DEF Counted

\* So they are after a step.
LEMMA CountSetsAfter ==
  ASSUME IsFiniteSet(drawer'), NEW s, NEW d
  PROVE  /\ IsFiniteSet(Settled(s)' \cup Unsettled(s)') /\ Settled(s)' \cap Unsettled(s)' = {}
         /\ IsFiniteSet(Entries(d)') /\ IsFiniteSet(Counted(d)') /\ IsFiniteSet(Missing(d)')
         /\ Counted(d)' \cap Missing(d)' = {}
<1>1. Settled(s)' \cup Unsettled(s)' \in SUBSET Expenses /\ Settled(s)' \cap Unsettled(s)' = {}
  BY DEF Settled, Unsettled, OfShift
<1>2. Entries(d)' \subseteq drawer' /\ Counted(d)' \subseteq drawer' /\ Missing(d)' \subseteq drawer'
  BY DEF Entries, Counted, Missing
<1> QED BY <1>1, <1>2, ConstantsAssumption, FS_Subset DEF Counted

\* Counts stay explained when no new ones come and the entries and expenses only become too late.
LEMMA CountsKept ==
  ASSUME Cash, Cash', Counts,
         \A e \in Expenses : expense'[e].status = "NONE" => expense'[e].shift = Nobody,
         \A s \in Shifts, n \in Int : ShiftCount(s, n)' => ShiftCount(s, n) \/ ShiftExplains(s, n),
         \A d \in Sessions, n \in Int : SessionCount(d, n)' => SessionCount(d, n) \/ SessionExplains(d, n),
         \A s \in Shifts, n \in Int : ShiftCount(s, n)' =>
           /\ Settled(s)' \subseteq Settled(s)
           /\ Settled(s) \cup Unsettled(s) \subseteq Settled(s)' \cup Unsettled(s)',
         \A d \in Sessions, n \in Int : SessionCount(d, n)' =>
           /\ Counted(d)' \subseteq Counted(d)
           /\ Missing(d) \cup (Counted(d) \ Counted(d)') \subseteq Missing(d)'
  PROVE  Counts'
<1>1. ASSUME NEW s \in Shifts, NEW n \in Int, ShiftCount(s, n)'
      PROVE  ShiftExplains(s, n)'
  <2> DEFINE A == Settled(s)
             B == Unsettled(s)
             C == Settled(s)'
             D == Unsettled(s)'
  <2>1. IsFiniteSet(A \cup B) /\ A \cap B = {}
    BY CountSets DEF Cash
  <2>2. IsFiniteSet(C \cup D) /\ C \cap D = {}
    BY CountSetsAfter DEF Cash
  <2>3. C \subseteq A /\ A \cup B \subseteq C \cup D
    BY <1>1
  <2>4. ShiftExplains(s, n)
    BY <1>1 DEF Counts
  <2>5. -n \in Int /\ -n \in Cardinality(A)..(Cardinality(A) + Cardinality(B))
    BY <2>4 DEF ShiftExplains
  <2> HIDE DEF A, B, C, D
  <2>6. -n \in Cardinality(C)..(Cardinality(C) + Cardinality(D))
    BY <2>1, <2>2, <2>3, <2>5, Loosened
  <2> QED BY <2>6 DEF C, D, ShiftExplains
<1>2. ASSUME NEW d \in Sessions, NEW n \in Int, SessionCount(d, n)'
      PROVE  SessionExplains(d, n)'
  <2> DEFINE S == Counted(d)
             M == Missing(d)
             T == Counted(d)'
             N == Missing(d)'
  <2>1. IsFiniteSet(S) /\ S \cap M = {}
    BY CountSets DEF Cash
  <2>2. IsFiniteSet(N)
    BY CountSetsAfter DEF Cash
  <2>3. T \subseteq S /\ M \cup (S \ T) \subseteq N
    BY <1>2
  <2>4. SessionExplains(d, n)
    BY <1>2 DEF Counts
  <2>5. n - Net(S) \in -Cardinality(M)..Cardinality(M)
    BY <2>4 DEF SessionExplains
  <2> HIDE DEF S, M, T, N
  <2>6. n - Net(T) \in -Cardinality(N)..Cardinality(N)
    BY <2>1, <2>2, <2>3, <2>5, NetLoosened
  <2>7. Net(T) = Net(Counted(d))'
    BY DEF T, Net, In
  <2> QED BY <2>6, <2>7 DEF N, SessionExplains
<1> QED BY <1>1, <1>2 DEF Counts

\* A step that touches neither expenses nor ledger has to explain the new counts only.
LEMMA CountsQuiet ==
  ASSUME Cash, Cash', Counts, UNCHANGED <<expense, drawer, raced, late>>,
         \A s \in Shifts, n \in Int : ShiftCount(s, n)' => ShiftCount(s, n) \/ ShiftExplains(s, n),
         \A d \in Sessions, n \in Int : SessionCount(d, n)' => SessionCount(d, n) \/ SessionExplains(d, n)
  PROVE  Counts'
<1>1. \A s : Settled(s)' = Settled(s) /\ Unsettled(s)' = Unsettled(s)
  BY DEF Settled, Unsettled, OfShift
<1>2. \A d : Counted(d)' = Counted(d) /\ Missing(d)' = Missing(d)
  BY DEF Counted, Missing, Entries
<1>3. \A e \in Expenses : expense'[e].status = "NONE" => expense'[e].shift = Nobody
  BY DEF Counts
<1> QED BY <1>1, <1>2, <1>3, CountsKept

\* Only request r closes a shift or a session in a step, by the balance it remembers
ShiftsClosedBy(r) ==
  \A s \in Shifts :
    \/ shift'[s] = shift[s] \/ shift'[s].status # "CLOSED"
    \/ Is(r, "CLOSE_SHIFT") /\ req[r].shift = s /\ shift'[s].expected = req[r].expected
SessionsClosedBy(r) ==
  \A d \in Sessions :
    \/ session'[d] = session[d] \/ session'[d].status \notin {"CLOSED", "PENDING_APPROVAL"}
    \/ Is(r, "CLOSE_SESSION") /\ req[r].session = d /\ session'[d].expected = req[r].expected

\* The counts of shifts after a request is told something and perhaps closed a shift.
LEMMA ShiftCountsTold ==
  ASSUME TypeOK, NEW r \in Requests, NEW m, Tell(r, m),
         ShiftsClosedBy(r),
         NEW s \in Shifts, NEW n \in Int, ShiftCount(s, n)'
  PROVE  ShiftCount(s, n) \/ (m.op = "CLOSE_SHIFT" /\ m.shift = s /\ m.expected = n)
<1>1. \A q \in Requests : req'[q] = IF q = r THEN m ELSE req[q]
  BY TellIs
<1> QED BY <1>1 DEF ShiftCount, ShiftsClosedBy, Is

\* The counts of sessions after a request is told something and perhaps closed a session.
LEMMA SessionCountsTold ==
  ASSUME TypeOK, NEW r \in Requests, NEW m, Tell(r, m),
         SessionsClosedBy(r),
         NEW d \in Sessions, NEW n \in Int, SessionCount(d, n)'
  PROVE  SessionCount(d, n) \/ (m.op = "CLOSE_SESSION" /\ m.session = d /\ m.expected = n)
<1>1. \A q \in Requests : req'[q] = IF q = r THEN m ELSE req[q]
  BY TellIs
<1> QED BY <1>1 DEF SessionCount, SessionsClosedBy, Is

\* A balance that has just been computed is explained.
LEMMA FreshCount ==
  ASSUME Cash, NEW s, NEW d
  PROVE  ShiftExplains(s, ShiftTotal(s)) /\ SessionExplains(d, DrawerTotal(d))
<1>1. ShiftExplains(s, ShiftTotal(s))
  <2> DEFINE L == {e \in OfShift(s) : expense[e].status = "LIVE"}
             A == Settled(s)
             B == Unsettled(s)
  <2>1. IsFiniteSet(A \cup B) /\ A \cap B = {} /\ A \subseteq L /\ L \subseteq A \cup B
    BY CountSets DEF Cash, Settled, Unsettled
  <2>2. ShiftTotal(s) = -Cardinality(L)
    BY DEF ShiftTotal
  <2> HIDE DEF L, A, B
  <2>3. IsFiniteSet(A) /\ IsFiniteSet(B) /\ IsFiniteSet(L)
    BY <2>1, FS_Subset
  <2>4. Cardinality(L) \in Nat /\ Cardinality(A) \in Nat /\ Cardinality(B) \in Nat
    BY <2>3, FS_CardinalityType
  <2>5. Cardinality(A) <= Cardinality(L) /\ Cardinality(L) <= Cardinality(A \cup B)
    BY <2>1, <2>3, FS_Subset
  <2>6. Cardinality(A \cup B) = Cardinality(A) + Cardinality(B)
    BY <2>1, <2>3, Together
  <2>7. -ShiftTotal(s) \in Cardinality(A)..(Cardinality(A) + Cardinality(B))
    BY <2>2, <2>4, <2>5, <2>6
  <2> QED BY <2>7 DEF A, B, ShiftExplains
<1>2. SessionExplains(d, DrawerTotal(d))
  <2>1. IsFiniteSet(Entries(d)) /\ Missing(d) \subseteq Entries(d) /\ Counted(d) = Entries(d) \ Missing(d)
    BY CountSets DEF Cash, Missing, Counted
  <2> QED BY <2>1, NetLeavingOut DEF SessionExplains, DrawerTotal
<1> QED BY <1>1, <1>2

\* Counting a shift or a session keeps Counts: the new balance has just been computed.
LEMMA AskCloseCounts ==
  ASSUME Cash, Cash', Counts, NEW r \in Requests, AskCloseShift(r) \/ AskCloseSession(r)
  PROVE  Counts'
<1>1. TypeOK /\ UNCHANGED <<shift, session, expense, drawer, raced, late>>
  BY DEF Cash, AskCloseShift, AskCloseSession
<1>4. ShiftsClosedBy(r) /\ SessionsClosedBy(r)
  BY <1>1 DEF ShiftsClosedBy, SessionsClosedBy
<1>2. CASE AskCloseShift(r)
  <2>1. PICK s \in OpenShifts : Tell(r, [op |-> "CLOSE_SHIFT", shift |-> s, expected |-> ShiftTotal(s)])
    BY <1>2 DEF AskCloseShift
  <2> DEFINE m == [op |-> "CLOSE_SHIFT", shift |-> s, expected |-> ShiftTotal(s)]
  <2>2. Tell(r, m) /\ m.op = "CLOSE_SHIFT" /\ m.shift = s /\ m.expected = ShiftTotal(s)
    BY <2>1
  <2> HIDE DEF m
  <2>3. \A t \in Shifts, n \in Int : ShiftCount(t, n)' => ShiftCount(t, n) \/ ShiftExplains(t, n)
    BY <1>1, <1>4, <2>2, ShiftCountsTold, FreshCount
  <2>4. \A d \in Sessions, n \in Int : SessionCount(d, n)' => SessionCount(d, n)
    BY <1>1, <1>4, <2>2, SessionCountsTold
  <2> QED BY <1>1, <2>3, <2>4, CountsQuiet
<1>3. CASE AskCloseSession(r)
  <2>1. PICK d \in Sessions, status \in {"CLOSED", "PENDING_APPROVAL"} :
          Tell(r, [op |-> "CLOSE_SESSION", session |-> d, status |-> status, expected |-> DrawerTotal(d)])
    BY <1>3 DEF AskCloseSession
  <2> DEFINE m == [op |-> "CLOSE_SESSION", session |-> d, status |-> status, expected |-> DrawerTotal(d)]
  <2>2. Tell(r, m) /\ m.op = "CLOSE_SESSION" /\ m.session = d /\ m.expected = DrawerTotal(d)
    BY <2>1
  <2> HIDE DEF m
  <2>3. \A c \in Sessions, n \in Int : SessionCount(c, n)' => SessionCount(c, n) \/ SessionExplains(c, n)
    BY <1>1, <1>4, <2>2, SessionCountsTold, FreshCount
  <2>4. \A s \in Shifts, n \in Int : ShiftCount(s, n)' => ShiftCount(s, n)
    BY <1>1, <1>4, <2>2, ShiftCountsTold
  <2> QED BY <1>1, <2>3, <2>4, CountsQuiet
<1> QED BY <1>2, <1>3

\* Closing by the balance that was asked for, and every other step that leaves expenses and ledger
\* alone, makes no new counts.
LEMMA OtherCounts ==
  ASSUME Cash, Cash', Counts, NEW r \in Requests, ShopStep(r), ~AskCloseShift(r), ~AskCloseSession(r), ~Void(r),
         ~\E e \in Expenses : Create(r, e)
  PROVE  Counts'
<1>1. TypeOK /\ UNCHANGED <<expense, drawer, raced, late>>
  BY DEF Cash, ShopStep, OpenShift, FindSession, AskOpenSession, OpenSession, CloseShift, CloseSession, AskCreate,
         FindForCreate, AskVoid, FindForVoid, Abort
<1>2. \E m : Tell(r, m) /\ m.op \notin {"CLOSE_SHIFT", "CLOSE_SESSION"}
  <2>1. CASE OpenSession(r) \/ CloseShift(r) \/ CloseSession(r) \/ Abort(r)
    BY <2>1 DEF OpenSession, CloseShift, CloseSession, Abort, Done, Idle
  <2>2. CASE OpenShift(r) \/ FindSession(r) \/ AskOpenSession(r)
    BY <2>2 DEF OpenShift, FindSession, AskOpenSession, Idle
  <2>3. CASE AskCreate(r)
    <3>1. PICK s : Tell(r, [op |-> "CREATE", shift |-> s])
      BY <2>3 DEF AskCreate
    <3> QED BY <3>1
  <2>4. CASE FindForCreate(r)
    <3>1. PICK d : Tell(r, [op |-> "PAY", shift |-> req[r].shift, session |-> d])
      BY <2>4 DEF FindForCreate
    <3> QED BY <3>1
  <2>5. CASE AskVoid(r)
    <3>1. PICK e : Tell(r, [op |-> "VOID", expense |-> e])
      BY <2>5 DEF AskVoid
    <3> QED BY <3>1
  <2>6. CASE FindForVoid(r)
    <3>1. PICK d : Tell(r, [op |-> "GIVE_BACK", expense |-> req[r].expense, session |-> d])
      BY <2>6 DEF FindForVoid
    <3> QED BY <3>1
  <2> QED BY <2>1, <2>2, <2>3, <2>4, <2>5, <2>6 DEF ShopStep
<1>3. PICK m : Tell(r, m) /\ m.op \notin {"CLOSE_SHIFT", "CLOSE_SESSION"}
  BY <1>2
<1>4. shift \in [Shifts -> ShiftRow] /\ session \in [Sessions -> SessionRow]
  BY <1>1, RowsAre DEF ShiftsFit, SessionsFit
<1>5. ShiftsClosedBy(r)
  <2>1. CASE OpenShift(r)
    BY <1>4, <2>1 DEF OpenShift, ShiftRow, ShiftsClosedBy
  <2>2. CASE CloseShift(r)
    BY <1>4, <2>2 DEF CloseShift, ShiftsClosedBy
  <2>3. CASE ~OpenShift(r) /\ ~CloseShift(r)
    BY <2>3 DEF ShiftsClosedBy, ShopStep, FindSession, AskOpenSession, OpenSession, CloseSession, AskCreate,
                FindForCreate, AskVoid, FindForVoid, Abort
  <2> QED BY <2>1, <2>2, <2>3
<1>6. SessionsClosedBy(r)
  <2>1. CASE OpenSession(r)
    BY <1>4, <2>1 DEF OpenSession, SessionRow, SessionsClosedBy
  <2>2. CASE CloseSession(r)
    BY <1>4, <2>2 DEF CloseSession, SessionsClosedBy
  <2>3. CASE ~OpenSession(r) /\ ~CloseSession(r)
    BY <2>3 DEF SessionsClosedBy, ShopStep, OpenShift, FindSession, AskOpenSession, CloseShift, AskCreate,
                FindForCreate, AskVoid, FindForVoid, Abort
  <2> QED BY <2>1, <2>2, <2>3
<1>7. \A s \in Shifts, n \in Int : ShiftCount(s, n)' => ShiftCount(s, n)
  BY <1>1, <1>3, <1>5, ShiftCountsTold
<1>8. \A d \in Sessions, n \in Int : SessionCount(d, n)' => SessionCount(d, n)
  BY <1>1, <1>3, <1>6, SessionCountsTold
<1> QED BY <1>1, <1>7, <1>8, CountsQuiet

\* Approving a difference keeps the balance.
LEMMA ApproveCounts ==
  ASSUME Cash, Cash', Counts, NEW c \in Sessions, ApproveDifference(c)
  PROVE  Counts'
<1>1. UNCHANGED <<shift, expense, drawer, req, raced, late>> /\ session \in [Sessions -> SessionRow]
  BY RowsAre DEF ApproveDifference, Cash, SessionsFit
<1>2. \A s \in Shifts, n \in Int : ShiftCount(s, n)' => ShiftCount(s, n)
  BY <1>1 DEF ShiftCount, Is
<1>3. \A d \in Sessions : session'[d].expected = session[d].expected
        /\ (session'[d] = session[d] \/ session[d].status = "PENDING_APPROVAL")
  BY <1>1 DEF ApproveDifference, SessionRow
<1>4. \A d \in Sessions, n \in Int : SessionCount(d, n)' => SessionCount(d, n)
  BY <1>1, <1>3 DEF SessionCount, Is
<1> QED BY <1>1, <1>2, <1>4, CountsQuiet

\* A transaction that changes an expense of a shift and records an entry in a session keeps Counts:
\* when either has been counted, the expense is raced and the entry late.
LEMMA WriteCounts ==
  ASSUME Cash, Cash', Counts, NEW r \in Requests, NEW e \in Expenses, NEW row \in ExpenseRow,
         NEW kind \in {"PAYMENT", "REVERSAL"}, NEW dir \in {"IN", "OUT"}, NEW d \in Drawers,
         expense' = [expense EXCEPT ![e] = row], Write(e, row.shift, Entry(e, kind, dir, d)), Tell(r, Idle),
         UNCHANGED <<shift, session, contested>>,
         row.status # "NONE", row.status # "LIVE" => expense[e].shift = row.shift,
         row.status = "LIVE" => expense[e].status = "NONE"
  PROVE  Counts'
<1> DEFINE x == Entry(e, kind, dir, d)
           s0 == row.shift
<1>1. x \in LedgerEntry /\ x.session = d
  BY EntryIs
<1>2. /\ drawer' = Recorded(x)
      /\ s0 # Nobody /\ (ClosingShift(s0) # {} \/ shift[s0].status # "OPEN") => raced' = raced \cup {e}
      /\ raced' = raced \cup {e} \/ raced' = raced
      /\ x.session # Nobody /\ (ClosingSession(x.session) # {} \/ session[x.session].status # "OPEN")
           => late' = late \cup ({x} \cap drawer')
      /\ late' = late \/ late' = late \cup ({x} \cap drawer')
  BY DEF Write
<1>3. drawer' = drawer \/ drawer' = drawer \cup {x}
  BY <1>2 DEF Recorded
<1> HIDE DEF x, s0
<1>4. TypeOK /\ expense \in [Expenses -> ExpenseRow] /\ Nobody \notin Shifts \cup Sessions
  BY ConstantsAssumption DEF Cash, TypeOK, ExpenseRow
<1>5. \A f \in Expenses : expense'[f] = IF f = e THEN row ELSE expense[f]
  BY <1>4
<1>6. \A f \in Expenses : expense'[f].status = "NONE" => expense'[f].shift = Nobody
  BY <1>5 DEF Counts
<1>7. Idle.op = "IDLE" /\ ShiftsClosedBy(r) /\ SessionsClosedBy(r)
  BY DEF Idle, ShiftsClosedBy, SessionsClosedBy
<1>8. \A s \in Shifts, n \in Int : ShiftCount(s, n)' => ShiftCount(s, n)
  BY <1>4, <1>7, ShiftCountsTold
<1>9. \A c \in Sessions, n \in Int : SessionCount(c, n)' => SessionCount(c, n)
  BY <1>4, <1>7, SessionCountsTold
<1>10. ASSUME NEW s \in Shifts, NEW n \in Int, ShiftCount(s, n)'
       PROVE  Settled(s)' \subseteq Settled(s) /\ Settled(s) \cup Unsettled(s) \subseteq Settled(s)' \cup Unsettled(s)'
  <2>1. ShiftCount(s, n)
    BY <1>8, <1>10
  <2>2. ClosingShift(s) # {} \/ shift[s].status # "OPEN"
    BY <2>1 DEF ShiftCount, ClosingShift
  <2>3. s = s0 => raced' = raced \cup {e}
    BY <1>2, <1>4, <2>2
  <2>4. CASE s = s0
    <3>1. raced' = raced \cup {e}
      BY <2>3, <2>4
    <3> QED BY <1>5, <2>4, <3>1 DEF Settled, Unsettled, OfShift, s0
  <2>5. CASE s # s0
    <3>1. expense[e].shift # s
      BY <1>4, <2>5 DEF Counts, s0, ExpenseRow
    <3> QED BY <1>2, <1>5, <2>5, <3>1 DEF Settled, Unsettled, OfShift, s0
  <2> QED BY <2>4, <2>5
<1>11. ASSUME NEW c \in Sessions, NEW n \in Int, SessionCount(c, n)'
       PROVE  Counted(c)' \subseteq Counted(c) /\ Missing(c) \cup (Counted(c) \ Counted(c)') \subseteq Missing(c)'
  <2>1. SessionCount(c, n)
    BY <1>9, <1>11
  <2>2. ClosingSession(c) # {} \/ session[c].status # "OPEN"
    BY <2>1 DEF SessionCount, ClosingSession
  <2>3. CASE c = x.session
    <3>1. late' = late \cup ({x} \cap drawer')
      BY <1>2, <1>4, <2>2, <2>3
    <3> QED BY <1>3, <2>3, <3>1 DEF Counted, Missing, Entries
  <2>4. CASE c # x.session
    <3>1. Entries(c)' = Entries(c)
      BY <1>3, <2>4 DEF Entries
    <3>2. Missing(c)' = Missing(c)
      BY <1>2, <2>4, <3>1 DEF Missing, Entries
    <3> QED BY <3>1, <3>2 DEF Counted
  <2> QED BY <2>3, <2>4
<1> QED BY <1>6, <1>8, <1>9, <1>10, <1>11, CountsKept

\* Making an expense and voiding one keep Counts.
LEMMA CreateVoidCounts ==
  ASSUME Cash, Cash', Counts, NEW r \in Requests, Void(r) \/ \E e \in Expenses : Create(r, e)
  PROVE  Counts'
<1>1. TypeOK /\ VoidsFit
  BY DEF Cash
<1>2. ASSUME NEW e \in Expenses, Create(r, e)
      PROVE  Counts'
  <2> DEFINE s == req[r].shift
             d == req[r].session
             row == [status |-> "LIVE", shift |-> s]
  <2>1. s \in Shifts \cup {Nobody} /\ d \in Drawers
    BY <1>1, <1>2, RequestIs DEF Create
  <2>2. /\ expense[e].status = "NONE" /\ expense' = [expense EXCEPT ![e] = row]
        /\ Write(e, s, Entry(e, "PAYMENT", "OUT", d)) /\ Tell(r, Idle)
        /\ UNCHANGED <<shift, session, contested>>
    BY <1>2 DEF Create, Done
  <2>3. row \in ExpenseRow /\ row.status = "LIVE" /\ row.shift = s
    BY <2>1 DEF ExpenseRow, ExpenseStatuses
  <2> HIDE DEF row, s, d
  <2> QED BY <2>1, <2>2, <2>3, WriteCounts
<1>3. CASE Void(r)
  <2> DEFINE e == req[r].expense
             d == req[r].session
             row == [expense[e] EXCEPT !.status = "VOIDED"]
  <2>1. e \in Expenses /\ d \in Drawers
    BY <1>1, <1>3, RequestIs DEF Void
  <2>2. /\ expense' = [expense EXCEPT ![e].status = "VOIDED"]
        /\ Write(e, expense[e].shift, Entry(e, "REVERSAL", "IN", d)) /\ Tell(r, Idle)
        /\ UNCHANGED <<shift, session, contested>>
    BY <1>3 DEF Void, Done
  <2>3. expense[e] \in ExpenseRow
    BY <1>1, <2>1 DEF TypeOK, ExpenseRow
  <2>4. row \in ExpenseRow /\ row.status = "VOIDED" /\ row.shift = expense[e].shift
    BY <2>3 DEF ExpenseRow, ExpenseStatuses
  <2>5. expense' = [expense EXCEPT ![e] = row]
    BY <2>2
  <2> HIDE DEF e, d, row
  <2> QED BY <2>1, <2>2, <2>4, <2>5, WriteCounts
<1> QED BY <1>2, <1>3

\* Nothing has been counted at the start, and every step keeps Counts.
LEMMA CountsInit == Init => Counts
<1> SUFFICES ASSUME Init PROVE Counts
  OBVIOUS
<1>1. /\ \A e \in Expenses : expense[e].shift = Nobody
      /\ \A s \in Shifts : shift[s].status = "NONE"
      /\ \A d \in Sessions : session[d].status = "NONE"
      /\ \A r \in Requests : req[r].op = "IDLE"
  BY DEF Init, NoExpense, NoShift, Idle
<1> QED BY <1>1 DEF Counts, ShiftCount, SessionCount, Is

LEMMA CountsNext == Cash /\ Cash' /\ Counts /\ [Next]_cashVars => Counts'
<1> SUFFICES ASSUME Cash, Cash', Counts, [Next]_cashVars PROVE Counts'
  OBVIOUS
<1>1. ASSUME NEW r \in Requests, ShopStep(r)
      PROVE  Counts'
  BY <1>1, AskCloseCounts, OtherCounts, CreateVoidCounts
<1>2. ASSUME NEW d \in Sessions, ApproveDifference(d)
      PROVE  Counts'
  BY <1>2, ApproveCounts
<1>3. CASE UNCHANGED cashVars
  <2>1. UNCHANGED <<shift, session, expense, drawer, req, raced, late>>
    BY <1>3 DEF cashVars
  <2>2. \A s \in Shifts, n \in Int : ShiftCount(s, n)' => ShiftCount(s, n)
    BY <2>1 DEF ShiftCount, Is
  <2>3. \A d \in Sessions, n \in Int : SessionCount(d, n)' => SessionCount(d, n)
    BY <2>1 DEF SessionCount, Is
  <2> QED BY <2>1, <2>2, <2>3, CountsQuiet
<1> QED BY <1>1, <1>2, <1>3 DEF Next

\* The balance a shift was closed by is that of its expenses, but for those made or voided while it
\* was being closed or later: no other expense escapes the count.
THEOREM ShiftCountIsExplained == Spec => []ShiftCountExplained
<1>1. Cash /\ Counts => ShiftCountExplained
  <2> SUFFICES ASSUME Cash, Counts, NEW s \in InStatus(shift, Shifts, "CLOSED")
               PROVE  -shift[s].expected \in Cardinality(Settled(s))..(Cardinality(Settled(s)) + Cardinality(Unsettled(s)))
    BY DEF ShiftCountExplained, Settled, Unsettled
  <2>1. s \in Shifts /\ shift[s].status = "CLOSED" /\ shift[s].expected \in Int
    BY RowsAre DEF InStatus, Cash
  <2>2. ShiftCount(s, shift[s].expected)
    BY <2>1 DEF ShiftCount
  <2> QED BY <2>1, <2>2 DEF Counts, ShiftExplains
<1> QED BY <1>1, CashInit, CashNext, CountsInit, CountsNext, PTL DEF Spec

\* The amount a drawer session was counted against is that of its ledger, but for the entries that
\* came while it was being closed or later.
THEOREM DrawerCountIsExplained == Spec => []DrawerCountExplained
<1>1. Cash /\ Counts => DrawerCountExplained
  <2> SUFFICES ASSUME Cash, Counts, NEW d \in InStatus(session, Sessions, "CLOSED")
               PROVE  session[d].expected - Net(Counted(d)) \in -Cardinality(Missing(d))..Cardinality(Missing(d))
    BY DEF DrawerCountExplained, Counted, Missing
  <2>1. d \in Sessions /\ session[d].status = "CLOSED" /\ session[d].expected \in Int
    BY RowsAre DEF InStatus, Cash
  <2>2. SessionCount(d, session[d].expected)
    BY <2>1 DEF SessionCount
  <2> QED BY <2>1, <2>2 DEF Counts, SessionExplains
<1> QED BY <1>1, CashInit, CashNext, CountsInit, CountsNext, PTL DEF Spec
=============================================================================
