# FixITPro in TLA+

FixITPro (`src/docs/PROJECT_MAP.md`) is back-office software for phone and repair shops:
bills, repairs, stock in several branches, shifts and cash drawer, double-entry books. A NestJS
backend (`src/backend/src`) keeps everything in PostgreSQL through Prisma; the web application
(`src/web-app`) and a Windows agent (`src/fixitpro-agent`) are its clients.

This directory holds TLA+ modules of the parts where money, goods and their records must stay in
step while requests race, the TLC runs that check them, and TLAPS proofs of the properties that
matter most. `PROJECT.json` lists components, runs, the lines each definition stands for, the
hazards and the theorems.

## How this program works, and why it is hard

Almost every handler has the same shape:

1. it reads rows and checks them, **outside** any transaction;
2. it opens a transaction (`prisma.$transaction`, READ COMMITTED), locks some rows - by
   `SELECT ... FOR UPDATE`, by a conditional `updateMany`, or just by updating them -, *may* check
   again, writes, commits;
3. after the commit it posts journals, notifications and audit entries, which never fail the request.

So what can go wrong is mostly this: a value read in step 1 is used in step 2 when another request
has committed in between. Some handlers repeat their checks under the lock (refunds, sales), some do not (void, cancel a
transfer), and one repeats a check on a row it does not lock (the shift, in a change of a payment method). Unit tests mock Prisma and run one handler at a time; they do not reach these orders. The models do: each
handler is two or more actions, and any other request may come in between.

Two parts are hard in another way. The books are posted after the commit, so they must survive a failure in between; a scan
makes up for it while the bill is young, working from what it has read a while ago. And the web application keeps what is entered without a network in the
browser and sends it later, over a network that loses answers, from pages that are closed in the middle.

## Inventory

| Component | State | Operations | Interacts with | Hard behaviour | Correct when |
|---|---|---|---|---|---|
| Bills (`sales/sales.service.ts`) | Sale, SaleItem, SalePayment, SaleRefund | create (now or late), refund, exchange, change payment method, void | stock, serials, ledger, shift, journal | snapshot before the transaction; void re-reads nothing; status and shift change in between | a bill never gives back more than it sold or was paid; its status, ledger, serials and stock agree with it; voided is final |
| Serials (`stock/serial-stock.ts`, `serials/`) | SerialNumber.status and bill | take, return, register, import | bills, stock | read, then updated without a condition | a serial to sell each unit in stock by; one customer at a time |
| Drawer ledger (`accounting/accounting.service.ts`) | CashDrawerTransaction | record (idempotent by key) | everything that moves money | a repeated call | net of a source = what that source holds |
| Stock by hand (`stock/stock.service.ts`) | BranchStock, StockMovement, Product.stock | in, out, adjust | transfers, bills | guarded and unguarded updates of one row | never below zero; the stock card explains the count |
| Branches and transfers (`branches/branches.service.ts`) | StockTransfer, BranchStock | count a branch; create, approve, reject, dispatch, receive, complete, cancel | stock | status checked, then written without a condition; two rows locked | no unit lost or doubled on the way; ended transfers stay ended |
| Shifts (`shifts/`) | Shift, members, cash count | open, join, hand over, close, late audit | bills, repairs, expenses, drawer | totals are read, then the shift is closed | the counted cash is the ledger's |
| Cash drawer sessions (`cash-drawer/`) | session, expected and counted cash | open, move, close, approve difference | shifts, ledger | two closings at once | one count per session |
| Repairs (`repairs/repairs.service.ts`) | Repair, parts, deposits, payments | status, parts, pay, reverse, additional payment, cancel, refund, reopen | stock, ledger, debt payments, journal | compare-and-set on some paths, none on others | paid + owed = price; refunds within what was paid |
| Debt payments (`debt-payments/`) | the same repair row | pay | repairs | a second writer of the repair | never paid twice |
| Partner repair transfers, quotations, relationships (`partner-*/`) | transfer status, agreed price, quotation versions | two shops act on one record | repairs | status checked, then written without a condition | terminal is final; the agreed price is an accepted quotation's |
| Carrier wallets (`carrier-wallet/`) | balance, sales on credit | top up, sell, refund | ledger | conditional decrement, retry on a taken receipt number | balance ≥ 0 and explained by its entries |
| Journal and adapters (`journal/`) | journal entries | post, reverse | after every commit | posted after the commit, errors swallowed | each document has its entries once |
| Reconciliation and catch-up (`accounting-reconciliation/`) | what is missing | scan of the last 24 hours every 15 minutes, retry by hand | journal | a crash between commit and post; a bill older than the window | what is missing of a young bill is eventually posted |
| Offline queue (`web-app/src/lib/offline-queue.ts`, `hooks/use-sync-queue.ts`) | items waiting in the browser | enqueue, sync, mark | repairs, expenses | an answer is lost after the server acted | each item is made, and made once unless its post was cut off |
| Purchase orders, suppliers | orders, received lines | order, receive, cancel | stock | receiving twice | received = added to stock |
| Expenses, finance | expense rows | create, void | ledger, shift | as a bill's | one entry, one reversal |
| Warranties, claims, commission, technicians | single rows | create, change | repairs, bills | no concurrent writer | - |
| Chat, LINE, push, notifications, reminders, alerts | messages | send | - | best effort | - |
| Auth, PIN, permissions, users | accounts | log in, grant | - | - | access control, not stated here |
| Tenants, plans, modules, subscription payments | tenant, expiry | pay, activate, suspend | - | a payment claimed once by a conditional update | extended once per payment |
| Backup and restore | files | export, import | all tables | one transaction per restore | - |
| Reports, dashboard, analytics, data, owner hub | none of their own | read | all | - | - |
| Customers, products, categories, settings, documents | master data | edit | all | - | - |
| Web pages, Windows agent | - | display, print, kick the drawer | HTTP | - | - |

## Modules

| Module | What it is |
|---|---|
| `BillLifecycle` | what a bill promises, without requests, stock or ledger (abstract specification) |
| `SaleBill` | bills, serials, stock and ledger of one till under racing requests; implements `BillLifecycle` |
| `TransferLifecycle` | what a stock transfer promises (abstract specification) |
| `SaleBooks` | the journals of those bills, posted after the commit, and the scan that catches up after a failure |
| `BranchStock` | one product in several branches: hand-made changes, counts, transfers, movements, the total; implements `TransferLifecycle` when requests about one transfer come one by one |
| `RepairJob` | one repair job from intake to pickup, reversal, refund or cancellation, with its parts, its money and its ledger entries |
| `ShopCash` | shifts and drawer sessions, their counts, and the cash expenses both must agree with |
| `OfflineQueue` | what is entered without a network, the syncs that send it, and the client's retries |
| `SaleBillProofs`, `SaleBillFigures`, `SaleBooksProofs`, `BranchStockProofs`, `RepairJobProofs`, `ShopCashProofs`, `OfflineQueueProofs` | theorems about them; `SaleBillFigures` has those that add up money, serials and stock |
| `SumTheorems` | lemmas about the sums the models use |
| `MCSaleBill`, `MCSaleBooks`, `MCBranchStock`, `MCRepairJob`, `MCShopCash`, `MCOfflineQueue` | small instances for TLC |

`SaleBill` and `SaleBooks` meet in the commit: what is one transaction of `SaleBill` is, in `SaleBooks`, a bill that gets new
documents and a list of journals still to be posted.

### SaleBill

| Variable | Code |
|---|---|
| `sale` | Sale with its SaleItem (`qty`, `back` = refundedQty), SalePayment (`legs`) and the sums of SaleRefund (`refunds`, `paidBack`) |
| `stock` | BranchStock.quantity of the till's branch |
| `holder` | SerialNumber: the bill it is sold on, or in stock |
| `drawer` | CashDrawerTransaction entries of bills |
| `shift` | the latest shift of the till and whether it is open |
| `req` | for each HTTP request under way, what its handler read before the transaction |

Each of the five operations is `Ask...` (the reads and early returns) and `Commit...` (the transaction, with the
checks repeated inside). `Abort` is a check that fails in the transaction, or a server or connection that dies:
everything rolls back. A transaction is one step because its first writes lock: refund and exchange lock the bill
(`lockAndValidateRefund`), a void updates it, and a sale's conditional stock UPDATE locks the stock row, then
the product row, before serials are read. The change of a payment method is two steps: `ClaimMethod` is its first UPDATE, which looks at
bill and shift and locks the bill (`Unlocked` keeps other transactions off it), `CommitMethod` the rest. The shift's row is not locked, so it
may be closed in between. `OpenShift` and `CloseShift` are the shift as far as a bill reads it.

A line's discount is part of its unit price (a constant); a bill discount is a choice of the customer. `Money` and `Tenders` are
the amounts that may occur. Payment legs carry a number, so that a method change makes a new one as the code does.
The ledger type SALE_REFUND is used for two sources with different ids in the code (a refund, a leg of a voided
bill); the model names the first `REFUND`. `cashCounted` and `lacking` are history: whether a late entry's cash
was counted with a closed shift, and how many units of a line were sold without a serial of their own. `create` compares the number of serial ids
with the units, not the ids with each other or with the serials found (`SerialsNamed`), and an exchange names none; so a line may have fewer
serials than units. The header of `serial-stock.ts` says number in stock and serials "must move together"; what holds is the inequality
`SerialsCoverStock`.

Left out: customer creation, staff discount limits, reasons, roles, receipts, audit and notification rows, bills with no lines,
journals (their own component).

### BranchStock

| Variable | Code |
|---|---|
| `quantity` | BranchStock.quantity of one product, as committed |
| `card`, `moved` | what the StockMovement rows of a branch, and of a transfer, come to |
| `transfer` | StockTransfer |
| `summed` | the branch quantities whose sum was last stored in Product.stock |
| `blurred` | history: the branches another request has changed between the read and the write of a count of them |
| `req` | what a request has read, and how far its transaction is |

Here a transaction is three steps, because two of them can be open at once on different rows: `Write` takes the row locks (and
makes the check of the conditional UPDATE), `Sum` reads all branches as READ COMMITTED shows them
(`syncProductShadowStock`), `Commit` makes everything visible. `setBranchStock` commits its count (`WriteCount`)
and brings the total up to date outside that transaction. `Decide` is the one UPDATE of a decision that moves no
stock. `Abort` may happen at any step; it is also what the database does to one of two transactions that
lock two rows in opposite order. The average cost, roles and notifications are left out; a branch row that does
not exist yet is a row with 0.

### SaleBooks

| Variable | Code |
|---|---|
| `bill` | Sale with the ids of its SalePayment (`legs`) and SaleRefund rows |
| `books` | the documents (sourceType, sourceId) that have a JournalEntry |
| `reversed` | those that have a JOURNAL_REVERSAL |
| `work` | what each till request and each scan still has to post or to reverse |
| `aged` | bills made more than 24 hours ago (`GrowOld`) |
| `faults`, `tangled` | history: failures so far; legs replaced while somebody was about to post them |

`Sell`, `Refund`, `ChangeMethod` and `CommitVoid` are the commits; the adapter's calls that follow are a set of tasks, done one at
a time in the adapter's order (`Rank`, `Post`). `create` finds an existing journal by its source and `reverse` does nothing for a
document that is not in the books or has been reversed. `Fail` is a posting that throws: the adapter logs it and gives
up the rest of that call. `Crash` loses all work. `StartScan` is `scanTenants`: it classifies the bills of the last 24 hours (`InReach`, `Posted`) and sets to work
from that reading (`Recover`), while the till goes on; `RetryBill` is `retrySale`, of a bill of any age. A refund of no money (`free`) has no
journals, so the scan finds its bill behind every time. `AskVoid` keeps the legs it read, because the reversal works from them. Left out: amounts
and accounts, the batch of 100 of a scan (the bills of 24 hours are taken to fit in one), the journals of repairs and expenses (the same pattern), journals voided by
hand.

### RepairJob

| Variable | Code |
|---|---|
| `repair` | Repair: `status`, `pay` = paymentStatus, `price`, `deposit`, `paid` = paidAmount, `cut` = the discount at pickup; RepairAdditionalPayment (`adds`), the number of RepairPaymentReversal (`rounds`), the active RepairPart rows (`parts`) and whether parts of a quick job are still to come (`pending`) |
| `stock` | BranchStock.quantity of the spare parts |
| `drawer` | CashDrawerTransaction entries of the job, with their idempotency key |
| `req` | what each request has read |
| `overtaken` | history: a transaction has committed although something it read, and does not check again, had changed |

`Ask...` is a handler up to its transaction, `Commit...` the transaction with the conditions of its UPDATEs (`StillPayable`,
`StillPaid`, `OnShelf`) and what it reads again under its lock (`CommitAdd`, `CommitDebt`). `quickPaid` is four steps that commit on
their own, with the clean-up of a failed payment (`QuickGiveUp`). `Stands` lists, operation by operation, what is read
before and trusted afterwards. That list is the result of the module as much as the invariants are: they hold for as long as a
commit finds what `Stands` names unchanged, and say nothing after that. Where a line of the list costs money, parts or a status, the race is a
hazard in `PROJECT.json`; for most of these no property can catch it, and the hazard says so. `kept` of an additional payment is history: no
refund has given it back. The shift a payment counts in (`shiftId`, null when its cashier has none open) is not modelled: the payment
and its ledger entry are there all the same.

Left out: parts of jobs from before stock was taken at once, edits of the deposit, deleting a job, changing its customer, signatures, the
cash movement of a shift that gives money back for another, notifications, warranty and LINE messages, journals.

### ShopCash

| Variable | Code |
|---|---|
| `shift` | Shift: open or closed, and the expected balance the close went by |
| `session` | CashDrawerSession: status and expectedAmount |
| `expense` | Expense: status and shift |
| `drawer` | CashDrawerTransaction rows of expenses |
| `req` | what each request has read |
| `raced`, `late`, `contested` | history: expenses made or voided, and entries written, while their shift or session was being closed, or after; sessions two requests have closed at once |

A shift is opened under the lock of its branch (`OpenShift`) and then sees to a drawer session in two steps without a lock (`FindSession`,
`OpenSession`), so two sessions can be open at once, and an entry goes to either. `AskCloseShift` adds up the shift from the expenses
that point to it, `CloseShift` closes under the condition that it is still open. `AskCloseSession` adds the session up from the
ledger; `CloseSession` has no condition. An expense reads its shift, then in its transaction the open session (`FindForCreate`), and commits
(`Create`); `voidExpense` locks the row by its UPDATE (`FindForVoid`) before the entry that gives the cash back (`Void`). All amounts are one. Left
out: joining and handing over a shift, the late audit, movements, corrections and reversals by hand, who takes part in a session, and
bills and repairs, which enter a shift and a session the way an expense does.

### OfflineQueue

| Variable | Code |
|---|---|
| `queue` | the status of each item in IndexedDB |
| `online` | `useNetworkStatus` |
| `mounted` | the instances of `useSyncQueue` that are on a page |
| `sync` | how far the `sync()` of each instance has come: the step, the snapshot it works through, the item it is at, the attempts of the client that are left |
| `stored`, `stray` | records the server has made of an item; requests nobody waits for that it may still carry out |
| `outages`, `faults`, `doubted` | history: outages and faults so far; items whose post was cut off, or that waited while two syncs ran |

Every `await` is a step: `resetFailed` (`PutBack`), `getPending` (`ReadPending`), the post (`Send`, `Make`, `Answer`, `Refuse`,
`NoNetwork`, `NoAnswer`), `markSynced` and `markFailed` (a read in `Marking`, the write in `Mark`), `clearSynced` (`ReadSynced`, `Clear`). The
interceptor of `api.ts` repeats a request without an answer twice (`Again`). `MakeLate` is a request that reaches the server, or is finished
there, after the client has given up. `Reconnect` starts a sync in every mounted instance that has none; `Open` starts one when the
network is there. Left out: storage that fails and the queue in memory that replaces it.

## Runs

`CHECK_DEADLOCK FALSE` in all runs because everything here does stop: ids, refunds, outages and faults are bounded, and a shop may be
left alone.

| Run | Asks | Result |
|---|---|---|
| `one_bill` | sale, refund, method change, void and late entry race on one bill while the shift closes and another opens | `RefundWithinBill`, `StatusMatchesUnits`, `LedgerMatchesBill`, `VoidedIsFinal` hold; `KeepsPromise`: the bill implements `BillLifecycle` |
| `counter` | two tills sell, refund and exchange phones by IMEI at once, some sold by repeated or unknown ids, voids alone | `SerialsFollowUnits`, `SerialsCoverStock`, `StockConserved`, `SerialSoldFromStock` hold; `VoidReversesInFull`: a void pays out again what refunds had paid back, and no more |
| `void_race` | may a void race? | `VoidRestoresWhatIsOut` violated |
| `method_race` | may the shift be closed during a change of a payment method? | `PaymentsKeptAfterClose` violated |
| `stock_transfers` | two transfers race with each other, with stock in and out and with counts; corrections alone; requests about one transfer one by one | `NeverBelowZero`, `CardExplainsCount` (of branches that are not `blurred`), `MovesMatchStatus`, `TotalCountsOwnRows` hold; `TransfersKeepPromise`: transfers implement `TransferLifecycle` |
| `correction_race` | may corrections race with each other and with stock taken out? | `NeverBelowZero` violated |
| `transfer_race` | may a cancellation race a dispatch? | `CancelledIsRefunded` violated |
| `total_drift` | may two stock changes race? | `ShadowIsSum` violated |
| `job` | two requests at a time on one repair job, all thirteen operations | `DrawerMatchesJob`, `HandedOverWhenPaid`, `PartsConserved`, `PaidWhenCovered`, `CancelledStaysCancelled` hold until a commit is overtaken; `DebtNeverOverpaid` also in that commit |
| `catch_up` | two requests and a scan on one bill, two failures | `OnlyUndueIsReversed`, `ReplacedLegLeavesBooks` hold; liveness: `BooksCatchUp`, `VoidsCatchUp` |
| `cash_day` | two people open, count and close while an expense is paid and voided | `DrawerMatchesExpenses`, `CountedOnce` hold; a count is off only by what its history names (`ShiftCountExplained`, `DrawerCountExplained`, `ClosedSessionStands`) |
| `deliver` | two items, one refused, two hook instances, an outage and a fault | `NothingLost`, `OnceUnlessDoubted` hold; liveness: `ItemsArrive` |

Where an operation is right only when it runs alone, the passing run says so, in one of two ways. Voids, corrections and requests about one
transfer are serialised by a constant (`Exclusive`, `TransfersOneByOne`); the runs `void_race`, `correction_race` and `transfer_race` let them
overlap and find a violation. Elsewhere history variables record that the bad case has happened (`blurred`, `overtaken`, `tangled`, `raced`,
`late`, `contested`, `doubted`), and a property says what holds without it. Such a property names what the code does not promise, and does not
catch it: no run shows that the excepted case goes wrong.

### Fairness

The safety runs assume none: a request may die at any step. The two liveness runs assume that what has begun goes on, and no more
than that of people and of the network.

- `catch_up`: the server goes on with what it has begun (`WF(Post)`), and a scan is started again and again while there is something for
  it to do (`WF(StartScan)`: `scheduledScan` is a cron job, every 15 minutes). A scan looks at bills of the last 24 hours only; a bill may grow old at any
  time (`GrowOld`), and of an old bill `BooksCatchUp` claims something only if nothing failed, `VoidsCatchUp` nothing. A retry by
  hand (`RetryBill`) may come and has no fairness. Nobody has to sell, refund or void. Failures are bounded: the last scan is not interrupted. That the
  scan reaches every young bill rests on there being no more of them than one batch.
- `deliver`: the browser goes on with a sync that has begun (`WF(SyncStep)`). Nothing makes the network come back or somebody open the page, so
  `ItemsArrive` has that as its premise: *if* a page is opened with a network again and again (`OpenedOnline`), what is not refused arrives.
  The premise is needed. A sync starts only at a mount or when the network comes back; on a page that stays open and online nothing starts
  one, so an item that failed there waits, although the toast (`use-sync-queue.ts:67`) says it will be tried again.

### Findings

- **A void restores what a refund restored** (`void_race`). `voidSale` computes the units to restore from the
  bill it read before the transaction (sales.service.ts:1041) and updates the bill without a condition. A refund that
  commits in between has put its units back already; so has another void of the same bill.
- **A payment changes in a counted shift** (`method_race`). The claim of `changePaymentMethod` (sales.service.ts:936) tests that the shift is
  open and locks the bill only; `closeShift` commits before the change does, and the change moves money in a shift that has been counted -
  what the comment above the claim says must not happen.
- **A correction takes a branch below zero** (`correction_race`). `ADJUST` is checked against stock read before the
  transaction and applied by an upsert that increments (stock.service.ts:186), where `OUT` has a conditional update.
- **A cancelled transfer keeps its units** (`transfer_race`). `cancelTransfer` reads APPROVED, `dispatchTransfer`
  commits, the cancellation commits: CANCELLED, and the units are in no branch.
- **The product's total drifts** (`total_drift`). Two transactions on different branches each sum
  without the other's change; the later total stays wrong until the next change of the product.

Two more, without a run of their own: a void after a partial refund pays the refunded money out again (`VoidReversesInFull` holds and says
so), and an exchange for a product sold by IMEI takes units and no serials (`lacking`), against the header of `serial-stock.ts`.

### Bounds, and why they are enough

Two requests at a time: every race here is between one handler's snapshot and one other commit; since requests
come back, a third commit can follow in the same window (a refund is asked, a second commits, a third
commits, the first commits). Two bills: an exchange needs an old one and a new one. Two refunds per bill, two units per line: a line comes
back in parts. Two serials: a wrong one can be picked. A tender of 5 for a bill of 2 gives change; a tender of 2 in cash and 2 by transfer for a
bill of 1 gives more change than its cash leg holds. Two shifts: a bill's shift closes and another is open. Three payment legs: two
method changes in a row. Two branches with one and zero units, two transfers: the same row is wanted twice, and one branch is source
and destination of different transfers. The search of `stock_transfers` stops where a branch is `blurred` (constraint `NotBlurred`), because its card says
nothing of it from there on; that state itself is still checked.

`catch_up`: one bill (a task names its bill, and bills share nothing), two payment legs (paid two ways, or a leg and its replacement), one
refund of money or of none, two failures (a posting fails, and then the scan that makes up for it). `job`: one job (jobs meet only in stock rows that are
incremented or conditionally decremented), one price of 3 with a deposit of 1, a discount of 0 or 1 and payments of 1 and 3 (a part,
all of it, too much), two additional payments (the first leaves a debt, the second closes it), two reversals (a second round has
its own ledger key), one product with one unit and two parts over the job's life (taken, given back, taken again). Its state constraint
`NotOvertaken` stops the search where the invariants stop claiming anything; the overtaken state itself is still checked.
`cash_day`: two shifts and two sessions (one is closed while the next is opened), one expense, two requests.
`deliver`: two items of which the server refuses one (the refused one must not hold up the other), two instances (two tabs, or a page opened
again while the old sync goes on), one outage and one fault (a second sync can follow each).

Requests, bills, serials, transfers, shifts and sessions are interchangeable where a run declares
symmetry, and all its properties are symmetric in them; the liveness runs use none.

## Proofs

The theorems hold for any sets of requests, bills, products, serials, branches, transfers, scans, shifts, sessions, expenses, items and
hooks, and any bounds. They rest on the `ConstantsAssumption` of each module (prices, stock and amounts are natural numbers, a basket is not
empty, the expenses of a branch and the hooks are finitely many, ...) and on `RowsAssumption` of `SaleBill` (bills and serials are rows of
tables, so finitely many; a serial belongs to one product; no bill is called `Shop`), which TLC evaluates in every run, and on the
serialisation a theorem names. Every invariant and every action property of a passing run is a theorem; liveness is not.

### SaleBill

The inductive invariant is `IInv`: `TypeOK`; for every bill `BillOK` (refunds within the bill, status agrees
with units); and for every request under way `Asked` - what it may rely on although it read it earlier: the bill it names exists, a
void's snapshot counts no more units back than the bill sold, a change of payment that has claimed its bill finds it COMPLETED, a new bill
takes something and names no more serials than units, an exchange takes something. `Asked` is what makes it
inductive: without it, a void could put more than the line back, and a refund could commit on a bill nobody
made. It is stable because bills are never unmade, what they sold never changes, and a claimed bill keeps its status (`BillsStay`). `ByTransaction` splits an action
property into one step per transaction.

`SaleBillFigures` adds layers to `IInv`, each inductive relative to the ones above it:

| Layer | Adds | Assumes |
|---|---|---|
| `Figures` | every bill and its ledger entries fit: the next entry of the bill has a key of its own (`KeysFit`), so the idempotency of `record` never swallows one, and entries and payment legs come to the same by method (`Balanced`). A late bill whose cash was counted belongs to a shift that is closed for good (`PastShift`), so nobody can ask for a change of its payment; the bill of a change that was asked for is paid one way and has its cash in the ledger (`PaidOneWay`, `AskedFigures`), whether or not its shift is closed since | - |
| `SerialsRight` | the serials of a line are as many as its units out, less those sold without a serial of their own (`Held`) | - |
| `NothingLost` | what a void read is what it finds (`VoidAlone`); a voided bill leaves the ledger short of what its refunds paid, because the void reverses the payments in full (`VoidsUndone`); stock and units with customers come to the initial stock (`Conserved`) | voids run alone |

| Theorem | Says | Rests on |
|---|---|---|
| `TypeCorrect` | everything is well formed, stock is never negative | `IInv` |
| `RefundsBounded` | refunds and exchanges together give back no more units of a line than it sold and no more money than the bill's total (what a void pays back is not counted) | `IInv` |
| `StatusCorrect` | the status of a bill that is not voided tells what is back | `IInv` |
| `VoidIsFinal` | nothing that was under way when a void committed touches the voided bill | `IInv` |
| `SoldFromStock` | two tills that ring up one serial cannot both commit | `IInv` |
| `Implements` | `SaleBill` implements `BillLifecycle`: every step of the shop is, for each bill, a sale, a return, a cancellation or nothing (`EveryBillSteps`, `BillStepKeeps`) | `IInv` |
| `LedgerShowsBill` | the ledger has, by method, what a bill was paid less what was paid back | `Figures` |
| `SerialsMatchUnits` | a line has the serials of its units out, less those sold without one | `SerialsRight` |
| `NoUnitLost` | stock plus goods with customers is the initial stock | `NothingLost` |
| `VoidPaysAgain` | a void reverses the payments in full: what refunds had paid back leaves the drawer a second time, exactly that much | `NothingLost` |
| `StockHasSerials` | a serial for every unit in stock, if there was one at the start | `SerialsRight`, `NothingLost` |
| `VoidAloneRestores` | a void run alone puts back the units that are out | `NothingLost` |

The last one is about the property the run `void_race` finds violated: it holds as soon as the race is taken away, so that the finding has that
cause and no other.

### BranchStock

`StepKinds` first reduces the next-state relation to a few kinds of steps: a handler's reads become one
`NewRequest`, which carries all the handler has checked. Then invariants are proved in layers, each relative to the one below:

| Layer | Adds | Assumes | Theorems |
|---|---|---|---|
| `Base` | types; what a message is like whatever happens later; a transfer named in a request exists | - | `TypeCorrect` |
| `Locks` | rows written by open transactions are disjoint; a sum is still right about its own rows | - | `TotalCorrect` |
| `Enough` | what open transactions take out is there | corrections run alone | `NeverBelow` |
| `CardFits` | a count under way of a branch that is not `blurred` remembers the difference to what is there now | - | `CardCorrect` |
| `MovesFit` | what a request about a transfer read of it is still so | requests about one transfer do not overlap | `MovesCorrect`, `EndedForGood`, `CancelledWithUnits`, `TransferImplements` |
| `TotalFits` | the total is of the branches as they are, and the one about to be stored of the branches as they will be | what moves stock runs alone, nobody counts | `TotalWhenAlone` |

`TransferLifecycle` knows of a transfer its status, what the source has given away and what the destination has got. `BranchStock` maps
the last two to the movements of the transfer (`Life`), not to its status, so that the refinement relates the two: `LifeStep` shows
that what a request has read of a transfer and what it moves make one step of the lifecycle (an approval, a dispatch, a receipt, ...). That an ended
transfer stays as it ended (`EndedStaysEnded`) is part of it, and a theorem of its own.

The violation runs `correction_race`, `transfer_race` and `total_drift` check the properties of `NeverBelow`, `CancelledWithUnits` and
`TotalWhenAlone` where requests may overlap: the theorems show that the serialisation they assume is enough, the runs that it is not idle. That nobody counts is
assumed by `TotalWhenAlone` because `setBranchStock` brings the total up to date in a step of its own, which may be left out by a failure.

### RepairJob

`IInv` has two parts. `Base` holds whatever races: the rows are well formed, additional payments are numbered without gaps, no entry in the
ledger has the number of a payment round or a payment that is still to come (so no entry is swallowed as a repetition), and what a request relies
on without reading it again cannot change any more (`AskedOK`: the deposit, once a payment has been asked). `Clean` holds until a commit is
overtaken: a job is handed over exactly when a payment stands (`PaymentsFit`), parts are on the shelf or on the job (`PartsFit`), and the ledger's
net is what the customer has paid and not been given back (`HeldBy`). A commit that leaves nothing overtaken found what `Stands` names as it had read it
(`FinishStands`), and that is all the proof uses of it: the list is complete.

| Theorem | Says |
|---|---|
| `TypeCorrect` | rows, ledger and requests are well formed, whatever races |
| `LedgerIsRight` | the ledger holds what the customer has paid and not been given back, round after round, with or without an open shift |
| `HandOver` | handed over exactly when a payment stands |
| `NoPartLost` | every part is on the shelf or on the job, and a cancelled job keeps none |
| `DebtWithinBalance` | a debt payment takes no more than is owed when it is stored - from `Base` alone, so also when overtaken |
| `PaidIsCovered` | PAID only when deposit and payments cover the price |
| `CancelledForGood` | a cancelled job stays cancelled |

### SaleBooks, ShopCash, OfflineQueue

`Books` adds to the types of `SaleBooks` that every task fits what it works on (`TaskFits`): a document to be taken out
is undue from the moment the task is planned and stays so, because a voided bill stays voided and a replaced leg never comes back; so a scan may
work from a stale reading. `Leaving` (relative to `Books`) keeps, without failures, a reversal in someone's work for every replaced leg in
the books; `tangled` is what it needs to except. That bills grow old changes nothing for either: they are safety, the window matters to liveness.

`Cash` of `ShopCash`: an expense has at most one entry of a kind, and has it exactly when its status says so (`OneEntry`,
`EntriesFit`); a request to void is about an expense that was made (`VoidsFit`); who closes a session nobody else is closing finds it
open (`ClosesFit`). `Counts` (relative to `Cash`) speaks of the balance a shift or session was closed by and of the one somebody is about to
close it by: what is not in it came while it was being closed, or later, and is in `raced` or `late`. The count somebody has read but not
stored is what makes it inductive.

`Safe` of `OfflineQueue`: `Kept` says what has been made at each step of a sync - above all that everything in a snapshot of SYNCED
items has been made; `Once` says of every item no doubt was cast on that at most one sync runs while it waits (`Alone`), that it fits the place
it has in that sync (`Fits`), and that a waiting item nobody is at has no record yet.

| Theorem | Says |
|---|---|
| `SaleBooksProofs!UndueReversals` | no stale reading takes a live document out of the books |
| `SaleBooksProofs!ReplacedLegs` | without failures a replaced leg leaves the books, unless it was being posted when it was replaced |
| `ShopCashProofs!DrawerAgrees` | each expense has taken its cash once, each voided one has put it back once |
| `ShopCashProofs!ShiftCountedOnce`, `ClosedSessions` | a count of a shift stands; that of a session unless two requests closed it at once |
| `ShopCashProofs!ShiftCountIsExplained`, `DrawerCountIsExplained` | a count is off by no more than what came while it was taken, or later |
| `OfflineQueueProofs!NothingIsLost` | an item counts as sent only when it has been made |
| `OfflineQueueProofs!OnceOnly` | it is made twice only after a lost answer, a killed page or two syncs at once |

and `TypeCorrect` in each.

### Sums

Money and units are added up by folds of the community modules, whose order of elements is arbitrary. `SumTheorems` shows that the order does
not matter and what a change of one element, a disjoint union or a bijection does to a sum. A fold is a recursive function on the finite
subsets of a set, and the library's induction theorems take an operator as parameter, which the provers cannot instantiate; so the lemmas
are proved by a smallest counterexample instead: among the subsets a statement fails for, one is minimal (`MinimalSubset`, from the
well-foundedness of inclusion on finite sets), it is not empty, and taking an element away gives a smaller one.

### Only model-checked

Liveness under fairness - `BooksCatchUp`, `VoidsCatchUp`, `ItemsArrive` - is out of the prover's reach and is checked by TLC on the instances of
`catch_up` and `deliver`. The five violated properties are shown by TLC's counterexamples.

## Plan

Done: `SaleBill`, `SaleBooks`, `BranchStock`, `RepairJob`, `ShopCash`, `OfflineQueue`, and the proofs of their safety. Next:

1. More abstract specifications beside `BillLifecycle` and `TransferLifecycle`, with the refinement proved: of a repair job's money
   (owed, paid, handed over), of an item of the offline queue (waiting, made, gone).
2. What the liveness properties rest on, as safety: while a document is missing from the books, a task for it exists or the next scan
   plans one.
3. `PartnerTransfer`: two shops act on one transfer and its quotations (`partner-repair-transfers.service.ts`,
   `partner-repair-quotations.service.ts`); the abstract specification is the transition table with its final statuses.
4. `Wallet`: conditional decrements of a carrier's balance, and the retry on a receipt number that is taken.

## Not modelled

- **Partner transfers, quotations and relationships; carrier wallets.** State machines of their own, next in the plan; their hazards are
  listed without a property.
- **Purchase orders.** Receiving adds to a branch as an `IN` of `BranchStock` does.
- **Commission.** A report over rows `RepairJob` does have. `commission.service.ts:244` subtracts a reversed amount that
  `reversePayment` has already taken out of `paidAmount`, where `commission.calc.ts:15` speaks of the money kept.
- **Reprints of a closed shift** add the shift up anew, so they change when an expense of it is voided later; `ShopCash` keeps the balance the
  close went by.
- **What each module leaves out** is said in its section above; components that are modelled in part are `partly` in `PROJECT.json`.
- **Access control, reports, messaging, printing, backup files, master data, administration and the pages of the web application**: see the
  notes in `PROJECT.json`.
- **PostgreSQL** is modelled by what the code relies on: row locks until commit, READ COMMITTED reads, rollback on
  failure, unique keys. Deadlocks between transactions are aborted requests.
