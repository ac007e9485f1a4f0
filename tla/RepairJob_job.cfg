SPECIFICATION Spec
CONSTANTS
  r1 = r1
  r2 = r2
  Requests = {r1, r2}
  Products = {"screen"}
  InitialStock <- MCInitialStock
  Prices = {3}
  Cuts = {0, 1}
  Deposits = {1}
  Amounts = {1, 3}
  Ops = {"create", "edit", "move", "cancel", "qc", "addPart", "removePart", "pay", "quick", "reverse", "refund", "add", "debt"}
  Stages = {"RECEIVED", "DIAGNOSING", "IN_PROGRESS", "QC_PENDING", "COMPLETED", "READY_PICKUP"}
  InFlight = 2
  MaxAdds = 2
  MaxRounds = 2
  MaxParts = 2
CONSTRAINT NotOvertaken
SYMMETRY Symmetric
CHECK_DEADLOCK FALSE
INVARIANTS
  TypeOK
  DrawerMatchesJob
  HandedOverWhenPaid
  PartsConserved
PROPERTIES
  DebtNeverOverpaid
  PaidWhenCovered
  CancelledStaysCancelled
