SPECIFICATION Spec
CONSTANTS
  r1 = r1
  r2 = r2
  t1 = t1
  t2 = t2
  b1 = b1
  b2 = b2
  Requests = {r1, r2}
  Branches = {b1, b2}
  Transfers = {t1, t2}
  InitialQuantity <- MCInitialQuantity
  Amounts = {1}
  Counts = {1}
  Ops = {"create", "approve", "reject", "dispatch", "receive", "complete", "cancel", "in", "out", "adjust", "set"}
  Exclusive = {"adjust"}
  TransfersOneByOne = TRUE
  InFlight = 2
  MaxUnits = 1
CONSTRAINT NotBlurred
SYMMETRY Symmetric
CHECK_DEADLOCK FALSE
INVARIANTS
  TypeOK
  NeverBelowZero
  CardExplainsCount
  MovesMatchStatus
PROPERTIES
  TransfersKeepPromise
  TotalCountsOwnRows
