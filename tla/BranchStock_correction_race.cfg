SPECIFICATION Spec
CONSTANTS
  r1 = r1
  r2 = r2
  t1 = t1
  t2 = t2
  b1 = b1
  b2 = b2
  Requests = {r1, r2}
  Branches = {b1, b2}
  Transfers = {t1, t2}
  InitialQuantity <- MCInitialQuantity
  Amounts = {1}
  Counts = {0, 2}
  Ops = {"out", "adjust"}
  Exclusive = {}
  TransfersOneByOne = TRUE
  InFlight = 2
  MaxUnits = 3
SYMMETRY Symmetric
CHECK_DEADLOCK FALSE
INVARIANTS
  NeverBelowZero
