SPECIFICATION Spec
CONSTANTS
  r1 = r1
  r2 = r2
  s1 = s1
  s2 = s2
  x1 = x1
  x2 = x2
  Requests = {r1, r2}
  Sales = {s1, s2}
  Serials = {x1, x2}
  Products <- MCProducts
  SerialsOf <- MCSerialsOf
  UnitPrice <- MCUnitPrice
  InitialStock <- MCInitialStock
  LineMax = 2
  Baskets <- BasketsPhone
  Discounts = {0}
  Tenders <- Split
  Money = {2, 4}
  Ops = {"create", "refund", "exchange", "void"}
  Exclusive = {"void"}
  InFlight = 2
  MaxShift = 1
  MaxRefunds = 2
  MaxLegs = 3
SYMMETRY Symmetric
CHECK_DEADLOCK FALSE
INVARIANTS
  SerialsFollowUnits
  StockConserved
  SerialsCoverStock
  VoidReversesInFull
PROPERTIES
  SerialSoldFromStock
