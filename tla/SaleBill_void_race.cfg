SPECIFICATION Spec
CONSTANTS
  r1 = r1
  r2 = r2
  s1 = s1
  s2 = s2
  x1 = x1
  x2 = x2
  Requests = {r1, r2}
  Sales = {s1}
  Serials = {x1, x2}
  Products <- MCProducts
  SerialsOf <- MCSerialsOf
  UnitPrice <- MCUnitPrice
  InitialStock <- MCInitialStock
  LineMax = 2
  Baskets <- BasketsOneBill
  Discounts = {1}
  Tenders <- TendersMixed
  Money = {1, 2, 3}
  Ops = {"create", "refund", "method", "void", "late"}
  Exclusive = {}
  InFlight = 2
  MaxShift = 2
  MaxRefunds = 2
  MaxLegs = 3
SYMMETRY Symmetric
CHECK_DEADLOCK FALSE
PROPERTIES
  VoidRestoresWhatIsOut
