SPECIFICATION FairSpec
CONSTANTS
  b1 = b1
  r1 = r1
  r2 = r2
  scan = scan
  Bills = {b1}
  Requests = {r1, r2}
  Scans = {scan}
  MaxLegs = 2
  MaxRefunds = 1
  MaxFaults = 2
CHECK_DEADLOCK FALSE
INVARIANTS
  TypeOK
  OnlyUndueIsReversed
  ReplacedLegLeavesBooks
PROPERTIES
  BooksCatchUp
  VoidsCatchUp
