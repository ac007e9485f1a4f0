SPECIFICATION Spec
CONSTANTS
  s1 = s1
  s2 = s2
  d1 = d1
  d2 = d2
  e1 = e1
  r1 = r1
  r2 = r2
  nobody = nobody
  Shifts = {s1, s2}
  Sessions = {d1, d2}
  Expenses = {e1}
  Requests = {r1, r2}
  Nobody = nobody
SYMMETRY Symmetric
CHECK_DEADLOCK FALSE
INVARIANTS
  TypeOK
  DrawerMatchesExpenses
  ShiftCountExplained
  DrawerCountExplained
PROPERTIES
  CountedOnce
  ClosedSessionStands
