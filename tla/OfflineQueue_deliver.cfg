SPECIFICATION FairSpec
CONSTANTS
  i1 = i1
  i2 = i2
  h1 = h1
  h2 = h2
  none = none
  Items = {i1, i2}
  Refused = {i2}
  Hooks = {h1, h2}
  Nothing = none
  MaxOutages = 1
  MaxFaults = 1
CHECK_DEADLOCK FALSE
INVARIANTS
  TypeOK
  NothingLost
  OnceUnlessDoubted
PROPERTIES
  ItemsArrive
