SPECIFICATION FairSpec
CONSTANTS
  Clients = {c1, c2}
  Waiter = c1
  Items = {i1, i2}
  NoItem = NoItem
  FLAG = 8
  CanDie = TRUE
INVARIANTS TypeOK NoLostWakeup EmptyIsEmpty NoStalePost
PROPERTIES WorkGetsDone WaiterReturns
